---------------------------- MODULE TicketProofs ----------------------------
(***************************************************************************)
(* Proofs about the Tickets: first the store under any number of clients,  *)
(* then the event loop of the durable lane.  For the loop the store's      *)
(* transactions come first, as what each does to a row; then what is       *)
(* typed, then the parts of the invariant one by one, at last the          *)
(* contract.                                                               *)
(***************************************************************************)
EXTENDS TicketClients, TicketRuntime, FiniteSetTheorems, WellFoundedInduction, TLAPS

-----------------------------------------------------------------------------
(* The store under any number of clients (TicketClients).                  *)

\* The rows that exist can be counted, which is all that `created' needs.
LEMMA RowCountIsNat ==
    ASSUME NEW P \in SUBSET Tickets
    PROVE  Cardinality(P) \in Nat
  BY TicketStoreAssumption, FS_Subset, FS_CardinalityType

\* The initial state satisfies the invariant.
LEMMA InitEstablishes == ClientsInit => IInv
  BY TicketStoreAssumption
  DEF ClientsInit, TicketStoreInit, IInv, ClientsTypeOK, TicketStoreTypeOK, TicketRow, Status, Claimable, Terminal,
      OutboxState, HeldNotAhead, RunningWasClaimed, RunningIffLeased, SettledByLastGeneration,
      NoticeOnlyForOutcome

\* Types are preserved by every call of a client.
LEMMA TypeStep ==
    ASSUME ClientsTypeOK, [ClientsNext]_clientsVars
    PROVE  ClientsTypeOK'
  <1> USE TicketStoreAssumption
      DEF ClientsTypeOK, TicketStoreTypeOK, TicketRow, Status, Claimable, Terminal, OutboxState, Lease, For
  <1>1. CASE AcceptTicket
    <2>1. PICK t \in Tickets : Accept(t) /\ For({})
      BY <1>1 DEF AcceptTicket
    <2> DEFINE n == 1 + Cardinality({u \in Tickets : ticket[u].status # "absent"})
    <2>2. n \in Nat
      BY RowCountIsNat
    <2>3. /\ ticket' = [ticket EXCEPT ![t].status = "accepted", ![t].created = n]
          /\ outbox' = outbox /\ For({})
      BY <2>1 DEF Accept
    <2> HIDE DEF n
    <2>4. [ticket[t] EXCEPT !.status = "accepted", !.created = n] \in TicketRow
      BY <2>2, ZenonT(60)
    <2>5. ticket' \in [Tickets -> TicketRow]
      BY <2>3, <2>4
    <2> QED
      BY <2>3, <2>5
  <1>2. CASE RouteTicket
    BY <1>2 DEF RouteTicket, Route
  <1>3. CASE ClaimTicket
    BY <1>3 DEF ClaimTicket, Claim
  <1>4. CASE ReadLinked
    BY <1>4 DEF ReadLinked, LinkedRunning, CurrentLease, storeVars
  <1>5. CASE Link
    BY <1>5 DEF Link, LinkWorkflow
  <1>6. CASE Beat
    BY <1>6 DEF Beat, Heartbeat, storeVars
  <1>7. CASE CompleteTicket
    BY <1>7 DEF CompleteTicket, Complete, EnqueueTerminal
  <1>8. CASE FailTicket
    <2>1. PICK l \in held, class \in FailureClass : FailAttempt(l, class) /\ For({l})
      BY <1>8 DEF FailTicket
    <2>2. CASE Retryable(l.ticket, class)
      BY <2>1, <2>2 DEF FailAttempt
    <2>3. CASE ~Retryable(l.ticket, class)
      BY <2>1, <2>3, SMTT(30) DEF FailAttempt, EnqueueTerminal
    <2> QED
      BY <2>2, <2>3
  <1>9. CASE RecoverTickets
    <2>1. RecoverExpired /\ For({})
      BY <1>9 DEF RecoverTickets
    <2>2. ASSUME NEW t \in Tickets
          PROVE  [ticket[t] EXCEPT !.status = "waiting", !.lease = "none"] \in TicketRow
      BY ZenonT(60)
    <2>3. ticket' \in [Tickets -> TicketRow]
      BY <2>1, <2>2 DEF RecoverExpired
    <2> QED
      BY <2>1, <2>3 DEF RecoverExpired
  <1>10. CASE LapseLease
    BY <1>10 DEF LapseLease, Lapse
  <1>11. CASE Revoke
    <2>1. PICK s \in Sessions : RevokeSession(s) /\ For({s})
      BY <1>11 DEF Revoke
    <2>2. ticket' \in [Tickets -> TicketRow]
      <3>1. ASSUME NEW t \in Tickets
            PROVE  [ticket[t] EXCEPT !.status = "cancelled", !.lease = "none"] \in TicketRow
        BY ZenonT(60)
      <3> QED
        BY <2>1, <3>1 DEF RevokeSession
    <2>3. outbox' \in [Tickets -> OutboxState]
      BY <2>1 DEF RevokeSession
    <2> QED
      BY <2>1, <2>2, <2>3
  <1>12. CASE SuppressFailed
    BY <1>12 DEF SuppressFailed, SuppressFailedOutbox
  <1>13. CASE ScheduleNotice
    BY <1>13 DEF ScheduleNotice, MarkOutboxScheduled
  <1>14. CASE NoticeDelivered
    BY <1>14 DEF NoticeDelivered, MarkOutboxDelivered
  <1>15. CASE NoticeFailed
    BY <1>15 DEF NoticeFailed, MarkOutboxFailed
  <1>16. CASE UNCHANGED clientsVars
    BY <1>16 DEF clientsVars
  <1> QED
    BY <1>1, <1>2, <1>3, <1>4, <1>5, <1>6, <1>7, <1>8, <1>9, <1>10, <1>11, <1>12, <1>13, <1>14,
       <1>15, <1>16 DEF ClientsNext

\* Every call of a client preserves the invariant.
LEMMA InvariantStep ==
    ASSUME IInv, [ClientsNext]_clientsVars
    PROVE  IInv'
  <1>0. ClientsTypeOK'
    BY TypeStep DEF IInv
  <1> USE TicketStoreAssumption, <1>0
      DEF IInv, ClientsTypeOK, TicketStoreTypeOK, TicketRow, Status, Claimable, Terminal, OutboxState, Lease, For,
          HeldNotAhead, RunningWasClaimed, RunningIffLeased, SettledByLastGeneration,
          NoticeOnlyForOutcome
  <1>1. CASE AcceptTicket
    BY <1>1 DEF AcceptTicket, Accept
  <1>2. CASE RouteTicket
    BY <1>2 DEF RouteTicket, Route
  <1>3. CASE ClaimTicket
    BY <1>3 DEF ClaimTicket, Claim
  <1>4. CASE ReadLinked
    BY <1>4 DEF ReadLinked, LinkedRunning, CurrentLease, storeVars
  <1>5. CASE Link
    BY <1>5 DEF Link, LinkWorkflow, HoldsLease
  <1>6. CASE Beat
    BY <1>6 DEF Beat, Heartbeat, storeVars
  <1>7. CASE CompleteTicket
    <2>1. PICK l \in held : Complete(l) /\ For({l})
      BY <1>7 DEF CompleteTicket
    <2>2. HeldNotAhead'
      BY <2>1 DEF Complete, HoldsLease, EnqueueTerminal
    <2>3. RunningWasClaimed'
      BY <2>1 DEF Complete, HoldsLease, EnqueueTerminal
    <2>4. RunningIffLeased'
      BY <2>1 DEF Complete, HoldsLease, EnqueueTerminal
    <2>5. SettledByLastGeneration'
      BY <2>1 DEF Complete, HoldsLease, EnqueueTerminal
    <2>6. NoticeOnlyForOutcome'
      BY <2>1 DEF Complete, HoldsLease, EnqueueTerminal
    <2> QED
      BY <2>2, <2>3, <2>4, <2>5, <2>6
  <1>8. CASE FailTicket
    <2>1. PICK l \in held, class \in FailureClass : FailAttempt(l, class) /\ For({l})
      BY <1>8 DEF FailTicket
    <2>2. CASE Retryable(l.ticket, class)
      BY <2>1, <2>2 DEF FailAttempt, HoldsLease
    <2>3. CASE ~Retryable(l.ticket, class)
      BY <2>1, <2>3 DEF FailAttempt, HoldsLease, EnqueueTerminal
    <2> QED
      BY <2>2, <2>3
  <1>9. CASE RecoverTickets
    <2>1. RecoverExpired /\ For({})
      BY <1>9 DEF RecoverTickets
    <2>2. ASSUME NEW t \in Tickets
          PROVE  /\ ticket'[t].attempts = ticket[t].attempts
                 /\ ticket'[t].workflow = ticket[t].workflow
                 /\ ticket'[t].lane = ticket[t].lane
                 /\ ticket'[t].evidence = ticket[t].evidence
                 /\ \/ /\ ticket'[t].status = ticket[t].status
                       /\ ticket'[t].lease = ticket[t].lease
                    \/ /\ ticket[t].status = "running"
                       /\ ticket'[t].status = "waiting"
                       /\ ticket'[t].lease = "none"
      <3>1. CASE t \in Expired
        <4>1. ticket'[t] = [ticket[t] EXCEPT !.status = "waiting", !.lease = "none"]
          BY <2>1, <3>1 DEF RecoverExpired
        <4> QED
          BY <3>1, <4>1 DEF Expired
      <3>2. CASE t \notin Expired
        <4>1. ticket'[t] = ticket[t]
          BY <2>1, <3>2 DEF RecoverExpired
        <4> QED
          BY <4>1
      <3> QED
        BY <3>1, <3>2
    <2>3. outbox' = outbox /\ held' = held
      BY <2>1 DEF RecoverExpired
    <2>4. HeldNotAhead'
      BY <2>2, <2>3
    <2>5. RunningWasClaimed'
      BY <2>2, <2>3
    <2>6. RunningIffLeased'
      BY <2>2, <2>3
    <2>7. SettledByLastGeneration'
      BY <2>2, <2>3
    <2>8. NoticeOnlyForOutcome'
      BY <2>2, <2>3
    <2> QED
      BY <2>4, <2>5, <2>6, <2>7, <2>8
  <1>10. CASE LapseLease
    BY <1>10 DEF LapseLease, Lapse
  <1>11. CASE Revoke
    <2>1. PICK s \in Sessions : RevokeSession(s) /\ For({s})
      BY <1>11 DEF Revoke
    <2>2. ASSUME NEW t \in Tickets
          PROVE  /\ ticket'[t].attempts = ticket[t].attempts
                 /\ ticket'[t].workflow = ticket[t].workflow
                 /\ ticket'[t].lane = ticket[t].lane
                 /\ ticket'[t].evidence = ticket[t].evidence
                 /\ \/ /\ ticket'[t].status = ticket[t].status
                       /\ ticket'[t].lease = ticket[t].lease
                    \/ /\ ticket[t].status \in Claimable \cup {"running"}
                       /\ ticket'[t].status = "cancelled"
                       /\ ticket'[t].lease = "none"
      <3> DEFINE hit == t \in Owned(s) /\ ticket[t].status \in Claimable \cup {"running"}
      <3>1. CASE hit
        <4>1. ticket'[t] = [ticket[t] EXCEPT !.status = "cancelled", !.lease = "none"]
          BY <2>1, <3>1 DEF RevokeSession
        <4> QED
          BY <3>1, <4>1
      <3>2. CASE ~hit
        <4>1. ticket'[t] = ticket[t]
          BY <2>1, <3>2 DEF RevokeSession
        <4> QED
          BY <4>1
      <3> QED
        BY <3>1, <3>2
    <2>3. held' = held /\ \A t \in Tickets : outbox'[t] \in {outbox[t], "none"}
      BY <2>1 DEF RevokeSession
    <2>4. HeldNotAhead'
      BY <2>2, <2>3
    <2>5. RunningWasClaimed'
      BY <2>2, <2>3
    <2>6. RunningIffLeased'
      BY <2>2, <2>3
    <2>7. SettledByLastGeneration'
      BY <2>2, <2>3
    <2>8. NoticeOnlyForOutcome'
      BY <2>2, <2>3
    <2> QED
      BY <2>4, <2>5, <2>6, <2>7, <2>8
  <1>12. CASE SuppressFailed
    BY <1>12 DEF SuppressFailed, SuppressFailedOutbox
  <1>13. CASE ScheduleNotice
    BY <1>13 DEF ScheduleNotice, MarkOutboxScheduled
  <1>14. CASE NoticeDelivered
    BY <1>14 DEF NoticeDelivered, MarkOutboxDelivered
  <1>15. CASE NoticeFailed
    BY <1>15 DEF NoticeFailed, MarkOutboxFailed
  <1>16. CASE UNCHANGED clientsVars
    BY <1>16 DEF clientsVars
  <1> QED
    BY <1>1, <1>2, <1>3, <1>4, <1>5, <1>6, <1>7, <1>8, <1>9, <1>10, <1>11, <1>12, <1>13, <1>14,
       <1>15, <1>16 DEF ClientsNext

\* Whatever the clients do, the invariant holds: every row keeps its types,
\* only a current holder has settled, only outcomes are announced.
THEOREM StoreInvariant == ClientsSpec => []IInv
  <1>1. IInv /\ [ClientsNext]_clientsVars => IInv'
    BY InvariantStep
  <1> QED
    BY InitEstablishes, <1>1, PTL DEF ClientsSpec

THEOREM TypeCorrect == ClientsSpec => []ClientsTypeOK
  <1>1. IInv => ClientsTypeOK
    BY DEF IInv
  <1> QED
    BY StoreInvariant, <1>1, PTL

\* A worker whose lease was taken over never settles the Ticket: the settling
\* event carries the last generation (the fence of complete and failAttempt).
THEOREM LastGenerationSettles == ClientsSpec => []SettledByLastGeneration
  <1>1. IInv => SettledByLastGeneration
    BY DEF IInv
  <1> QED
    BY StoreInvariant, <1>1, PTL

\* Cancelled and open Tickets have no outbox row, whatever was enqueued before
\* the owner's Stop, Reset or Delete.
THEOREM OnlyOutcomesAreAnnounced == ClientsSpec => []NoticeOnlyForOutcome
  <1>1. IInv => NoticeOnlyForOutcome
    BY DEF IInv
  <1> QED
    BY StoreInvariant, <1>1, PTL

-----------------------------------------------------------------------------

\* No call reopens or changes a terminal row.
LEMMA TerminalStep ==
    ASSUME IInv, [ClientsNext]_clientsVars
    PROVE  TerminalRowKept
  <1> USE DEF IInv, ClientsTypeOK, TicketStoreTypeOK, Terminal, Claimable, TerminalRowKept
  <1>1. CASE AcceptTicket
    BY <1>1 DEF AcceptTicket, Accept
  <1>2. CASE RouteTicket
    BY <1>2 DEF RouteTicket, Route
  <1>3. CASE ClaimTicket
    BY <1>3 DEF ClaimTicket, Claim
  <1>4. CASE ReadLinked
    BY <1>4 DEF ReadLinked, storeVars
  <1>5. CASE Link
    BY <1>5 DEF Link, LinkWorkflow, HoldsLease
  <1>6. CASE Beat
    BY <1>6 DEF Beat, Heartbeat, storeVars
  <1>7. CASE CompleteTicket
    BY <1>7 DEF CompleteTicket, Complete, HoldsLease
  <1>8. CASE FailTicket
    BY <1>8 DEF FailTicket, FailAttempt, HoldsLease
  <1>9. CASE RecoverTickets
    BY <1>9 DEF RecoverTickets, RecoverExpired, Expired
  <1>10. CASE LapseLease
    BY <1>10 DEF LapseLease, Lapse
  <1>11. CASE Revoke
    BY <1>11 DEF Revoke, RevokeSession
  <1>12. CASE SuppressFailed
    BY <1>12 DEF SuppressFailed, SuppressFailedOutbox
  <1>13. CASE ScheduleNotice
    BY <1>13 DEF ScheduleNotice, MarkOutboxScheduled
  <1>14. CASE NoticeDelivered
    BY <1>14 DEF NoticeDelivered, MarkOutboxDelivered
  <1>15. CASE NoticeFailed
    BY <1>15 DEF NoticeFailed, MarkOutboxFailed
  <1>16. CASE UNCHANGED clientsVars
    BY <1>16 DEF clientsVars
  <1> QED
    BY <1>1, <1>2, <1>3, <1>4, <1>5, <1>6, <1>7, <1>8, <1>9, <1>10, <1>11, <1>12, <1>13, <1>14,
       <1>15, <1>16 DEF ClientsNext

THEOREM TerminalIsFrozen == ClientsSpec => TerminalRowIsFrozen
  <1>1. IInv /\ [ClientsNext]_clientsVars => [TerminalRowKept]_clientsVars
    BY TerminalStep
  <1> QED
    BY StoreInvariant, <1>1, PTL DEF ClientsSpec, TerminalRowIsFrozen

\* No call brings back the notice of a terminal Ticket.
LEMMA NoticeStep ==
    ASSUME IInv, [ClientsNext]_clientsVars
    PROVE  NoticeKept
  <1> USE DEF IInv, ClientsTypeOK, TicketStoreTypeOK, Terminal, Claimable, NoticeKept, NoticeOnlyForOutcome, Lease
  <1>1. CASE AcceptTicket
    BY <1>1 DEF AcceptTicket, Accept
  <1>2. CASE RouteTicket
    BY <1>2 DEF RouteTicket, Route
  <1>3. CASE ClaimTicket
    BY <1>3 DEF ClaimTicket, Claim
  <1>4. CASE ReadLinked
    BY <1>4 DEF ReadLinked, storeVars
  <1>5. CASE Link
    BY <1>5 DEF Link, LinkWorkflow, HoldsLease
  <1>6. CASE Beat
    BY <1>6 DEF Beat, Heartbeat, storeVars
  <1>7. CASE CompleteTicket
    BY <1>7 DEF CompleteTicket, Complete, HoldsLease, EnqueueTerminal
  <1>8. CASE FailTicket
    BY <1>8 DEF FailTicket, FailAttempt, HoldsLease, EnqueueTerminal
  <1>9. CASE RecoverTickets
    BY <1>9 DEF RecoverTickets, RecoverExpired, Expired
  <1>10. CASE LapseLease
    BY <1>10 DEF LapseLease, Lapse
  <1>11. CASE Revoke
    BY <1>11 DEF Revoke, RevokeSession
  <1>12. CASE SuppressFailed
    BY <1>12 DEF SuppressFailed, SuppressFailedOutbox
  <1>13. CASE ScheduleNotice
    BY <1>13 DEF ScheduleNotice, MarkOutboxScheduled
  <1>14. CASE NoticeDelivered
    BY <1>14 DEF NoticeDelivered, MarkOutboxDelivered
  <1>15. CASE NoticeFailed
    BY <1>15 DEF NoticeFailed, MarkOutboxFailed
  <1>16. CASE UNCHANGED clientsVars
    BY <1>16 DEF clientsVars
  <1> QED
    BY <1>1, <1>2, <1>3, <1>4, <1>5, <1>6, <1>7, <1>8, <1>9, <1>10, <1>11, <1>12, <1>13, <1>14,
       <1>15, <1>16 DEF ClientsNext

THEOREM NoticeStaysGone == ClientsSpec => NoticeIsNeverReborn
  <1>1. IInv /\ [ClientsNext]_clientsVars => [NoticeKept]_clientsVars
    BY NoticeStep
  <1> QED
    BY StoreInvariant, <1>1, PTL DEF ClientsSpec, NoticeIsNeverReborn

\* A live lease ends only by a call made with it or by its session's Stop, and
\* no second generation is given while it runs.
LEMMA ClaimStep ==
    ASSUME IInv, [ClientsNext]_clientsVars
    PROVE  ClaimKept
  <1> USE DEF IInv, ClientsTypeOK, TicketStoreTypeOK, TicketRow, Claimable, ClaimKept, HoldsLease, CurrentLease, Lease, For
  <1>1. CASE AcceptTicket
    BY <1>1 DEF AcceptTicket, Accept
  <1>2. CASE RouteTicket
    BY <1>2 DEF RouteTicket, Route
  <1>3. CASE ClaimTicket
    BY <1>3 DEF ClaimTicket, Claim
  <1>4. CASE ReadLinked
    BY <1>4 DEF ReadLinked, storeVars
  <1>5. CASE Link
    BY <1>5 DEF Link, LinkWorkflow, HoldsLease
  <1>6. CASE Beat
    BY <1>6 DEF Beat, Heartbeat, storeVars
  <1>7. CASE CompleteTicket
    <2>1. PICK l \in held : Complete(l) /\ For({l})
      BY <1>7 DEF CompleteTicket
    <2>2. l = CurrentLease(l.ticket) /\ l.ticket \in Tickets
      BY <2>1 DEF Complete
    <2> QED
      BY <2>1, <2>2 DEF Complete
  <1>8. CASE FailTicket
    <2>1. PICK l \in held, class \in FailureClass : FailAttempt(l, class) /\ For({l})
      BY <1>8 DEF FailTicket
    <2>2. l = CurrentLease(l.ticket) /\ l.ticket \in Tickets
      BY <2>1 DEF FailAttempt
    <2> QED
      BY <2>1, <2>2 DEF FailAttempt
  <1>9. CASE RecoverTickets
    BY <1>9 DEF RecoverTickets, RecoverExpired, Expired
  <1>10. CASE LapseLease
    BY <1>10 DEF LapseLease, Lapse
  <1>11. CASE Revoke
    <2>1. PICK s \in Sessions : RevokeSession(s) /\ For({s})
      BY <1>11 DEF Revoke
    <2>2. ASSUME NEW t \in Tickets
          PROVE  /\ ticket'[t].attempts = ticket[t].attempts
                 /\ ticket'[t].workflow = ticket[t].workflow
                 /\ ticket'[t].status = ticket[t].status \/ Owner[t] = s
      <3> DEFINE hit == t \in Owned(s) /\ ticket[t].status \in Claimable \cup {"running"}
      <3>1. CASE hit
        <4>1. ticket'[t] = [ticket[t] EXCEPT !.status = "cancelled", !.lease = "none"]
          BY <2>1, <3>1 DEF RevokeSession
        <4> QED
          BY <3>1, <4>1 DEF Owned
      <3>2. CASE ~hit
        <4>1. ticket'[t] = ticket[t]
          BY <2>1, <3>2 DEF RevokeSession
        <4> QED
          BY <4>1
      <3> QED
        BY <3>1, <3>2
    <2> QED
      BY <2>1, <2>2
  <1>12. CASE SuppressFailed
    BY <1>12 DEF SuppressFailed, SuppressFailedOutbox
  <1>13. CASE ScheduleNotice
    BY <1>13 DEF ScheduleNotice, MarkOutboxScheduled
  <1>14. CASE NoticeDelivered
    BY <1>14 DEF NoticeDelivered, MarkOutboxDelivered
  <1>15. CASE NoticeFailed
    BY <1>15 DEF NoticeFailed, MarkOutboxFailed
  <1>16. CASE UNCHANGED clientsVars
    BY <1>16 DEF clientsVars
  <1> QED
    BY <1>1, <1>2, <1>3, <1>4, <1>5, <1>6, <1>7, <1>8, <1>9, <1>10, <1>11, <1>12, <1>13, <1>14,
       <1>15, <1>16 DEF ClientsNext

THEOREM LeaseIsExclusive == ClientsSpec => LiveLeaseIsExclusive
  <1>1. IInv /\ [ClientsNext]_clientsVars => [ClaimKept]_clientsVars
    BY ClaimStep
  <1> QED
    BY StoreInvariant, <1>1, PTL DEF ClientsSpec, LiveLeaseIsExclusive

-----------------------------------------------------------------------------
(* The store implements its contract. *)

\* The initial states correspond.
LEMMA ClientsRefineInit == ClientsInit => ClientsContract!Init
  BY DEF ClientsInit, TicketStoreInit, ClientsContract!Init, ClientsState, ClientsNotice, Claimable

\* Every call is a step of the contract or changes nothing the contract sees.
LEMMA ClientsRefineStep ==
    ASSUME IInv, [ClientsNext]_clientsVars
    PROVE  [ClientsContract!Next]_(ClientsContract!contractVars)
  <1> DEFINE abstract == [t \in Tickets |-> ClientsState(t)]
             owed == [t \in Tickets |-> ClientsNotice(t)]
  <1> USE DEF IInv, ClientsTypeOK, TicketStoreTypeOK, Terminal, Claimable, NoticeOnlyForOutcome, Lease,
              ClientsState, ClientsNotice, ClientsContract!contractVars
  <1>1. CASE AcceptTicket
    <2>1. PICK t \in Tickets : Accept(t)
      BY <1>1 DEF AcceptTicket
    <2>2. abstract[t] = "absent"
      BY <2>1 DEF Accept
    <2>3. \A u \in Tickets : ClientsState(u)' = (IF u = t THEN "open" ELSE ClientsState(u))
      BY <2>1 DEF Accept
    <2>4. abstract' = [abstract EXCEPT ![t] = "open"]
      BY <2>3
    <2>5. owed' = owed
      BY <2>1 DEF Accept
    <2>6. ClientsContract!Submit(t)
      BY <2>2, <2>4, <2>5 DEF ClientsContract!Submit
    <2> QED
      BY <2>6 DEF ClientsContract!Next
  <1>2. CASE RouteTicket
    <2>1. abstract' = abstract /\ owed' = owed
      BY <1>2 DEF RouteTicket, Route
    <2> QED
      BY <2>1
  <1>3. CASE ClaimTicket
    <2>1. PICK t \in Tickets : Claim(t)
      BY <1>3 DEF ClaimTicket
    <2>2. abstract[t] = "open"
      BY <2>1 DEF Claim
    <2>3. \A u \in Tickets : ClientsState(u)' = (IF u = t THEN "claimed" ELSE ClientsState(u))
      BY <2>1 DEF Claim
    <2>4. abstract' = [abstract EXCEPT ![t] = "claimed"]
      BY <2>3
    <2>5. owed' = owed
      BY <2>1 DEF Claim
    <2>6. ClientsContract!Take(t)
      BY <2>2, <2>4, <2>5 DEF ClientsContract!Take
    <2> QED
      BY <2>6 DEF ClientsContract!Next
  <1>4. CASE ReadLinked
    BY <1>4 DEF ReadLinked, storeVars
  <1>5. CASE Link
    <2>1. abstract' = abstract /\ owed' = owed
      BY <1>5 DEF Link, LinkWorkflow
    <2> QED
      BY <2>1
  <1>6. CASE Beat
    BY <1>6 DEF Beat, Heartbeat, storeVars
  <1>7. CASE CompleteTicket
    <2>1. PICK l \in held : Complete(l)
      BY <1>7 DEF CompleteTicket
    <2>2. l.ticket \in Tickets
      OBVIOUS
    <2>3. abstract[l.ticket] = "claimed" /\ owed[l.ticket] = "none"
      BY <2>1, <2>2 DEF Complete, HoldsLease
    <2>4. \A u \in Tickets : ClientsState(u)' = (IF u = l.ticket THEN "completed" ELSE ClientsState(u))
      BY <2>1, <2>2 DEF Complete, HoldsLease
    <2>5. \A u \in Tickets : ClientsNotice(u)' = (IF u = l.ticket THEN "owed" ELSE ClientsNotice(u))
      BY <2>1, <2>2, <2>3 DEF Complete, EnqueueTerminal
    <2>6. abstract' = [abstract EXCEPT ![l.ticket] = "completed"]
      BY <2>4
    <2>7. owed' = [owed EXCEPT ![l.ticket] = "owed"]
      BY <2>5
    <2>8. ClientsContract!Settle(l.ticket, "completed")
      BY <2>3, <2>6, <2>7 DEF ClientsContract!Settle
    <2> QED
      BY <2>2, <2>8 DEF ClientsContract!Next
  <1>8. CASE FailTicket
    <2>1. PICK l \in held, class \in FailureClass : FailAttempt(l, class)
      BY <1>8 DEF FailTicket
    <2>2. l.ticket \in Tickets
      OBVIOUS
    <2>3. abstract[l.ticket] = "claimed" /\ owed[l.ticket] = "none"
      BY <2>1, <2>2 DEF FailAttempt, HoldsLease
    <2>4. CASE Retryable(l.ticket, class)
      <3>1. ASSUME NEW u \in Tickets
            PROVE  ClientsState(u)' = (IF u \in {l.ticket} THEN "open" ELSE ClientsState(u))
        <4>1. ticket'[u] = (IF u = l.ticket THEN [ticket[u] EXCEPT !.status = "waiting", !.lease = "none"]
                            ELSE ticket[u])
          BY <2>1, <2>2, <2>4 DEF FailAttempt
        <4>2. CASE u = l.ticket
          BY <4>1, <4>2
        <4>3. CASE u # l.ticket
          BY <4>1, <4>3
        <4> QED
          BY <4>2, <4>3
      <3>2. owed' = owed
        BY <2>1, <2>4 DEF FailAttempt
      <3>3. abstract' = [u \in Tickets |-> IF u \in {l.ticket} THEN "open" ELSE abstract[u]]
        BY <3>1
      <3>4. ClientsContract!Release({l.ticket})
        BY <2>3, <3>2, <3>3 DEF ClientsContract!Release
      <3> QED
        BY <2>2, <3>4 DEF ClientsContract!Next
    <2>5. CASE ~Retryable(l.ticket, class)
      <3>1. ASSUME NEW u \in Tickets
            PROVE  ClientsState(u)' = (IF u = l.ticket THEN "failed" ELSE ClientsState(u))
        <4>1. ticket'[u] = (IF u = l.ticket
                            THEN [ticket[u] EXCEPT !.status = "failed", !.lease = "none",
                                                   !.evidence = l.generation]
                            ELSE ticket[u])
          BY <2>1, <2>2, <2>5 DEF FailAttempt
        <4>2. CASE u = l.ticket
          BY <4>1, <4>2
        <4>3. CASE u # l.ticket
          BY <4>1, <4>3
        <4> QED
          BY <4>2, <4>3
      <3>2. \A u \in Tickets : ClientsNotice(u)' = (IF u = l.ticket THEN "owed" ELSE ClientsNotice(u))
        BY <2>1, <2>2, <2>3, <2>5 DEF FailAttempt, EnqueueTerminal
      <3>3. abstract' = [abstract EXCEPT ![l.ticket] = "failed"]
        BY <3>1
      <3>4. owed' = [owed EXCEPT ![l.ticket] = "owed"]
        BY <3>2
      <3>5. ClientsContract!Settle(l.ticket, "failed")
        BY <2>3, <3>3, <3>4 DEF ClientsContract!Settle
      <3> QED
        BY <2>2, <3>5 DEF ClientsContract!Next
    <2> QED
      BY <2>4, <2>5
  <1>9. CASE RecoverTickets
    <2>1. RecoverExpired
      BY <1>9 DEF RecoverTickets
    <2>2. Expired \in SUBSET Tickets /\ \A u \in Expired : abstract[u] = "claimed"
      BY DEF Expired
    <2>3. ASSUME NEW u \in Tickets
          PROVE  ClientsState(u)' = (IF u \in Expired THEN "open" ELSE ClientsState(u))
      <3>1. CASE u \in Expired
        <4>1. ticket'[u] = [ticket[u] EXCEPT !.status = "waiting", !.lease = "none"]
          BY <2>1, <3>1 DEF RecoverExpired
        <4> QED
          BY <3>1, <4>1
      <3>2. CASE u \notin Expired
        <4>1. ticket'[u] = ticket[u]
          BY <2>1, <3>2 DEF RecoverExpired
        <4> QED
          BY <3>2, <4>1
      <3> QED
        BY <3>1, <3>2
    <2>4. abstract' = [u \in Tickets |-> IF u \in Expired THEN "open" ELSE abstract[u]]
      BY <2>3
    <2>5. owed' = owed
      BY <2>1 DEF RecoverExpired
    <2>6. PICK S \in SUBSET Tickets : S = Expired
      BY <2>2
    <2>7. ClientsContract!Release(S)
      BY <2>2, <2>4, <2>5, <2>6 DEF ClientsContract!Release
    <2> QED
      BY <2>7 DEF ClientsContract!Next
  <1>10. CASE LapseLease
    <2>1. abstract' = abstract /\ owed' = owed
      BY <1>10 DEF LapseLease, Lapse
    <2> QED
      BY <2>1
  <1>11. CASE Revoke
    <2>1. PICK s \in Sessions : RevokeSession(s)
      BY <1>11 DEF Revoke
    <2>2. ASSUME NEW u \in Tickets
          PROVE  ClientsState(u)' = (IF Owner[u] = s /\ abstract[u] \in ClientsContract!Live
                                      THEN "cancelled" ELSE ClientsState(u))
      <3> DEFINE hit == u \in Owned(s) /\ ticket[u].status \in Claimable \cup {"running"}
      <3>1. hit <=> Owner[u] = s /\ abstract[u] \in ClientsContract!Live
        BY DEF Owned, ClientsContract!Live, TicketRow, Status
      <3>2. CASE hit
        <4>1. ticket'[u] = [ticket[u] EXCEPT !.status = "cancelled", !.lease = "none"]
          BY <2>1, <3>2 DEF RevokeSession
        <4> QED
          BY <3>1, <3>2, <4>1
      <3>3. CASE ~hit
        <4>1. ticket'[u] = ticket[u]
          BY <2>1, <3>3 DEF RevokeSession
        <4> QED
          BY <3>1, <3>3, <4>1
      <3> QED
        BY <3>2, <3>3
    <2>3. abstract' = [u \in Tickets |-> IF Owner[u] = s /\ abstract[u] \in ClientsContract!Live
                                         THEN "cancelled" ELSE abstract[u]]
      BY <2>2
    <2>4. \A u \in Tickets :
            ClientsNotice(u)' = (IF Owner[u] = s /\ owed[u] = "owed" THEN "none" ELSE ClientsNotice(u))
      BY <2>1 DEF RevokeSession, Owned, OutboxState
    <2>5. owed' = [u \in Tickets |-> IF Owner[u] = s /\ owed[u] = "owed" THEN "none" ELSE owed[u]]
      BY <2>4
    <2>6. ClientsContract!Cancel(s)
      BY <2>3, <2>5 DEF ClientsContract!Cancel
    <2> QED
      BY <2>6 DEF ClientsContract!Next
  <1>12. CASE SuppressFailed
    <2>1. PICK t \in Tickets : SuppressFailedOutbox(t)
      BY <1>12 DEF SuppressFailed
    <2>2. abstract' = abstract
      BY <2>1 DEF SuppressFailedOutbox
    <2>3. CASE ticket[t].status = "failed" /\ outbox[t] \in {"pending", "scheduled"}
      <3>1. abstract[t] = "failed" /\ owed[t] = "owed"
        BY <2>3
      <3>2. owed' = [owed EXCEPT ![t] = "none"]
        BY <2>1, <2>3 DEF SuppressFailedOutbox
      <3>3. ClientsContract!Suppress(t)
        BY <2>2, <3>1, <3>2 DEF ClientsContract!Suppress
      <3> QED
        BY <3>3 DEF ClientsContract!Next
    <2>4. CASE ~(ticket[t].status = "failed" /\ outbox[t] \in {"pending", "scheduled"})
      <3>1. owed' = owed
        BY <2>1, <2>4 DEF SuppressFailedOutbox
      <3> QED
        BY <2>2, <3>1
    <2> QED
      BY <2>3, <2>4
  <1>13. CASE ScheduleNotice
    <2>1. abstract' = abstract /\ owed' = owed
      BY <1>13 DEF ScheduleNotice, MarkOutboxScheduled
    <2> QED
      BY <2>1
  <1>14. CASE NoticeDelivered
    <2>1. PICK t \in Tickets : MarkOutboxDelivered(t)
      BY <1>14 DEF NoticeDelivered
    <2>2. owed[t] = "owed"
      BY <2>1 DEF MarkOutboxDelivered
    <2>3. owed' = [owed EXCEPT ![t] = "delivered"]
      BY <2>1 DEF MarkOutboxDelivered
    <2>4. abstract' = abstract
      BY <2>1 DEF MarkOutboxDelivered
    <2>5. ClientsContract!Deliver(t)
      BY <2>2, <2>3, <2>4 DEF ClientsContract!Deliver
    <2> QED
      BY <2>5 DEF ClientsContract!Next
  <1>15. CASE NoticeFailed
    <2>1. abstract' = abstract /\ owed' = owed
      BY <1>15 DEF NoticeFailed, MarkOutboxFailed
    <2> QED
      BY <2>1
  <1>16. CASE UNCHANGED clientsVars
    BY <1>16 DEF clientsVars
  <1> QED
    BY <1>1, <1>2, <1>3, <1>4, <1>5, <1>6, <1>7, <1>8, <1>9, <1>10, <1>11, <1>12, <1>13, <1>14,
       <1>15, <1>16 DEF ClientsNext

\* However its transactions are interleaved by stale, repeated and overlapping
\* clients, the store is an implementation of TicketContract.
THEOREM Refinement == ClientsSpec => ClientsImplementContract
  <1>1. ClientsInit => ClientsContract!Init
    BY ClientsRefineInit
  <1>2. IInv /\ [ClientsNext]_clientsVars => [ClientsContract!Next]_(ClientsContract!contractVars)
    BY ClientsRefineStep
  <1> QED
    BY StoreInvariant, <1>1, <1>2, PTL DEF ClientsSpec, ClientsImplementContract, ClientsContract!Spec

-----------------------------------------------------------------------------
(* The event loop (TicketRuntime).                                         *)

-----------------------------------------------------------------------------
(* Rows. *)

\* The fields of a row are typed.
LEMMA RowFields ==
    ASSUME NEW r \in TicketRow
    PROVE  /\ r.status \in Status /\ r.created \in Nat /\ r.attempts \in Nat
           /\ r.workflow \in Tickets \cup {NoWorkflow}
  BY DEF TicketRow

\* Each transaction of the store changes a row in one of these ways.
LEMMA RowAccepted ==
    ASSUME NEW r \in TicketRow, NEW n \in Nat
    PROVE  LET q == [r EXCEPT !.status = "accepted", !.created = n]
           IN q \in TicketRow /\ q.status = "accepted" /\ q.attempts = r.attempts /\ q.workflow = r.workflow
  BY DEF TicketRow, Status, Claimable

Routed(r, lane, n) == [r EXCEPT !.status = "accepted", !.lane = lane, !.created = n]

LEMMA RoutedRow ==
    ASSUME NEW r \in TicketRow, NEW n \in Nat, NEW lane \in {"direct", "durable"}
    PROVE  Routed(r, lane, n) \in TicketRow
  BY DEF Routed, TicketRow, Status, Claimable

LEMMA RoutedFields ==
    ASSUME NEW r \in TicketRow, NEW n \in Nat, NEW lane \in {"direct", "durable"}
    PROVE  LET q == Routed(r, lane, n)
           IN q.status = "accepted" /\ q.attempts = r.attempts /\ q.workflow = r.workflow
  <1>1. Routed(r, lane, n).status = "accepted"
    BY DEF Routed, TicketRow
  <1>2. Routed(r, lane, n).attempts = r.attempts
    BY DEF Routed, TicketRow
  <1>3. Routed(r, lane, n).workflow = r.workflow
    BY DEF Routed, TicketRow
  <1> QED
    BY <1>1, <1>2, <1>3

Claimed(r) == [r EXCEPT !.status = "running", !.attempts = @ + 1, !.lease = "live"]

LEMMA RowClaimed ==
    ASSUME NEW r \in TicketRow
    PROVE  LET q == Claimed(r)
           IN q \in TicketRow /\ q.status = "running" /\ q.attempts = r.attempts + 1 /\ q.workflow = r.workflow
  <1>1. r.attempts + 1 \in Nat
    BY RowFields
  <1>2. Claimed(r) \in TicketRow
    BY <1>1 DEF Claimed, TicketRow, Status
  <1>3. Claimed(r).status = "running"
    BY DEF Claimed, TicketRow
  <1>4. Claimed(r).attempts = r.attempts + 1
    BY DEF Claimed, TicketRow
  <1>5. Claimed(r).workflow = r.workflow
    BY DEF Claimed, TicketRow
  <1> QED
    BY <1>2, <1>3, <1>4, <1>5

LEMMA RowLinked ==
    ASSUME NEW r \in TicketRow, NEW w \in Tickets
    PROVE  LET q == [r EXCEPT !.workflow = w]
           IN q \in TicketRow /\ q.status = r.status /\ q.attempts = r.attempts /\ q.workflow = w
  BY DEF TicketRow

Settled(r, st, g) == [r EXCEPT !.status = st, !.lease = "none", !.evidence = g]

LEMMA RowSettled ==
    ASSUME NEW r \in TicketRow, NEW st \in {"completed", "failed"}, NEW g \in Nat
    PROVE  LET q == Settled(r, st, g)
           IN q \in TicketRow /\ q.status = st /\ q.attempts = r.attempts /\ q.workflow = r.workflow
  <1>1. Settled(r, st, g) \in TicketRow
    BY DEF Settled, TicketRow, Status, Terminal
  <1>2. Settled(r, st, g).status = st
    BY DEF Settled, TicketRow
  <1>3. Settled(r, st, g).attempts = r.attempts
    BY DEF Settled, TicketRow
  <1>4. Settled(r, st, g).workflow = r.workflow
    BY DEF Settled, TicketRow
  <1> QED
    BY <1>1, <1>2, <1>3, <1>4

Released(r, st) == [r EXCEPT !.status = st, !.lease = "none"]

LEMMA RowReleased ==
    ASSUME NEW r \in TicketRow, NEW st \in {"waiting", "cancelled"}
    PROVE  LET q == Released(r, st)
           IN q \in TicketRow /\ q.status = st /\ q.attempts = r.attempts /\ q.workflow = r.workflow
  <1>1. Released(r, st) \in TicketRow
    BY DEF Released, TicketRow, Status, Claimable, Terminal
  <1>2. Released(r, st).status = st
    BY DEF Released, TicketRow
  <1>3. Released(r, st).attempts = r.attempts
    BY DEF Released, TicketRow
  <1>4. Released(r, st).workflow = r.workflow
    BY DEF Released, TicketRow
  <1> QED
    BY <1>1, <1>2, <1>3, <1>4

LEMMA RowLapsed ==
    ASSUME NEW r \in TicketRow
    PROVE  LET q == [r EXCEPT !.lease = "lapsed"]
           IN q \in TicketRow /\ q.status = r.status /\ q.attempts = r.attempts /\ q.workflow = r.workflow
  BY DEF TicketRow

-----------------------------------------------------------------------------
(* Transactions. *)

\* Every row but that of t is left alone.
Others(t) == \A u \in Tickets : u # t => ticket'[u] = ticket[u]

\* Status, attempts and workflow of a row.
Became(t, st, n, w) == ticket'[t].status = st /\ ticket'[t].attempts = n /\ ticket'[t].workflow = w

LEMMA RowUpdate ==
    ASSUME ticket \in [Tickets -> TicketRow], NEW t \in Tickets, NEW q \in TicketRow,
           ticket' = [ticket EXCEPT ![t] = q]
    PROVE  ticket' \in [Tickets -> TicketRow] /\ ticket'[t] = q /\ Others(t)
  BY DEF Others

LEMMA RowCount ==
    ASSUME NEW P \in SUBSET Tickets
    PROVE  Cardinality(P) \in Nat /\ IsFiniteSet(P)
  BY TicketStoreAssumption, FS_Subset, FS_CardinalityType

\* A new Ticket (accept()).
LEMMA AcceptRows ==
    ASSUME TicketStoreTypeOK, NEW t \in Tickets, Accept(t)
    PROVE  /\ TicketStoreTypeOK' /\ Others(t) /\ UNCHANGED outbox
           /\ ticket[t].status = "absent" /\ Became(t, "accepted", ticket[t].attempts, ticket[t].workflow)
  <1> DEFINE n == 1 + Cardinality({u \in Tickets : ticket[u].status # "absent"})
             q == [ticket[t] EXCEPT !.status = "accepted", !.created = n]
  <1>1. n \in Nat
    BY RowCount
  <1>2. ticket' = [ticket EXCEPT ![t] = q] /\ UNCHANGED outbox /\ ticket[t].status = "absent"
    BY DEF Accept
  <1>3. ticket \in [Tickets -> TicketRow] /\ outbox \in [Tickets -> OutboxState]
    BY DEF TicketStoreTypeOK
  <1> HIDE DEF n
  <1>4. q \in TicketRow /\ q.status = "accepted" /\ q.attempts = ticket[t].attempts /\ q.workflow = ticket[t].workflow
    BY <1>1, <1>3, RowAccepted
  <1> HIDE DEF q
  <1> QED
    BY <1>2, <1>3, <1>4, RowUpdate DEF Became, TicketStoreTypeOK

\* accept() and route() without an await in between.
LEMMA SubmitRows ==
    ASSUME TicketStoreTypeOK, NEW t \in Tickets, Submit(t)
    PROVE  /\ TicketStoreTypeOK' /\ Others(t) /\ UNCHANGED outbox
           /\ ticket[t].status = "absent" /\ Became(t, "accepted", ticket[t].attempts, ticket[t].workflow)
  <1> DEFINE n == 1 + Cardinality({u \in Tickets : ticket[u].status # "absent"})
  <1>1. n \in Nat
    BY RowCount
  <1>2. PICK lane \in {"direct", "durable"} :
          ticket' = [ticket EXCEPT ![t] = Routed(ticket[t], lane, n)]
    BY DEF Submit, Routed
  <1>3. ticket \in [Tickets -> TicketRow] /\ outbox \in [Tickets -> OutboxState] /\ UNCHANGED outbox
        /\ ticket[t].status = "absent"
    BY DEF TicketStoreTypeOK, Submit
  <1> DEFINE q == Routed(ticket[t], lane, n)
  <1> HIDE DEF n
  <1>4. q \in TicketRow /\ q.status = "accepted" /\ q.attempts = ticket[t].attempts /\ q.workflow = ticket[t].workflow
    BY <1>1, <1>3, RoutedRow, RoutedFields
  <1> HIDE DEF q
  <1>5. ticket' = [ticket EXCEPT ![t] = q]
    BY <1>2 DEF q
  <1> QED
    BY <1>3, <1>4, <1>5, RowUpdate DEF Became, TicketStoreTypeOK

\* A fresh generation (claim()).
LEMMA ClaimRows ==
    ASSUME TicketStoreTypeOK, NEW t \in Tickets, Claim(t)
    PROVE  /\ TicketStoreTypeOK' /\ Others(t) /\ UNCHANGED outbox
           /\ ticket[t].status \in Claimable /\ Became(t, "running", ticket[t].attempts + 1, ticket[t].workflow)
  <1> DEFINE q == Claimed(ticket[t])
  <1>1. ticket' = [ticket EXCEPT ![t] = q] /\ UNCHANGED outbox /\ ticket[t].status \in Claimable
    BY DEF Claim, Claimed
  <1>2. ticket \in [Tickets -> TicketRow] /\ outbox \in [Tickets -> OutboxState]
    BY DEF TicketStoreTypeOK
  <1>3. q \in TicketRow /\ q.status = "running" /\ q.attempts = ticket[t].attempts + 1 /\ q.workflow = ticket[t].workflow
    BY <1>2, RowClaimed
  <1> HIDE DEF q
  <1> QED
    BY <1>1, <1>2, <1>3, RowUpdate DEF Became, TicketStoreTypeOK

\* The workflow of a running Ticket (linkWorkflow()).
LEMMA LinkRows ==
    ASSUME TicketStoreTypeOK, NEW t \in Tickets, NEW w \in Tickets, LinkWorkflow(CurrentLease(t), w)
    PROVE  /\ TicketStoreTypeOK' /\ Others(t) /\ UNCHANGED outbox
           /\ ticket[t].status = "running" /\ Became(t, "running", ticket[t].attempts, w)
  <1> DEFINE q == [ticket[t] EXCEPT !.workflow = w]
  <1>1. ticket' = [ticket EXCEPT ![t] = q] /\ UNCHANGED outbox /\ ticket[t].status = "running"
    BY DEF LinkWorkflow, CurrentLease, HoldsLease
  <1>2. ticket \in [Tickets -> TicketRow] /\ outbox \in [Tickets -> OutboxState]
    BY DEF TicketStoreTypeOK
  <1>3. q \in TicketRow /\ q.status = ticket[t].status /\ q.attempts = ticket[t].attempts /\ q.workflow = w
    BY <1>2, RowLinked
  <1> HIDE DEF q
  <1> QED
    BY <1>1, <1>2, <1>3, RowUpdate DEF Became, TicketStoreTypeOK

\* One outbox row for a settlement (enqueueTerminal()).
LEMMA EnqueueRows ==
    ASSUME TicketStoreTypeOK, NEW t \in Tickets, outbox' = EnqueueTerminal(t)
    PROVE  /\ outbox' \in [Tickets -> OutboxState] /\ \A u \in Tickets : u # t => outbox'[u] = outbox[u]
           /\ outbox'[t] = IF outbox[t] = "none" THEN "pending" ELSE outbox[t]
  BY DEF TicketStoreTypeOK, EnqueueTerminal, OutboxState

\* The fenced settlement (complete()).
LEMMA CompleteRows ==
    ASSUME TicketStoreTypeOK, NEW t \in Tickets, Complete(CurrentLease(t))
    PROVE  /\ TicketStoreTypeOK' /\ Others(t) /\ \A u \in Tickets : u # t => outbox'[u] = outbox[u]
           /\ outbox'[t] = IF outbox[t] = "none" THEN "pending" ELSE outbox[t]
           /\ ticket[t].status = "running" /\ Became(t, "completed", ticket[t].attempts, ticket[t].workflow)
  <1> DEFINE q == Settled(ticket[t], "completed", ticket[t].attempts)
  <1>1. ticket' = [ticket EXCEPT ![t] = q] /\ outbox' = EnqueueTerminal(t) /\ ticket[t].status = "running"
    BY DEF Complete, CurrentLease, HoldsLease, Settled
  <1>2. ticket \in [Tickets -> TicketRow] /\ ticket[t].attempts \in Nat
    BY RowFields DEF TicketStoreTypeOK
  <1>3. q \in TicketRow /\ q.status = "completed" /\ q.attempts = ticket[t].attempts /\ q.workflow = ticket[t].workflow
    BY <1>2, RowSettled
  <1> HIDE DEF q
  <1> QED
    BY <1>1, <1>2, <1>3, RowUpdate, EnqueueRows DEF Became, TicketStoreTypeOK

\* The end of an attempt (failAttempt()).
LEMMA FailRows ==
    ASSUME TicketStoreTypeOK, NEW t \in Tickets, NEW class \in FailureClass, FailAttempt(CurrentLease(t), class)
    PROVE  /\ TicketStoreTypeOK' /\ Others(t) /\ \A u \in Tickets : u # t => outbox'[u] = outbox[u]
           /\ ticket[t].status = "running"
           /\ IF Retryable(t, class)
              THEN Became(t, "waiting", ticket[t].attempts, ticket[t].workflow) /\ UNCHANGED outbox
              ELSE /\ Became(t, "failed", ticket[t].attempts, ticket[t].workflow)
                   /\ outbox'[t] = IF outbox[t] = "none" THEN "pending" ELSE outbox[t]
  <1>1. ticket \in [Tickets -> TicketRow] /\ outbox \in [Tickets -> OutboxState] /\ ticket[t].attempts \in Nat
    BY RowFields DEF TicketStoreTypeOK
  <1>2. ticket[t].status = "running"
    BY DEF FailAttempt, CurrentLease, HoldsLease
  <1>3. CASE Retryable(t, class)
    <2> DEFINE q == Released(ticket[t], "waiting")
    <2>1. ticket' = [ticket EXCEPT ![t] = q] /\ UNCHANGED outbox
      BY <1>3 DEF FailAttempt, CurrentLease, Released
    <2>2. q \in TicketRow /\ q.status = "waiting" /\ q.attempts = ticket[t].attempts /\ q.workflow = ticket[t].workflow
      BY <1>1, RowReleased
    <2> HIDE DEF q
    <2> QED
      BY <1>1, <1>2, <1>3, <2>1, <2>2, RowUpdate DEF Became, TicketStoreTypeOK
  <1>4. CASE ~Retryable(t, class)
    <2> DEFINE q == Settled(ticket[t], "failed", ticket[t].attempts)
    <2>1. ticket' = [ticket EXCEPT ![t] = q] /\ outbox' = EnqueueTerminal(t)
      BY <1>4 DEF FailAttempt, CurrentLease, Settled
    <2>2. q \in TicketRow /\ q.status = "failed" /\ q.attempts = ticket[t].attempts /\ q.workflow = ticket[t].workflow
      BY <1>1, RowSettled
    <2> HIDE DEF q
    <2> QED
      BY <1>1, <1>2, <1>4, <2>1, <2>2, RowUpdate, EnqueueRows DEF Became, TicketStoreTypeOK
  <1> QED
    BY <1>3, <1>4

\* Expired claims go back to the queue (recoverExpired()).
LEMMA RecoverRows ==
    ASSUME TicketStoreTypeOK, RecoverExpired
    PROVE  /\ TicketStoreTypeOK' /\ UNCHANGED outbox
           /\ \A t \in Tickets :
                IF t \in Expired THEN /\ ticket[t].status = "running"
                                      /\ Became(t, "waiting", ticket[t].attempts, ticket[t].workflow)
                ELSE ticket'[t] = ticket[t]
  <1>1. ticket \in [Tickets -> TicketRow] /\ outbox \in [Tickets -> OutboxState]
    BY DEF TicketStoreTypeOK
  <1>2. ASSUME NEW t \in Tickets
        PROVE  /\ ticket'[t] \in TicketRow
               /\ IF t \in Expired THEN /\ ticket[t].status = "running"
                                        /\ Became(t, "waiting", ticket[t].attempts, ticket[t].workflow)
                  ELSE ticket'[t] = ticket[t]
    <2>1. CASE t \in Expired
      <3>1. ticket'[t] = Released(ticket[t], "waiting")
        BY <2>1 DEF RecoverExpired, Released
      <3>2. ticket[t].status = "running" /\ ticket[t] \in TicketRow
        BY <1>1, <2>1 DEF Expired
      <3> QED
        BY <2>1, <3>1, <3>2, RowReleased DEF Became
    <2>2. CASE t \notin Expired
      BY <1>1, <2>2 DEF RecoverExpired
    <2> QED
      BY <2>1, <2>2
  <1>3. DOMAIN ticket' = Tickets /\ UNCHANGED outbox
    BY DEF RecoverExpired
  <1>4. ticket' \in [Tickets -> TicketRow]
    BY <1>2, <1>3 DEF RecoverExpired
  <1> QED
    BY <1>1, <1>2, <1>3, <1>4 DEF TicketStoreTypeOK

\* Stop, Reset and Delete of the owner (revokeSession()).
LEMMA RevokeRows ==
    ASSUME TicketStoreTypeOK, NEW s \in Sessions, RevokeSession(s)
    PROVE  /\ TicketStoreTypeOK'
           /\ \A t \in Tickets :
                IF t \in Owned(s) /\ ticket[t].status \in Claimable \cup {"running"}
                THEN Became(t, "cancelled", ticket[t].attempts, ticket[t].workflow)
                ELSE ticket'[t] = ticket[t]
           /\ \A t \in Tickets :
                outbox'[t] = IF t \in Owned(s) /\ outbox[t] \in {"pending", "scheduled"} THEN "none" ELSE outbox[t]
  <1>1. ticket \in [Tickets -> TicketRow] /\ outbox \in [Tickets -> OutboxState]
    BY DEF TicketStoreTypeOK
  <1>2. ASSUME NEW t \in Tickets
        PROVE  /\ ticket'[t] \in TicketRow
               /\ IF t \in Owned(s) /\ ticket[t].status \in Claimable \cup {"running"}
                  THEN Became(t, "cancelled", ticket[t].attempts, ticket[t].workflow)
                  ELSE ticket'[t] = ticket[t]
    <2>1. CASE t \in Owned(s) /\ ticket[t].status \in Claimable \cup {"running"}
      <3>1. ticket'[t] = Released(ticket[t], "cancelled")
        BY <2>1 DEF RevokeSession, Released
      <3>2. ticket[t] \in TicketRow
        BY <1>1
      <3> QED
        BY <2>1, <3>1, <3>2, RowReleased DEF Became
    <2>2. CASE ~(t \in Owned(s) /\ ticket[t].status \in Claimable \cup {"running"})
      BY <1>1, <2>2 DEF RevokeSession
    <2> QED
      BY <2>1, <2>2
  <1>3. ticket' \in [Tickets -> TicketRow]
    BY <1>2 DEF RevokeSession
  <1>4. outbox' \in [Tickets -> OutboxState]
    BY <1>1 DEF RevokeSession, OutboxState
  <1>5. \A t \in Tickets :
          outbox'[t] = IF t \in Owned(s) /\ outbox[t] \in {"pending", "scheduled"} THEN "none" ELSE outbox[t]
    BY DEF RevokeSession
  <1> QED
    BY <1>2, <1>3, <1>4, <1>5 DEF TicketStoreTypeOK

\* A lease passes.
LEMMA LapseRows ==
    ASSUME TicketStoreTypeOK, NEW t \in Tickets, Lapse(t)
    PROVE  /\ TicketStoreTypeOK' /\ Others(t) /\ UNCHANGED outbox
           /\ Became(t, ticket[t].status, ticket[t].attempts, ticket[t].workflow)
  <1> DEFINE q == [ticket[t] EXCEPT !.lease = "lapsed"]
  <1>1. ticket' = [ticket EXCEPT ![t] = q] /\ UNCHANGED outbox
    BY DEF Lapse
  <1>2. ticket \in [Tickets -> TicketRow] /\ outbox \in [Tickets -> OutboxState]
    BY DEF TicketStoreTypeOK
  <1>3. q \in TicketRow /\ q.status = ticket[t].status /\ q.attempts = ticket[t].attempts /\ q.workflow = ticket[t].workflow
    BY <1>2, RowLapsed
  <1> HIDE DEF q
  <1> QED
    BY <1>1, <1>2, <1>3, RowUpdate DEF Became, TicketStoreTypeOK
-----------------------------------------------------------------------------
(* Types. *)

\* The first candidate of a batch is one of the batch.
LEMMA OldestIsThere ==
    ASSUME TypeOK, batch # {}
    PROVE  Oldest(batch) \in batch
  <1> DEFINE ages == {ticket[t].created : t \in batch}
  <1>1. ages \subseteq Nat /\ ages # {}
    BY RowFields DEF TypeOK, TicketStoreTypeOK
  <1> DEFINE less == {p \in Nat \X Nat : p[1] < p[2]}
  <1>a. IsWellFoundedOn(less, Nat)
    BY NatLessThanWellFounded DEF OpToRel
  <1> HIDE DEF less, ages
  <1>2. PICK n \in ages : \A m \in ages : ~(<<m, n>> \in less)
    BY <1>1, <1>a, WFMin
  <1>3. \A m \in ages : n <= m
    <2> SUFFICES ASSUME NEW m \in ages PROVE n <= m
      OBVIOUS
    <2>1. m \in Nat /\ n \in Nat /\ <<m, n>> \notin less
      BY <1>1, <1>2
    <2>2. ~(m < n)
      BY <2>1 DEF less
    <2> QED
      BY <2>1, <2>2
  <1> USE DEF ages
  <1>4. \E t \in batch : \A u \in batch : ticket[t].created <= ticket[u].created
    BY <1>2, <1>3
  <1> QED
    BY <1>4 DEF Oldest

\* The tables are typed when they are left alone, and the outbox after each
\* of the marks.
LEMMA StoreSame ==
    ASSUME TicketStoreTypeOK, UNCHANGED storeVars
    PROVE  TicketStoreTypeOK'
  BY DEF TicketStoreTypeOK, storeVars

LEMMA MarksTyped ==
    ASSUME TicketStoreTypeOK, NEW t \in Tickets,
           MarkOutboxScheduled(t) \/ MarkOutboxFailed(t) \/ SuppressFailedOutbox(t)
    PROVE  TicketStoreTypeOK'
  BY DEF TicketStoreTypeOK, OutboxState, MarkOutboxScheduled, MarkOutboxFailed, SuppressFailedOutbox

\* One row of the reconciliation: what each outcome does.
LEMMA ReconciledTyped ==
    ASSUME TicketStoreTypeOK, NEW t \in Tickets, Reconciled(t)
    PROVE  TicketStoreTypeOK'
  <1>1. CASE Complete(CurrentLease(t))
    BY <1>1, CompleteRows
  <1>2. ASSUME NEW class \in FailureClass, FailAttempt(CurrentLease(t), class)
        PROVE  TicketStoreTypeOK'
    BY <1>2, FailRows
  <1>3. CASE UNCHANGED storeVars
    BY <1>3, StoreSame
  <1> QED
    BY <1>1, <1>2, <1>3 DEF Reconciled, FailureClass, Heartbeat

\* What the loop keeps besides the tables.
LoopTypeOK ==
    /\ pc \in Steps
    /\ batch \subseteq Tickets
    /\ subject \in Tickets \cup {NoWorkflow}
    /\ target \in Tickets \cup {NoWorkflow}
    /\ revoking \subseteq Tickets
    /\ flow \in [Tickets -> FlowState]
    /\ turns \subseteq Tickets
    /\ crashes \in 0..MaxCrashes

LEMMA TypeParts == TypeOK <=> TicketStoreTypeOK /\ LoopTypeOK
  BY DEF TypeOK, LoopTypeOK

LEMMA StoreTyped ==
    ASSUME TypeOK, SubjectFits, Next
    PROVE  TicketStoreTypeOK'
  <1> USE TypeParts
  <1>0. CASE UNCHANGED storeVars
    BY <1>0, StoreSame
  <1>1. CASE RecoverStep
    BY <1>1, RecoverRows DEF RecoverStep
  <1>2. CASE ReconcileRow
    BY <1>2, ReconciledTyped DEF ReconcileRow, LoopTypeOK
  <1>3. CASE AdmitAndClaim
    BY <1>3, ClaimRows, OldestIsThere DEF AdmitAndClaim, LoopTypeOK
  <1>4. CASE LinkStep
    BY <1>0, <1>4, LinkRows DEF LinkStep, SubjectFits
  <1>5. CASE FailLaunch
    BY <1>0, <1>5, FailRows DEF FailLaunch, SubjectFits, FailureClass
  <1>6. CASE Silence
    BY <1>6, MarksTyped DEF Silence, SubjectFits, Silencing
  <1>7. CASE ScheduleDelivery
    BY <1>7, MarksTyped DEF ScheduleDelivery, LoopTypeOK
  <1>8. CASE SchedulingFails
    BY <1>8, MarksTyped DEF SchedulingFails, SubjectFits
  <1>9. ASSUME NEW t \in Tickets, Submit(t) \/ SubmitInterrupted(t)
        PROVE  TicketStoreTypeOK'
    BY <1>9, SubmitRows, AcceptRows DEF SubmitInterrupted
  <1>10. ASSUME NEW s \in Sessions, StopSession(s)
         PROVE  TicketStoreTypeOK'
    BY <1>10, RevokeRows DEF StopSession
  <1>11. ASSUME NEW t \in Tickets, LeaseLapses(t)
         PROVE  TicketStoreTypeOK'
    BY <1>11, LapseRows DEF LeaseLapses
  <1>12. CASE Restart
    <2>1. outbox \in [Tickets -> OutboxState] /\ ticket \in [Tickets -> TicketRow] /\ UNCHANGED ticket
      BY <1>12 DEF TicketStoreTypeOK, Restart
    <2>2. outbox' \in [Tickets -> OutboxState]
      BY <1>12, <2>1 DEF Restart, OutboxState
    <2> QED
      BY <2>1, <2>2 DEF TicketStoreTypeOK
  <1>13. CASE StartTick \/ ReadReady \/ EndDispatch \/ ReuseWorkflow \/ StartOwnWorkflow \/ LaunchThrows
              \/ TurnScheduled \/ EndTick \/ Crash
    BY <1>0, <1>13 DEF StartTick, ReadReady, EndDispatch, ReuseWorkflow, StartOwnWorkflow, LaunchThrows,
                       TurnScheduled, EndTick, Crash, storeVars
  <1>14. ASSUME NEW t \in Tickets, DeliveryTurn(t) \/ CancelBoundWorkflow(t) \/ FlowEnds(t)
         PROVE  TicketStoreTypeOK'
    BY <1>0, <1>14 DEF DeliveryTurn, CancelBoundWorkflow, FlowEnds, storeVars
  <1> QED
    BY <1>1, <1>2, <1>3, <1>4, <1>5, <1>6, <1>7, <1>8, <1>9, <1>10, <1>11, <1>12, <1>13, <1>14
       DEF Next, Tick, Hook, Environment

LEMMA LoopTyped ==
    ASSUME TypeOK, SubjectFits, Next
    PROVE  LoopTypeOK'
  <1> USE TypeParts
  <1>1. CASE StartTick \/ RecoverStep \/ ReadReady \/ LaunchThrows \/ EndTick
    <2>1. LinkedRunning \ Expired \subseteq Tickets /\ ReadyBatch(DispatchLimit) \subseteq Tickets
      BY DEF LinkedRunning, ReadyBatch, Ready
    <2> QED
      BY <1>1, <2>1 DEF LoopTypeOK, Steps, StartTick, RecoverStep, ReadReady, LaunchThrows, EndTick
  <1>2. CASE ReconcileRow \/ ScheduleDelivery
    BY <1>2 DEF LoopTypeOK, Steps, ReconcileRow, ScheduleDelivery
  <1>3. CASE AdmitAndClaim
    BY <1>3, OldestIsThere DEF LoopTypeOK, Steps, AdmitAndClaim
  <1>4. CASE EndDispatch
    BY <1>4 DEF LoopTypeOK, Steps, EndDispatch
  <1>5. CASE ReuseWorkflow
    BY <1>5 DEF LoopTypeOK, Steps, ReuseWorkflow, ActiveForRequest
  <1>6. CASE StartOwnWorkflow
    BY <1>6 DEF LoopTypeOK, Steps, StartOwnWorkflow, SubjectFits, FlowState
  <1>7. CASE LinkStep \/ FailLaunch \/ Silence
    BY <1>7 DEF LoopTypeOK, Steps, LinkStep, FailLaunch, Silence
  <1>8. CASE TurnScheduled \/ SchedulingFails
    BY <1>8 DEF LoopTypeOK, Steps, TurnScheduled, SchedulingFails, SubjectFits
  <1>9. ASSUME NEW t \in Tickets, Submit(t) \/ LeaseLapses(t) \/ DeliveryTurn(t)
        PROVE  LoopTypeOK'
    BY <1>9 DEF LoopTypeOK, Submit, LeaseLapses, DeliveryTurn
  <1>10. ASSUME NEW t \in Tickets, SubmitInterrupted(t)
         PROVE  LoopTypeOK'
    <2>1. crashes' \in 0..MaxCrashes
      BY <1>10, TicketRuntimeAssumption DEF SubmitInterrupted, LoopTypeOK
    <2> QED
      BY <1>10, <2>1 DEF LoopTypeOK, Steps, SubmitInterrupted
  <1>11. CASE Crash
    <2>1. crashes' \in 0..MaxCrashes
      BY <1>11, TicketRuntimeAssumption DEF Crash, LoopTypeOK
    <2> QED
      BY <1>11, <2>1 DEF LoopTypeOK, Steps, Crash
  <1>12. ASSUME NEW s \in Sessions, StopSession(s)
         PROVE  LoopTypeOK'
    BY <1>12 DEF LoopTypeOK, StopSession
  <1>13. ASSUME NEW w \in Tickets, CancelBoundWorkflow(w) \/ FlowEnds(w)
         PROVE  LoopTypeOK'
    BY <1>13 DEF LoopTypeOK, CancelBoundWorkflow, FlowEnds, FlowState
  <1>14. CASE Restart
    BY <1>14 DEF LoopTypeOK, Steps, Restart
  <1> QED
    BY <1>1, <1>2, <1>3, <1>4, <1>5, <1>6, <1>7, <1>8, <1>9, <1>10, <1>11, <1>12, <1>13, <1>14
       DEF Next, Tick, Hook, Environment

LEMMA Typed ==
    ASSUME TypeOK, SubjectFits, [Next]_vars
    PROVE  TypeOK'
  <1>1. CASE Next
    BY <1>1, StoreTyped, LoopTyped DEF TypeOK, LoopTypeOK
  <1>2. CASE UNCHANGED vars
    BY <1>2 DEF TypeOK, TicketStoreTypeOK, vars
  <1> QED
    BY <1>1, <1>2

-----------------------------------------------------------------------------
(* What a step does to a row. *)

Same(t) == Became(t, ticket[t].status, ticket[t].attempts, ticket[t].workflow)

Begun(t) ==
    ticket[t].status = "absent" /\ Became(t, "accepted", ticket[t].attempts, ticket[t].workflow)

Taken(t) ==
    /\ pc = "dispatch" /\ HasCapacity /\ t \in batch
    /\ pc' = "launch" /\ subject' = t /\ batch' = batch \ {t}
    /\ ticket[t].status \in Claimable
    /\ Became(t, "running", ticket[t].attempts + 1, ticket[t].workflow)

Linked(t) ==
    /\ pc = "link" /\ pc' = "dispatch" /\ subject = t
    /\ ticket[t].status = "running"
    /\ Became(t, "running", ticket[t].attempts, target)

Freed(t) ==
    ticket[t].status = "running" /\ Became(t, "waiting", ticket[t].attempts, ticket[t].workflow)

Done(t) ==
    /\ ticket[t].status = "running"
    /\ ticket[t].workflow # NoWorkflow /\ flow[ticket[t].workflow] = "completed"
    /\ Became(t, "completed", ticket[t].attempts, ticket[t].workflow)

Lost(t) ==
    /\ pc \in {"reconcile", "unlaunch"} /\ pc' \in Silencing /\ subject' = t
    /\ ticket[t].status = "running"
    /\ \/ ticket[t].attempts = MaxAttempts
       \/ ticket[t].workflow # NoWorkflow /\ flow[ticket[t].workflow] \in {"failed", "cancelled"}
    /\ Became(t, "failed", ticket[t].attempts, ticket[t].workflow)

Dropped(t) ==
    /\ ticket[t].status \in Claimable \cup {"running"}
    /\ Became(t, "cancelled", ticket[t].attempts, ticket[t].workflow)

RowMove(t) ==
    Same(t) \/ Begun(t) \/ Taken(t) \/ Linked(t) \/ Freed(t) \/ Done(t) \/ Lost(t) \/ Dropped(t)

LEMMA OthersStay ==
    ASSUME NEW t \in Tickets, Others(t), NEW u \in Tickets, u # t
    PROVE  RowMove(u)
  BY DEF Others, RowMove, Same, Became

\* A failed attempt frees the Ticket, or fails it for a reason.
LEMMA FailMoves ==
    ASSUME TicketStoreTypeOK, BudgetFits, NEW t \in Tickets, NEW class \in FailureClass,
           FailAttempt(CurrentLease(t), class),
           class = "permanent" => ticket[t].workflow # NoWorkflow /\ flow[ticket[t].workflow] \in {"failed", "cancelled"},
           pc \in {"reconcile", "unlaunch"}, subject' = t, ticket'[t].status = "failed" => pc' \in Silencing
    PROVE  RowMove(t)
  <1>1. CASE Retryable(t, class)
    BY <1>1, FailRows DEF RowMove, Freed
  <1>2. CASE ~Retryable(t, class)
    <2>1. class # "permanent" => ticket[t].attempts = MaxAttempts
      <3>1. ticket[t].attempts \in Nat /\ MaxAttempts \in Nat /\ ticket[t].attempts <= MaxAttempts
        BY RowFields, TicketStoreAssumption DEF TicketStoreTypeOK, BudgetFits
      <3>2. class # "permanent" => ~(ticket[t].attempts < MaxAttempts)
        BY <1>2 DEF Retryable
      <3> QED
        BY <3>1, <3>2
    <2>2. ticket[t].status = "running" /\ Became(t, "failed", ticket[t].attempts, ticket[t].workflow)
      BY <1>2, FailRows
    <2>3. Lost(t)
      BY <2>1, <2>2 DEF Lost, Became
    <2> QED
      BY <2>3 DEF RowMove
  <1> QED
    BY <1>1, <1>2

LEMMA ReconcileMoves ==
    ASSUME TypeOK, BudgetFits, BatchFits, ReconcileRow
    PROVE  \A u \in Tickets : RowMove(u)
  <1>1. PICK t \in batch : /\ Reconciled(t) /\ subject' = t
                           /\ pc' = IF ticket'[t].status = "failed" THEN "silence-reconcile" ELSE "reconcile"
    BY DEF ReconcileRow
  <1>2. t \in Tickets /\ TicketStoreTypeOK /\ pc = "reconcile" /\ ticket[t].workflow # NoWorkflow
        /\ "permanent" \in FailureClass /\ "capability" \in FailureClass
        /\ (ticket'[t].status = "failed" => pc' \in Silencing)
    BY <1>1 DEF TypeOK, ReconcileRow, BatchFits, Reconciling, FailureClass, Silencing
  <1>3. CASE flow[ticket[t].workflow] = "completed" /\ Complete(CurrentLease(t))
    <2>1. Others(t) /\ Done(t)
      BY <1>2, <1>3, CompleteRows DEF Done
    <2> QED
      BY <1>2, <2>1, OthersStay DEF RowMove
  <1>4. CASE flow[ticket[t].workflow] \in {"failed", "cancelled"} /\ FailAttempt(CurrentLease(t), "permanent")
    <2>1. Others(t) /\ RowMove(t)
      BY <1>1, <1>2, <1>4, FailRows, FailMoves
    <2> QED
      BY <1>2, <2>1, OthersStay
  <1>5. CASE FailAttempt(CurrentLease(t), "capability")
    <2>1. Others(t) /\ RowMove(t)
      BY <1>1, <1>2, <1>5, FailRows, FailMoves
    <2> QED
      BY <1>2, <2>1, OthersStay
  <1>6. CASE UNCHANGED storeVars
    BY <1>6 DEF storeVars, RowMove, Same, Became
  <1> QED
    BY <1>1, <1>3, <1>4, <1>5, <1>6 DEF Reconciled, Heartbeat

LEMMA RowsMove ==
    ASSUME TypeOK, SubjectFits, BatchFits, BudgetFits, [Next]_vars
    PROVE  \A u \in Tickets : RowMove(u)
  <1>a. TicketStoreTypeOK /\ batch \subseteq Tickets
    BY DEF TypeOK
  <1>0. CASE UNCHANGED ticket
    BY <1>0 DEF RowMove, Same, Became
  <1>1. CASE RecoverStep
    BY <1>a, <1>1, RecoverRows DEF RecoverStep, RowMove, Freed, Same, Became
  <1>2. CASE ReconcileRow
    BY <1>2, ReconcileMoves
  <1>3. CASE AdmitAndClaim
    <2>1. Others(Oldest(batch)) /\ Taken(Oldest(batch)) /\ Oldest(batch) \in Tickets
      BY <1>a, <1>3, ClaimRows, OldestIsThere DEF AdmitAndClaim, Taken
    <2> QED
      BY <2>1, OthersStay DEF RowMove
  <1>4. CASE LinkStep
    <2>1. subject \in Tickets /\ target \in Tickets
      BY <1>4 DEF SubjectFits, LinkStep
    <2>2. CASE LinkWorkflow(CurrentLease(subject), target) /\ pc' = "dispatch"
      <3>1. Others(subject) /\ Linked(subject)
        BY <1>a, <1>4, <2>1, <2>2, LinkRows DEF Linked, LinkStep
      <3> QED
        BY <2>1, <3>1, OthersStay DEF RowMove
    <2> QED
      BY <1>0, <1>4, <2>2 DEF LinkStep, storeVars
  <1>5. CASE FailLaunch
    <2>1. subject \in Tickets /\ pc = "unlaunch" /\ subject' = subject /\ "transient" \in FailureClass
      BY <1>5 DEF SubjectFits, FailLaunch, FailureClass
    <2>2. CASE FailAttempt(CurrentLease(subject), "transient")
               /\ pc' = IF ticket'[subject].status = "failed" THEN "silence-dispatch" ELSE "dispatch"
      <3>1. ticket'[subject].status = "failed" => pc' \in Silencing
        BY <2>2 DEF Silencing
      <3>2. Others(subject) /\ RowMove(subject)
        BY <1>a, <2>1, <2>2, <3>1, FailRows, FailMoves
      <3> QED
        BY <2>1, <3>2, OthersStay
    <2> QED
      BY <1>0, <1>5, <2>2 DEF FailLaunch, storeVars
  <1>6. CASE Silence \/ ScheduleDelivery \/ SchedulingFails
    BY <1>0, <1>6 DEF Silence, ScheduleDelivery, SchedulingFails, SuppressFailedOutbox, MarkOutboxScheduled,
                      MarkOutboxFailed
  <1>7. ASSUME NEW t \in Tickets, Submit(t) \/ SubmitInterrupted(t)
        PROVE  \A u \in Tickets : RowMove(u)
    <2>1. Others(t) /\ Begun(t)
      BY <1>a, <1>7, SubmitRows, AcceptRows DEF SubmitInterrupted, Begun
    <2> QED
      BY <2>1, OthersStay DEF RowMove
  <1>8. ASSUME NEW s \in Sessions, StopSession(s)
        PROVE  \A u \in Tickets : RowMove(u)
    BY <1>a, <1>8, RevokeRows DEF StopSession, RowMove, Dropped, Same, Became
  <1>9. ASSUME NEW t \in Tickets, LeaseLapses(t)
        PROVE  \A u \in Tickets : RowMove(u)
    <2>1. Others(t) /\ Same(t)
      BY <1>a, <1>9, LapseRows DEF LeaseLapses, Same
    <2> QED
      BY <2>1, OthersStay DEF RowMove
  <1>10. CASE StartTick \/ ReadReady \/ EndDispatch \/ ReuseWorkflow \/ StartOwnWorkflow \/ LaunchThrows
              \/ TurnScheduled \/ EndTick \/ Crash \/ Restart
    BY <1>0, <1>10 DEF StartTick, ReadReady, EndDispatch, ReuseWorkflow, StartOwnWorkflow, LaunchThrows,
                       TurnScheduled, EndTick, Crash, Restart
  <1>11. ASSUME NEW t \in Tickets, DeliveryTurn(t) \/ CancelBoundWorkflow(t) \/ FlowEnds(t)
         PROVE  UNCHANGED ticket
    BY <1>11 DEF DeliveryTurn, CancelBoundWorkflow, FlowEnds
  <1>12. CASE UNCHANGED vars
    BY <1>0, <1>12 DEF vars
  <1> QED
    BY <1>0, <1>1, <1>2, <1>3, <1>4, <1>5, <1>6, <1>7, <1>8, <1>9, <1>10, <1>11, <1>12
       DEF Next, Tick, Hook, Environment

-----------------------------------------------------------------------------
(* The parts of the invariant. *)

\* A workflow that has ended stays as it ended.
LEMMA FlowsEndOnce ==
    ASSUME TypeOK, [Next]_vars, NEW w \in Tickets, flow[w] \notin {"absent", "active"}
    PROVE  flow'[w] = flow[w]
  <1>1. CASE UNCHANGED flow
    BY <1>1
  <1>2. CASE StartOwnWorkflow
    BY <1>2 DEF StartOwnWorkflow, TypeOK
  <1>3. ASSUME NEW v \in Tickets, CancelBoundWorkflow(v) \/ FlowEnds(v)
        PROVE  flow'[w] = flow[w]
    BY <1>3 DEF CancelBoundWorkflow, FlowEnds, TypeOK
  <1>4. CASE \/ StartTick \/ RecoverStep \/ ReconcileRow \/ ReadReady \/ AdmitAndClaim
             \/ EndDispatch \/ ReuseWorkflow \/ LaunchThrows \/ LinkStep
             \/ FailLaunch \/ Silence \/ ScheduleDelivery \/ TurnScheduled \/ SchedulingFails
             \/ EndTick
    BY <1>4 DEF StartTick, RecoverStep, ReconcileRow, ReadReady, AdmitAndClaim, EndDispatch, ReuseWorkflow,
                LaunchThrows, LinkStep, FailLaunch, Silence, ScheduleDelivery, TurnScheduled, SchedulingFails, EndTick
  <1>5. ASSUME NEW t \in Tickets,
               Submit(t) \/ SubmitInterrupted(t) \/ DeliveryTurn(t) \/ LeaseLapses(t)
        PROVE  UNCHANGED flow
    BY <1>5 DEF Submit, SubmitInterrupted, DeliveryTurn, LeaseLapses
  <1>6. ASSUME NEW s \in Sessions, StopSession(s)
        PROVE  UNCHANGED flow
    BY <1>6 DEF StopSession
  <1>7. CASE Crash \/ Restart \/ UNCHANGED vars
    BY <1>7 DEF Crash, Restart, vars
  <1> QED
    BY <1>1, <1>2, <1>3, <1>4, <1>5, <1>6, <1>7 DEF Next, Tick, Hook, Environment

\* A Ticket that has ended does not move again.
LEMMA EndsOnce ==
    ASSUME NEW t \in Tickets, RowMove(t), ticket[t].status \in {"completed", "failed"}
    PROVE  Same(t)
  BY DEF RowMove, Begun, Taken, Linked, Freed, Done, Lost, Dropped, Claimable

LEMMA EvidenceStep ==
    ASSUME TypeOK, CompletedHasEvidence, [Next]_vars, \A t \in Tickets : RowMove(t)
    PROVE  CompletedHasEvidence'
  <1> SUFFICES ASSUME NEW t \in Tickets, ticket'[t].status = "completed"
               PROVE  ticket'[t].workflow # NoWorkflow /\ flow'[ticket'[t].workflow] = "completed"
    BY DEF CompletedHasEvidence
  <1>1. /\ ticket[t].workflow # NoWorkflow /\ flow[ticket[t].workflow] = "completed"
        /\ ticket'[t].workflow = ticket[t].workflow
    <2>1. CASE ticket[t].status = "completed"
      BY <2>1, EndsOnce DEF CompletedHasEvidence, Same, Became
    <2>2. CASE ticket[t].status # "completed"
      BY <2>2 DEF RowMove, Same, Begun, Taken, Linked, Freed, Done, Lost, Dropped, Became
    <2> QED
      BY <2>1, <2>2
  <1>2. ticket[t].workflow \in Tickets
    BY <1>1, RowFields DEF TypeOK, TicketStoreTypeOK
  <1> QED
    BY <1>1, <1>2, FlowsEndOnce

LEMMA FailureStep ==
    ASSUME TypeOK, FailedIsExplained, [Next]_vars, \A t \in Tickets : RowMove(t)
    PROVE  FailedIsExplained'
  <1> SUFFICES ASSUME NEW t \in Tickets, ticket'[t].status = "failed"
               PROVE  \/ ticket'[t].attempts = MaxAttempts
                      \/ ticket'[t].workflow # NoWorkflow /\ flow'[ticket'[t].workflow] \in {"failed", "cancelled"}
    BY DEF FailedIsExplained
  <1>1. /\ ticket'[t].workflow = ticket[t].workflow /\ ticket'[t].attempts = ticket[t].attempts
        /\ \/ ticket[t].attempts = MaxAttempts
           \/ ticket[t].workflow # NoWorkflow /\ flow[ticket[t].workflow] \in {"failed", "cancelled"}
    <2>1. CASE ticket[t].status = "failed"
      BY <2>1, EndsOnce DEF FailedIsExplained, Same, Became
    <2>2. CASE ticket[t].status # "failed"
      BY <2>2 DEF RowMove, Same, Begun, Taken, Linked, Freed, Done, Lost, Dropped, Became
    <2> QED
      BY <2>1, <2>2
  <1>2. ticket[t].workflow \in Tickets \cup {NoWorkflow}
    BY RowFields DEF TypeOK, TicketStoreTypeOK
  <1> QED
    BY <1>1, <1>2, FlowsEndOnce

\* No transaction changes the lane of a row that exists.
LEMMA RowLanes ==
    ASSUME NEW r \in TicketRow
    PROVE  /\ Claimed(r).lane = r.lane
           /\ \A w \in Tickets : [r EXCEPT !.workflow = w].lane = r.lane
           /\ \A st, g : Settled(r, st, g).lane = r.lane
           /\ \A st : Released(r, st).lane = r.lane
           /\ [r EXCEPT !.lease = "lapsed"].lane = r.lane
  BY DEF TicketRow, Claimed, Settled, Released

LaneStays(t) ==
    \/ ticket'[t].lane = ticket[t].lane
    \/ ticket[t].status = "absent" /\ ticket'[t].status = "accepted"

LEMMA LaneUpdate ==
    ASSUME ticket \in [Tickets -> TicketRow], NEW t \in Tickets, NEW q, ticket' = [ticket EXCEPT ![t] = q],
           q.lane = ticket[t].lane
    PROVE  \A u \in Tickets : LaneStays(u)
  BY DEF LaneStays

LEMMA LanesOfCalls ==
    ASSUME TicketStoreTypeOK, NEW t \in Tickets,
           \/ Claim(t) \/ Complete(CurrentLease(t)) \/ Lapse(t)
           \/ \E w \in Tickets : LinkWorkflow(CurrentLease(t), w)
           \/ \E class \in FailureClass : FailAttempt(CurrentLease(t), class)
    PROVE  \A u \in Tickets : LaneStays(u)
  <1>a. ticket \in [Tickets -> TicketRow] /\ ticket[t] \in TicketRow
    BY DEF TicketStoreTypeOK
  <1>1. CASE Claim(t)
    <2>1. ticket' = [ticket EXCEPT ![t] = Claimed(ticket[t])]
      BY <1>1 DEF Claim, Claimed
    <2> QED
      BY <1>a, <2>1, RowLanes, LaneUpdate
  <1>2. CASE Complete(CurrentLease(t))
    <2> DEFINE q == Settled(ticket[t], "completed", ticket[t].attempts)
    <2>1. ticket' = [ticket EXCEPT ![t] = q]
      BY <1>2 DEF Complete, CurrentLease, Settled
    <2>2. q.lane = ticket[t].lane
      BY <1>a, RowLanes
    <2> QED
      BY <1>a, <2>1, <2>2, LaneUpdate
  <1>3. CASE Lapse(t)
    <2> DEFINE q == [ticket[t] EXCEPT !.lease = "lapsed"]
    <2>1. ticket' = [ticket EXCEPT ![t] = q] /\ q.lane = ticket[t].lane
      BY <1>a, <1>3, RowLanes DEF Lapse
    <2> QED
      BY <1>a, <2>1, LaneUpdate
  <1>4. ASSUME NEW w \in Tickets, LinkWorkflow(CurrentLease(t), w)
        PROVE  \A u \in Tickets : LaneStays(u)
    <2> DEFINE q == [ticket[t] EXCEPT !.workflow = w]
    <2>1. ticket' = [ticket EXCEPT ![t] = q] /\ q.lane = ticket[t].lane
      BY <1>a, <1>4, RowLanes DEF LinkWorkflow, CurrentLease
    <2> QED
      BY <1>a, <2>1, LaneUpdate
  <1>5. ASSUME NEW class \in FailureClass, FailAttempt(CurrentLease(t), class)
        PROVE  \A u \in Tickets : LaneStays(u)
    <2> DEFINE q == Released(ticket[t], "waiting")
               r == Settled(ticket[t], "failed", ticket[t].attempts)
    <2>1. ticket' = [ticket EXCEPT ![t] = q] \/ ticket' = [ticket EXCEPT ![t] = r]
      BY <1>5 DEF FailAttempt, CurrentLease, Settled, Released
    <2>2. q.lane = ticket[t].lane /\ r.lane = ticket[t].lane
      BY <1>a, RowLanes
    <2> HIDE DEF q, r
    <2> QED
      BY <1>a, <2>1, <2>2, LaneUpdate
  <1> QED
    BY <1>1, <1>2, <1>3, <1>4, <1>5

LEMMA LanesStay ==
    ASSUME TypeOK, SubjectFits, [Next]_vars
    PROVE  \A t \in Tickets : LaneStays(t)
  <1>a. TicketStoreTypeOK /\ batch \subseteq Tickets /\ ticket \in [Tickets -> TicketRow]
    BY DEF TypeOK, TicketStoreTypeOK
  <1>0. CASE UNCHANGED ticket
    BY <1>0 DEF LaneStays
  <1>1. CASE RecoverStep \/ \E s \in Sessions : StopSession(s)
    <2>1. \A t \in Tickets : \/ ticket'[t] = ticket[t]
                             \/ \E st \in {"waiting", "cancelled"} : ticket'[t] = Released(ticket[t], st)
      BY <1>1 DEF RecoverStep, RecoverExpired, StopSession, RevokeSession, Released
    <2>2. \A t \in Tickets : \A st : Released(ticket[t], st).lane = ticket[t].lane
      BY <1>a, RowLanes
    <2> QED
      BY <2>1, <2>2 DEF LaneStays
  <1>2. CASE ReconcileRow
    <2>1. PICK t \in Tickets : Reconciled(t)
      BY <1>a, <1>2 DEF ReconcileRow
    <2> QED
      BY <1>0, <1>a, <2>1, LanesOfCalls DEF Reconciled, Heartbeat, storeVars, FailureClass
  <1>3. CASE AdmitAndClaim
    BY <1>a, <1>3, LanesOfCalls, OldestIsThere DEF AdmitAndClaim
  <1>4. CASE LinkStep
    BY <1>0, <1>a, <1>4, LanesOfCalls DEF LinkStep, SubjectFits, storeVars
  <1>5. CASE FailLaunch
    BY <1>0, <1>a, <1>5, LanesOfCalls DEF FailLaunch, SubjectFits, storeVars, FailureClass
  <1>6. CASE Silence \/ ScheduleDelivery \/ SchedulingFails
    BY <1>0, <1>6 DEF Silence, ScheduleDelivery, SchedulingFails, SuppressFailedOutbox, MarkOutboxScheduled,
                      MarkOutboxFailed
  <1>7. ASSUME NEW t \in Tickets, Submit(t) \/ SubmitInterrupted(t)
        PROVE  \A u \in Tickets : LaneStays(u)
    BY <1>a, <1>7, SubmitRows, AcceptRows DEF SubmitInterrupted, LaneStays, Others, Became
  <1>8. ASSUME NEW t \in Tickets, LeaseLapses(t)
        PROVE  \A u \in Tickets : LaneStays(u)
    BY <1>a, <1>8, LanesOfCalls DEF LeaseLapses
  <1>9. CASE StartTick \/ ReadReady \/ EndDispatch \/ ReuseWorkflow \/ StartOwnWorkflow \/ LaunchThrows
              \/ TurnScheduled \/ EndTick \/ Crash \/ Restart
    BY <1>0, <1>9 DEF StartTick, ReadReady, EndDispatch, ReuseWorkflow, StartOwnWorkflow, LaunchThrows,
                       TurnScheduled, EndTick, Crash, Restart
  <1>10. ASSUME NEW t \in Tickets, DeliveryTurn(t) \/ CancelBoundWorkflow(t) \/ FlowEnds(t)
         PROVE  UNCHANGED ticket
    BY <1>10 DEF DeliveryTurn, CancelBoundWorkflow, FlowEnds
  <1>11. CASE UNCHANGED vars
    BY <1>0, <1>11 DEF vars
  <1> QED
    BY <1>0, <1>1, <1>2, <1>3, <1>4, <1>5, <1>6, <1>7, <1>8, <1>9, <1>10, <1>11
       DEF Next, Tick, Hook, Environment

\* Candidates have budget, so no claim exceeds it.
LEMMA BudgetStep ==
    ASSUME TypeOK, BatchFits, BudgetFits, \A t \in Tickets : RowMove(t) /\ LaneStays(t)
    PROVE  BudgetFits'
  <1> SUFFICES ASSUME NEW t \in Tickets
               PROVE  /\ ticket'[t].attempts <= MaxAttempts
                      /\ ticket'[t].status = "absent" =>
                            ticket'[t].attempts = 0 /\ ticket'[t].workflow = NoWorkflow /\ ticket'[t].lane = "unrouted"
    BY DEF BudgetFits
  <1>1. ticket[t].attempts \in Nat /\ MaxAttempts \in Nat /\ ticket[t].attempts <= MaxAttempts
    BY RowFields, TicketStoreAssumption DEF TypeOK, TicketStoreTypeOK, BudgetFits
  <1>2. CASE Taken(t)
    <2>1. /\ ticket[t].attempts < MaxAttempts /\ ticket'[t].attempts = ticket[t].attempts + 1
          /\ ticket'[t].status = "running"
      BY <1>2 DEF Taken, BatchFits, Dispatching, Became
    <2> QED
      BY <1>1, <2>1
  <1>3. CASE ~Taken(t)
    BY <1>1, <1>3 DEF BudgetFits, LaneStays, RowMove, Same, Begun, Linked, Freed, Done, Lost, Dropped, Became
  <1> QED
    BY <1>2, <1>3

\* A row is claimed from a batch of durable rows, and linked once it runs.
LEMMA DurableStep ==
    ASSUME TypeOK, BatchFits, BudgetFits, OnlyDurableIsClaimed, \A t \in Tickets : RowMove(t) /\ LaneStays(t)
    PROVE  OnlyDurableIsClaimed'
  <1> SUFFICES ASSUME NEW t \in Tickets,
                      ticket'[t].attempts > 0 \/ ticket'[t].status = "running" \/ ticket'[t].workflow # NoWorkflow
               PROVE  ticket'[t].lane = "durable"
    BY DEF OnlyDurableIsClaimed
  <1>1. ~Begun(t) /\ ~(Same(t) /\ ticket[t].status = "absent")
    BY DEF Begun, Same, Became, BudgetFits
  <1>2. ticket'[t].lane = ticket[t].lane
    BY <1>1 DEF RowMove, LaneStays, Taken, Linked, Freed, Done, Lost, Dropped, Became, Claimable
  <1>3. CASE Taken(t)
    BY <1>2, <1>3 DEF Taken, BatchFits, Dispatching
  <1>4. CASE ~Taken(t)
    <2>1. ticket[t].attempts > 0 \/ ticket[t].status = "running" \/ ticket[t].workflow # NoWorkflow
      BY <1>1, <1>4 DEF RowMove, Same, Linked, Freed, Done, Lost, Dropped, Became
    <2> QED
      BY <1>2, <2>1 DEF OnlyDurableIsClaimed
  <1> QED
    BY <1>3, <1>4

\* Where a tick and its launch come from.
LEMMA LoopMoves ==
    ASSUME [Next]_vars
    PROVE  /\ pc' \in {"launch", "link"} => \/ pc = "dispatch" /\ HasCapacity
                                            \/ pc \in {"launch", "link"} /\ subject' = subject
           /\ pc \in Silencing \cup {"down"} => \/ pc' = pc /\ subject' = subject
                                                \/ pc' = "down" /\ UNCHANGED storeVars
                                                \/ Silence \/ Restart
  <1> USE DEF Silencing
  <1>0. CASE StartTick \/ RecoverStep \/ ReconcileRow \/ ReadReady \/ AdmitAndClaim
    BY <1>0 DEF StartTick, RecoverStep, ReconcileRow, ReadReady, AdmitAndClaim
  <1>1. CASE EndDispatch \/ ReuseWorkflow \/ StartOwnWorkflow \/ LaunchThrows \/ LinkStep
    BY <1>1 DEF EndDispatch, ReuseWorkflow, StartOwnWorkflow, LaunchThrows, LinkStep
  <1>2. CASE FailLaunch \/ Silence \/ ScheduleDelivery \/ TurnScheduled \/ SchedulingFails \/ EndTick
    BY <1>2 DEF FailLaunch, Silence, ScheduleDelivery, TurnScheduled, SchedulingFails, EndTick
  <1>3. CASE Hook
    BY <1>3 DEF Hook, LoopFree, Submit, SubmitInterrupted, StopSession, DeliveryTurn, CancelBoundWorkflow
  <1>4. CASE Environment
    BY <1>4 DEF Environment, FlowEnds, LeaseLapses, Crash, Restart, storeVars
  <1>5. CASE UNCHANGED vars
    BY <1>5 DEF vars
  <1> QED
    BY <1>0, <1>1, <1>2, <1>3, <1>4, <1>5 DEF Next, Tick

LEMMA BatchMoves ==
    ASSUME [Next]_vars, NEW t \in batch'
    PROVE  /\ pc' \in Reconciling => (pc \in Reconciling /\ t \in batch) \/ ticket[t].workflow # NoWorkflow
           /\ pc' \in Dispatching => \/ pc \in Dispatching /\ t \in batch
                                     \/ /\ pc = "reconcile" /\ ticket[t].attempts < MaxAttempts
                                        /\ ticket[t].lane = "durable" /\ ticket[t].status \in Claimable
  <1> USE DEF Reconciling, Dispatching
  <1>0. CASE StartTick \/ ReconcileRow \/ AdmitAndClaim \/ EndDispatch
    BY <1>0 DEF StartTick, ReconcileRow, AdmitAndClaim, EndDispatch
  <1>1. CASE ReuseWorkflow \/ StartOwnWorkflow \/ LaunchThrows \/ LinkStep
    BY <1>1 DEF ReuseWorkflow, StartOwnWorkflow, LaunchThrows, LinkStep
  <1>2. CASE RecoverStep
    BY <1>2 DEF RecoverStep, LinkedRunning
  <1>3. CASE ReadReady
    BY <1>3 DEF ReadReady, ReadyBatch, Ready
  <1>4. CASE FailLaunch \/ Silence \/ ScheduleDelivery \/ TurnScheduled \/ SchedulingFails \/ EndTick
    BY <1>4 DEF FailLaunch, Silence, ScheduleDelivery, TurnScheduled, SchedulingFails, EndTick
  <1>5. CASE Hook
    BY <1>5 DEF Hook, LoopFree, Submit, SubmitInterrupted, StopSession, DeliveryTurn, CancelBoundWorkflow
  <1>6. CASE Environment
    BY <1>6 DEF Environment, FlowEnds, LeaseLapses, Crash, Restart
  <1>7. CASE UNCHANGED vars
    BY <1>7 DEF vars
  <1> QED
    BY <1>0, <1>1, <1>2, <1>3, <1>4, <1>5, <1>6, <1>7 DEF Next, Tick

LEMMA SubjectStep ==
    ASSUME TypeOK, SubjectFits, [Next]_vars
    PROVE  SubjectFits'
  <1> USE DEF SubjectFits, Silencing
  <1>a. batch \subseteq Tickets
    BY DEF TypeOK
  <1>0. CASE StartTick \/ RecoverStep \/ ReconcileRow \/ ReadReady
    BY <1>a, <1>0 DEF StartTick, RecoverStep, ReconcileRow, ReadReady
  <1>1. CASE EndDispatch \/ LaunchThrows \/ LinkStep
    BY <1>1 DEF EndDispatch, LaunchThrows, LinkStep
  <1>2. CASE AdmitAndClaim
    BY <1>a, <1>2, OldestIsThere DEF AdmitAndClaim
  <1>3. CASE ReuseWorkflow \/ StartOwnWorkflow
    BY <1>3 DEF ReuseWorkflow, StartOwnWorkflow, ActiveForRequest
  <1>4. CASE FailLaunch \/ Silence \/ ScheduleDelivery \/ TurnScheduled \/ SchedulingFails \/ EndTick
    BY <1>a, <1>4 DEF FailLaunch, Silence, ScheduleDelivery, TurnScheduled, SchedulingFails, EndTick
  <1>5. CASE Hook
    BY <1>5 DEF Hook, LoopFree, Submit, SubmitInterrupted, StopSession, DeliveryTurn, CancelBoundWorkflow
  <1>6. CASE Environment
    BY <1>6 DEF Environment, FlowEnds, LeaseLapses, Crash, Restart
  <1>7. CASE UNCHANGED vars
    BY <1>7 DEF vars
  <1> QED
    BY <1>0, <1>1, <1>2, <1>3, <1>4, <1>5, <1>6, <1>7 DEF Next, Tick

\* A row to reconcile keeps its workflow, and the only candidate a step claims
\* leaves the batch.
LEMMA BatchStep ==
    ASSUME TypeOK, SubjectFits, BatchFits, BudgetFits, [Next]_vars, \A t \in Tickets : RowMove(t) /\ LaneStays(t)
    PROVE  BatchFits'
  <1>a. batch' \subseteq Tickets
    BY Typed DEF TypeOK
  <1>1. ASSUME pc' \in Reconciling, NEW t \in batch'
        PROVE  ticket'[t].workflow # NoWorkflow
    <2>1. ticket[t].workflow # NoWorkflow
      BY <1>1, BatchMoves DEF BatchFits
    <2>2. target \in Tickets \/ ~Linked(t)
      BY DEF Linked, SubjectFits
    <2> QED
      BY <1>a, <2>1, <2>2, TicketStoreAssumption
         DEF RowMove, Same, Begun, Taken, Linked, Freed, Done, Lost, Dropped, Became
  <1>2. ASSUME pc' \in Dispatching, NEW t \in batch'
        PROVE  ticket'[t].lane = "durable" /\ ticket'[t].attempts < MaxAttempts
    <2>1. ticket[t].lane = "durable" /\ ticket[t].attempts < MaxAttempts
      BY <1>2, BatchMoves DEF BatchFits
    <2>2. ~Taken(t)
      BY DEF Taken
    <2>3. t \in Tickets /\ ticket[t].status # "absent"
      BY <1>a, <2>1 DEF BudgetFits
    <2> QED
      BY <2>1, <2>2, <2>3 DEF LaneStays, RowMove, Same, Begun, Linked, Freed, Done, Lost, Dropped, Became
  <1> QED
    BY <1>1, <1>2 DEF BatchFits

\* Linked and running Tickets: only a claim and a link add one.
LEMMA RunningMoves ==
    ASSUME \A t \in Tickets : RowMove(t), NEW t \in LinkedRunning', ~Taken(t), ~Linked(t)
    PROVE  t \in LinkedRunning
  BY DEF LinkedRunning, RowMove, Same, Begun, Freed, Done, Lost, Dropped, Became

LEMMA RunningFinite ==
    ASSUME NEW P \in SUBSET Tickets, NEW Q \in SUBSET P
    PROVE  Cardinality(Q) <= Cardinality(P) /\ Cardinality(P) \in Nat /\ Cardinality(Q) \in Nat
  <1>1. IsFiniteSet(P) /\ Cardinality(P) \in Nat /\ Cardinality(Q) \in Nat
    BY RowCount
  <1> QED
    BY <1>1, FS_Subset

\* One more at most, where there was room.
LEMMA RoomForOne ==
    ASSUME NEW P \in SUBSET Tickets, NEW x, Cardinality(P) < MaxRunning, NEW Q \in SUBSET Tickets, Q \subseteq P \cup {x}
    PROVE  Cardinality(Q) <= MaxRunning
  <1>1. IsFiniteSet(P) /\ Cardinality(P) \in Nat /\ MaxRunning \in Nat /\ Cardinality(Q) \in Nat
    BY RowCount, TicketRuntimeAssumption
  <1>2. /\ IsFiniteSet(P \cup {x})
        /\ Cardinality(P \cup {x}) = IF x \in P THEN Cardinality(P) ELSE Cardinality(P) + 1
    BY <1>1, FS_AddElement
  <1>3. Cardinality(Q) <= Cardinality(P \cup {x})
    BY <1>2, FS_Subset
  <1> QED
    BY <1>1, <1>2, <1>3

LEMMA ConcurrencyStep ==
    ASSUME ConcurrencyIsBounded, CapacityFits, \A t \in Tickets : RowMove(t)
    PROVE  ConcurrencyIsBounded'
  <1>a. LinkedRunning \subseteq Tickets /\ LinkedRunning' \subseteq Tickets /\ MaxRunning \in Nat
    BY TicketRuntimeAssumption DEF LinkedRunning
  <1>1. ASSUME NEW t \in Tickets, Taken(t)
        PROVE  Cardinality(LinkedRunning') <= MaxRunning
    <2>1. LinkedRunning' \subseteq LinkedRunning \cup {t}
      <3> SUFFICES ASSUME NEW u \in LinkedRunning', u # t PROVE u \in LinkedRunning
        OBVIOUS
      <3>1. ~Taken(u) /\ ~Linked(u)
        BY <1>1 DEF Taken, Linked
      <3> QED
        BY <3>1, RunningMoves
    <2>2. Cardinality(LinkedRunning) < MaxRunning
      BY <1>1 DEF Taken, HasCapacity
    <2> QED
      BY <1>a, <2>1, <2>2, RoomForOne
  <1>2. ASSUME NEW t \in Tickets, Linked(t)
        PROVE  Cardinality(LinkedRunning') <= MaxRunning
    <2>1. LinkedRunning' \subseteq (LinkedRunning \ {t}) \cup {t}
      <3> SUFFICES ASSUME NEW u \in LinkedRunning', u # t PROVE u \in LinkedRunning
        OBVIOUS
      <3>1. ~Taken(u) /\ ~Linked(u)
        BY <1>2 DEF Taken, Linked
      <3> QED
        BY <3>1, RunningMoves
    <2>2. Cardinality(LinkedRunning \ {t}) < MaxRunning
      BY <1>2 DEF Linked, CapacityFits
    <2> QED
      BY <1>a, <2>1, <2>2, RoomForOne
  <1>3. CASE \A t \in Tickets : ~Taken(t) /\ ~Linked(t)
    <2>1. LinkedRunning' \subseteq LinkedRunning
      BY <1>a, <1>3, RunningMoves
    <2> QED
      BY <1>a, <2>1, RunningFinite DEF ConcurrencyIsBounded
  <1> QED
    BY <1>1, <1>2, <1>3 DEF ConcurrencyIsBounded

LEMMA CapacityStep ==
    ASSUME CapacityFits, [Next]_vars, \A t \in Tickets : RowMove(t)
    PROVE  CapacityFits'
  <1>a. LinkedRunning \subseteq Tickets /\ LinkedRunning' \subseteq Tickets /\ MaxRunning \in Nat
    BY TicketRuntimeAssumption DEF LinkedRunning
  <1> SUFFICES ASSUME pc' \in {"launch", "link"}
               PROVE  Cardinality(LinkedRunning' \ {subject'}) < MaxRunning
    BY DEF CapacityFits
  <1>1. \A t \in Tickets : ~Linked(t)
    BY DEF Linked
  <1>2. CASE pc = "dispatch" /\ HasCapacity
    <2>1. LinkedRunning' \ {subject'} \subseteq LinkedRunning
      <3> SUFFICES ASSUME NEW u \in LinkedRunning', u # subject' PROVE u \in LinkedRunning
        OBVIOUS
      <3>1. ~Taken(u)
        BY DEF Taken
      <3> QED
        BY <1>a, <1>1, <3>1, RunningMoves
    <2>2. Cardinality(LinkedRunning) < MaxRunning
      BY <1>2 DEF HasCapacity
    <2>3. Cardinality(LinkedRunning' \ {subject'}) <= Cardinality(LinkedRunning)
          /\ Cardinality(LinkedRunning) \in Nat /\ Cardinality(LinkedRunning' \ {subject'}) \in Nat
      BY <1>a, <2>1, RunningFinite
    <2> QED
      BY <1>a, <2>2, <2>3
  <1>3. CASE pc \in {"launch", "link"} /\ subject' = subject
    <2>1. LinkedRunning' \ {subject'} \subseteq LinkedRunning \ {subject}
      <3> SUFFICES ASSUME NEW u \in LinkedRunning' PROVE u \in LinkedRunning
        BY <1>3
      <3>1. ~Taken(u)
        BY <1>3 DEF Taken
      <3> QED
        BY <1>a, <1>1, <3>1, RunningMoves
    <2>2. Cardinality(LinkedRunning \ {subject}) < MaxRunning
      BY <1>3 DEF CapacityFits
    <2>3. Cardinality(LinkedRunning' \ {subject'}) <= Cardinality(LinkedRunning \ {subject})
          /\ Cardinality(LinkedRunning \ {subject}) \in Nat /\ Cardinality(LinkedRunning' \ {subject'}) \in Nat
      BY <1>a, <2>1, RunningFinite
    <2> QED
      BY <1>a, <2>2, <2>3
  <1> QED
    BY <1>2, <1>3, LoopMoves

-----------------------------------------------------------------------------
(* The announcements. *)

\* What a step does to the outbox row of a Ticket.
Owed(t) ==
    /\ outbox[t] = "none" /\ outbox'[t] = "pending"
    /\ ticket[t].status = "running" /\ ticket'[t].status \in {"completed", "failed"}

Marked(t) ==
    /\ outbox[t] # "none" /\ outbox'[t] \in {"pending", "scheduled"}
    /\ pc \notin Silencing \cup {"down"} \/ ticket[t].status # "failed"

NoticeMove(t) == outbox'[t] = outbox[t] \/ outbox'[t] = "none" \/ Owed(t) \/ Marked(t)

LEMMA FailNotices ==
    ASSUME TicketStoreTypeOK, NEW t \in Tickets, NEW class \in FailureClass, FailAttempt(CurrentLease(t), class)
    PROVE  \A u \in Tickets : NoticeMove(u)
  <1>1. CASE Retryable(t, class)
    BY <1>1, FailRows DEF NoticeMove
  <1>2. CASE ~Retryable(t, class)
    <2>1. NoticeMove(t)
      BY <1>2, FailRows DEF NoticeMove, Owed, Became
    <2> QED
      BY <1>2, <2>1, FailRows DEF NoticeMove
  <1> QED
    BY <1>1, <1>2

LEMMA ReconciledNotices ==
    ASSUME TicketStoreTypeOK, NEW t \in Tickets, Reconciled(t)
    PROVE  \A u \in Tickets : NoticeMove(u)
  <1>1. CASE Complete(CurrentLease(t))
    BY <1>1, CompleteRows DEF NoticeMove, Owed, Became
  <1>2. ASSUME NEW class \in FailureClass, FailAttempt(CurrentLease(t), class)
        PROVE  \A u \in Tickets : NoticeMove(u)
    BY <1>2, FailNotices
  <1>3. CASE UNCHANGED storeVars
    BY <1>3 DEF NoticeMove, storeVars
  <1> QED
    BY <1>1, <1>2, <1>3 DEF Reconciled, FailureClass, Heartbeat

LEMMA NoticesMove ==
    ASSUME TypeOK, SubjectFits, [Next]_vars
    PROVE  \A u \in Tickets : NoticeMove(u)
  <1>a. TicketStoreTypeOK /\ batch \subseteq Tickets /\ outbox \in [Tickets -> OutboxState]
    BY DEF TypeOK, TicketStoreTypeOK
  <1>0. CASE UNCHANGED outbox
    BY <1>0 DEF NoticeMove
  <1>1. CASE RecoverStep \/ AdmitAndClaim
    BY <1>0, <1>1 DEF RecoverStep, AdmitAndClaim, RecoverExpired, Claim
  <1>2. CASE ReconcileRow
    BY <1>a, <1>2, ReconciledNotices DEF ReconcileRow
  <1>3. CASE LinkStep
    BY <1>0, <1>3 DEF LinkStep, LinkWorkflow, storeVars
  <1>4. CASE FailLaunch
    BY <1>a, <1>0, <1>4, FailNotices DEF FailLaunch, SubjectFits, FailureClass, storeVars
  <1>5. CASE Silence
    BY <1>a, <1>5 DEF Silence, SuppressFailedOutbox, NoticeMove
  <1>6. CASE ScheduleDelivery
    BY <1>a, <1>6 DEF ScheduleDelivery, MarkOutboxScheduled, NoticeMove, Marked, Silencing
  <1>7. CASE SchedulingFails
    BY <1>a, <1>7 DEF SchedulingFails, MarkOutboxFailed, NoticeMove, Marked, Silencing
  <1>8. ASSUME NEW t \in Tickets, Submit(t) \/ SubmitInterrupted(t) \/ LeaseLapses(t) \/ DeliveryTurn(t)
                                  \/ CancelBoundWorkflow(t) \/ FlowEnds(t)
        PROVE  UNCHANGED outbox
    BY <1>8 DEF Submit, SubmitInterrupted, Accept, LeaseLapses, Lapse, DeliveryTurn, CancelBoundWorkflow, FlowEnds
  <1>9. ASSUME NEW s \in Sessions, StopSession(s)
        PROVE  \A u \in Tickets : NoticeMove(u)
    BY <1>9 DEF StopSession, RevokeSession, NoticeMove
  <1>10. CASE Restart
    BY <1>10 DEF Restart, NoticeMove, Marked
  <1>11. CASE StartTick \/ ReadReady \/ EndDispatch \/ ReuseWorkflow \/ StartOwnWorkflow \/ LaunchThrows
              \/ TurnScheduled \/ EndTick \/ Crash
    BY <1>0, <1>11 DEF StartTick, ReadReady, EndDispatch, ReuseWorkflow, StartOwnWorkflow, LaunchThrows,
                       TurnScheduled, EndTick, Crash
  <1>12. CASE UNCHANGED vars
    BY <1>0, <1>12 DEF vars
  <1> QED
    BY <1>0, <1>1, <1>2, <1>3, <1>4, <1>5, <1>6, <1>7, <1>8, <1>9, <1>10, <1>11, <1>12
       DEF Next, Tick, Hook, Environment

\* An unsilenced failure is the one of this step, or it was there and the loop
\* has not got further; its row is still unscheduled.
LEMMA UnsilencedMoves ==
    ASSUME TypeOK, SubjectFits, OutboxFits, FailureStaysSilent, [Next]_vars,
           \A t \in Tickets : RowMove(t) /\ NoticeMove(t), NEW t \in Unsilenced'
    PROVE  /\ outbox'[t] = "pending"
           /\ \/ Lost(t)
              \/ t \in Unsilenced /\ ((pc' = pc /\ subject' = subject) \/ pc' = "down")
  <1>a. t \in Tickets /\ ticket'[t].status = "failed" /\ outbox'[t] # "none"
        /\ RowMove(t) /\ NoticeMove(t) /\ outbox \in [Tickets -> OutboxState]
    BY DEF Unsilenced, TypeOK, TicketStoreTypeOK
  <1>1. CASE ticket[t].status = "failed"
    <2>1. outbox[t] # "none"
      BY <1>a, <1>1 DEF NoticeMove, Owed, Marked
    <2>2. t \in Unsilenced /\ outbox[t] = "pending" /\ pc \in Silencing \cup {"down"}
      BY <1>a, <1>1, <2>1 DEF Unsilenced, OutboxFits, FailureStaysSilent
    <2>3. outbox'[t] = "pending"
      BY <1>a, <1>1, <2>2 DEF NoticeMove, Owed, Marked
    <2>4. ~Silence
      <3>1. SUFFICES ASSUME Silence PROVE FALSE
        OBVIOUS
      <3>2. pc \in Silencing
        BY <3>1 DEF Silence, Silencing
      <3>3. t = subject
        BY <2>2, <3>2 DEF OutboxFits
      <3> QED
        BY <1>a, <1>1, <2>2, <2>3, <3>1, <3>3 DEF Silence, SuppressFailedOutbox
    <2>5. ~Restart
      BY <1>a, <1>1, <2>2 DEF Restart
    <2> QED
      BY <2>2, <2>3, <2>4, <2>5, LoopMoves
  <1>2. CASE ticket[t].status # "failed"
    <2>1. Lost(t)
      BY <1>a, <1>2 DEF RowMove, Same, Begun, Taken, Linked, Freed, Done, Dropped, Became
    <2>2. outbox[t] = "none"
      BY <1>a, <2>1 DEF Lost, OutboxFits
    <2>3. outbox'[t] = "pending"
      BY <1>a, <2>2 DEF NoticeMove, Owed, Marked
    <2> QED
      BY <2>1, <2>3
  <1> QED
    BY <1>1, <1>2

LEMMA OutboxStep ==
    ASSUME TypeOK, SubjectFits, OutboxFits, FailureStaysSilent, [Next]_vars,
           \A t \in Tickets : RowMove(t) /\ NoticeMove(t)
    PROVE  OutboxFits' /\ FailureStaysSilent'
  <1>1. ASSUME NEW t \in Tickets, outbox'[t] # "none"
        PROVE  ticket'[t].status \in {"completed", "failed"}
    <2>1. CASE outbox[t] = "none"
      BY <1>1, <2>1 DEF NoticeMove, Owed, Marked
    <2>2. CASE outbox[t] # "none"
      BY <1>1, <2>2, EndsOnce DEF OutboxFits, Same, Became
    <2> QED
      BY <2>1, <2>2
  <1>2. ASSUME NEW t \in Unsilenced'
        PROVE  pc' \in Silencing \cup {"down"} /\ (pc' \in Silencing => subject' = t)
    <2>1. CASE Lost(t)
      BY <2>1 DEF Lost
    <2>2. CASE t \in Unsilenced /\ ((pc' = pc /\ subject' = subject) \/ pc' = "down")
      BY <2>2 DEF OutboxFits, Silencing
    <2> QED
      BY <2>1, <2>2, UnsilencedMoves
  <1>3. ASSUME NEW t \in Unsilenced', NEW u \in Unsilenced'
        PROVE  t = u
    <2>1. CASE Lost(t) \/ Lost(u)
      <3>1. pc' \in Silencing
        BY <2>1 DEF Lost
      <3> QED
        BY <1>2, <3>1
    <2>2. CASE ~Lost(t) /\ ~Lost(u)
      BY <2>2, UnsilencedMoves DEF OutboxFits
    <2> QED
      BY <2>1, <2>2
  <1>4. OutboxFits'
    BY <1>1, <1>2, <1>3 DEF OutboxFits
  <1>5. ASSUME NEW t \in Tickets, ticket'[t].status = "failed", outbox'[t] # "none"
        PROVE  outbox'[t] = "pending" /\ pc' \in {"silence-reconcile", "silence-dispatch", "down"}
    <2>1. t \in Unsilenced'
      BY <1>5 DEF Unsilenced
    <2> QED
      BY <1>2, <2>1, UnsilencedMoves DEF Silencing
  <1>6. FailureStaysSilent'
    BY <1>5 DEF FailureStaysSilent
  <1> QED
    BY <1>4, <1>6

\* A launch starts a workflow only where none runs for the request.
LEMMA ActiveStep ==
    ASSUME TypeOK, OneActiveWorkflowPerRequest, [Next]_vars
    PROVE  OneActiveWorkflowPerRequest'
  <1> USE DEF OneActiveWorkflowPerRequest
  <1>a. flow \in [Tickets -> FlowState]
    BY DEF TypeOK
  <1>1. CASE \A w \in Tickets : flow'[w] = "active" => flow[w] = "active"
    BY <1>1
  <1>2. CASE StartOwnWorkflow
    <2>1. \A w \in Tickets : flow'[w] = "active" => flow[w] = "active" \/ w = subject
      BY <1>a, <1>2 DEF StartOwnWorkflow
    <2>2. \A w \in Tickets : Request[w] = Request[subject] => flow[w] # "active"
      BY <1>2 DEF StartOwnWorkflow, ActiveForRequest
    <2> QED
      BY <2>1, <2>2
  <1>3. ASSUME NEW v \in Tickets, CancelBoundWorkflow(v) \/ FlowEnds(v)
        PROVE  \A w \in Tickets : flow'[w] = "active" => flow[w] = "active"
    BY <1>a, <1>3 DEF CancelBoundWorkflow, FlowEnds
  <1>4. CASE \/ StartTick \/ RecoverStep \/ ReconcileRow \/ ReadReady \/ AdmitAndClaim
             \/ EndDispatch \/ ReuseWorkflow \/ LaunchThrows \/ LinkStep
             \/ FailLaunch \/ Silence \/ ScheduleDelivery \/ TurnScheduled \/ SchedulingFails
             \/ EndTick
    BY <1>1, <1>4 DEF StartTick, RecoverStep, ReconcileRow, ReadReady, AdmitAndClaim, EndDispatch, ReuseWorkflow,
                LaunchThrows, LinkStep, FailLaunch, Silence, ScheduleDelivery, TurnScheduled, SchedulingFails, EndTick
  <1>5. ASSUME NEW t \in Tickets, Submit(t) \/ SubmitInterrupted(t) \/ DeliveryTurn(t) \/ LeaseLapses(t)
        PROVE  UNCHANGED flow
    BY <1>5 DEF Submit, SubmitInterrupted, DeliveryTurn, LeaseLapses
  <1>6. ASSUME NEW s \in Sessions, StopSession(s)
        PROVE  UNCHANGED flow
    BY <1>6 DEF StopSession
  <1>7. CASE Crash \/ Restart \/ UNCHANGED vars
    BY <1>1, <1>7 DEF Crash, Restart, vars
  <1> QED
    BY <1>1, <1>2, <1>3, <1>4, <1>5, <1>6, <1>7 DEF Next, Tick, Hook, Environment

-----------------------------------------------------------------------------
(* The invariant. *)

LEMMA LaneInit == Init => LaneInv
  <1> SUFFICES ASSUME Init PROVE LaneInv
    OBVIOUS
  <1>1. TypeOK
    <2>1. TicketStoreTypeOK
      BY DEF Init, TicketStoreInit, TicketStoreTypeOK, TicketRow, Status, OutboxState
    <2>2. crashes \in 0..MaxCrashes
      BY TicketRuntimeAssumption DEF Init
    <2> QED
      BY <2>1, <2>2 DEF Init, TypeOK, Steps, FlowState
  <1>2. \A t \in Tickets : /\ ticket[t].status = "absent" /\ ticket[t].attempts = 0 /\ outbox[t] = "none"
                           /\ flow[t] = "absent" /\ ticket[t].workflow = NoWorkflow /\ ticket[t].lane = "unrouted"
    BY DEF Init, TicketStoreInit
  <1>3. LinkedRunning = {} /\ Unsilenced = {}
    BY <1>2 DEF LinkedRunning, Unsilenced
  <1>4. ConcurrencyIsBounded
    BY <1>3, FS_EmptySet, TicketRuntimeAssumption DEF ConcurrencyIsBounded
  <1>5. BudgetFits
    BY <1>2, TicketStoreAssumption DEF BudgetFits
  <1> QED
    BY <1>1, <1>2, <1>3, <1>4, <1>5 DEF LaneInv, Init, CompletedHasEvidence, FailedIsExplained, FailureStaysSilent,
       OneActiveWorkflowPerRequest, OnlyDurableIsClaimed, SubjectFits, BatchFits, CapacityFits, OutboxFits, Reconciling, Dispatching, Silencing

LEMMA LaneStep == LaneInv /\ [Next]_vars => LaneInv'
  <1> SUFFICES ASSUME LaneInv, [Next]_vars PROVE LaneInv'
    OBVIOUS
  <1> USE DEF LaneInv
  <1>1. TypeOK' /\ SubjectFits'
    BY Typed, SubjectStep
  <1>2. \A t \in Tickets : RowMove(t) /\ LaneStays(t) /\ NoticeMove(t)
    BY RowsMove, LanesStay, NoticesMove
  <1>3. CompletedHasEvidence' /\ FailedIsExplained'
    BY <1>2, EvidenceStep, FailureStep
  <1>4. BatchFits' /\ BudgetFits' /\ OnlyDurableIsClaimed'
    BY <1>2, BatchStep, BudgetStep, DurableStep
  <1>5. ConcurrencyIsBounded' /\ CapacityFits'
    BY <1>2, ConcurrencyStep, CapacityStep
  <1>6. OutboxFits' /\ FailureStaysSilent' /\ OneActiveWorkflowPerRequest'
    BY <1>2, OutboxStep, ActiveStep
  <1> QED
    BY <1>1, <1>3, <1>4, <1>5, <1>6

\* The durable lane is safe: outcomes have evidence, failures have a reason and
\* stay silent, the running workflows respect ticketMaximumRunning, Direct
\* Tickets are never claimed, and one workflow at most runs for a request, through every crash, lapse and stop
\* (the event loop of v091-final-entry.ts over ticket-store.ts).
THEOREM LaneIsSafe == Spec => []LaneInv
  BY LaneInit, LaneStep, PTL DEF Spec

-----------------------------------------------------------------------------
(* The contract.  Each of its steps, from what happens to the rows. *)

abstract == [t \in Tickets |-> ContractState(t)]
owed == [t \in Tickets |-> ContractNotice(t)]

\* The contract sees a status and whether a notice is owed.
LEMMA SameState ==
    ASSUME NEW t \in Tickets, ticket'[t].status = ticket[t].status
    PROVE  ContractState(t)' = ContractState(t)
  BY DEF ContractState

LEMMA SameNotice ==
    ASSUME NEW t \in Tickets,
           \/ outbox'[t] = outbox[t]
           \/ outbox[t] \in {"pending", "scheduled"} /\ outbox'[t] \in {"pending", "scheduled"}
    PROVE  ContractNotice(t)' = ContractNotice(t)
  BY DEF ContractNotice

LEMMA SameOwed ==
    ASSUME \A t \in Tickets : ContractNotice(t)' = ContractNotice(t)
    PROVE  owed' = owed
  BY DEF owed

LEMMA StutterStep ==
    ASSUME \A t \in Tickets : ticket'[t].status = ticket[t].status,
           \A t \in Tickets : ContractNotice(t)' = ContractNotice(t)
    PROVE  UNCHANGED Contract!contractVars
  <1>1. \A t \in Tickets : ContractState(t)' = ContractState(t)
    BY SameState
  <1>2. abstract' = abstract
    BY <1>1 DEF abstract
  <1> QED
    BY <1>2, SameOwed DEF Contract!contractVars, abstract, owed

\* One Ticket changes its state.
LEMMA OneState ==
    ASSUME NEW t \in Tickets, Others(t), NEW st, ContractState(t)' = st
    PROVE  abstract' = [abstract EXCEPT ![t] = st]
  <1>1. \A u \in Tickets : ContractState(u)' = IF u = t THEN st ELSE ContractState(u)
    BY SameState DEF Others
  <1> QED
    BY <1>1 DEF abstract

LEMMA SubmitIsSubmit ==
    ASSUME NEW t \in Tickets, Others(t), UNCHANGED outbox, ticket[t].status = "absent", ticket'[t].status = "accepted"
    PROVE  Contract!Submit(t)
  <1>1. abstract[t] = "absent" /\ ContractState(t)' = "open"
    BY DEF abstract, ContractState, Claimable
  <1>2. abstract' = [abstract EXCEPT ![t] = "open"] /\ owed' = owed
    BY <1>1, OneState, SameNotice, SameOwed
  <1> QED
    BY <1>1, <1>2 DEF Contract!Submit, abstract, owed

LEMMA ClaimIsTake ==
    ASSUME NEW t \in Tickets, Others(t), UNCHANGED outbox, ticket[t].status \in Claimable, ticket'[t].status = "running"
    PROVE  Contract!Take(t)
  <1>1. abstract[t] = "open" /\ ContractState(t)' = "claimed"
    BY DEF abstract, ContractState, Claimable
  <1>2. abstract' = [abstract EXCEPT ![t] = "claimed"] /\ owed' = owed
    BY <1>1, OneState, SameNotice, SameOwed
  <1> QED
    BY <1>1, <1>2 DEF Contract!Take, abstract, owed

LEMMA FreeingIsRelease ==
    ASSUME NEW S \in SUBSET Tickets, UNCHANGED outbox,
           \A t \in S : ticket[t].status = "running" /\ ticket'[t].status = "waiting",
           \A t \in Tickets \ S : ticket'[t].status = ticket[t].status
    PROVE  Contract!Release(S)
  <1>1. \A t \in S : ContractState(t) = "claimed" /\ ContractState(t)' = "open"
    BY DEF ContractState, Claimable
  <1>2. \A t \in Tickets \ S : ContractState(t)' = ContractState(t)
    BY SameState
  <1>3. \A t \in S : abstract[t] = "claimed"
    BY <1>1 DEF abstract
  <1>4. abstract' = [t \in Tickets |-> IF t \in S THEN "open" ELSE abstract[t]]
    BY <1>1, <1>2 DEF abstract
  <1>5. owed' = owed
    BY SameNotice, SameOwed
  <1> QED
    BY <1>3, <1>4, <1>5 DEF Contract!Release, abstract, owed

LEMMA EndIsSettle ==
    ASSUME NEW t \in Tickets, Others(t), NEW st \in {"completed", "failed"},
           ticket[t].status = "running", ticket'[t].status = st, outbox[t] = "none", outbox'[t] = "pending",
           \A u \in Tickets : u # t => outbox'[u] = outbox[u]
    PROVE  Contract!Settle(t, st)
  <1>1. abstract[t] = "claimed" /\ ContractState(t)' = st /\ owed[t] = "none" /\ ContractNotice(t)' = "owed"
    BY DEF abstract, owed, ContractState, ContractNotice, Claimable
  <1>2. abstract' = [abstract EXCEPT ![t] = st]
    BY <1>1, OneState
  <1>3. \A u \in Tickets : ContractNotice(u)' = IF u = t THEN "owed" ELSE ContractNotice(u)
    BY <1>1, SameNotice
  <1>4. owed' = [owed EXCEPT ![t] = "owed"]
    BY <1>3 DEF owed
  <1> QED
    BY <1>1, <1>2, <1>4 DEF Contract!Settle, abstract, owed

LEMMA SilencingIsSuppress ==
    ASSUME NEW t \in Tickets, UNCHANGED ticket, ticket[t].status = "failed", outbox[t] = "pending", outbox'[t] = "none",
           \A u \in Tickets : u # t => ContractNotice(u)' = ContractNotice(u)
    PROVE  Contract!Suppress(t)
  <1>1. abstract[t] = "failed" /\ owed[t] = "owed" /\ ContractNotice(t)' = "none"
    BY DEF abstract, owed, ContractState, ContractNotice, Claimable
  <1>2. abstract' = abstract
    BY SameState DEF abstract
  <1>3. owed' = [owed EXCEPT ![t] = "none"]
    BY <1>1 DEF owed
  <1> QED
    BY <1>1, <1>2, <1>3 DEF Contract!Suppress, abstract, owed

LEMMA RevokingIsCancel ==
    ASSUME TicketStoreTypeOK, NEW s \in Sessions, RevokeSession(s)
    PROVE  Contract!Cancel(s)
  <1>1. ASSUME NEW t \in Tickets
        PROVE  ContractState(t)' = IF Owner[t] = s /\ ContractState(t) \in Contract!Live THEN "cancelled"
                                   ELSE ContractState(t)
    <2>1. t \in Owned(s) <=> Owner[t] = s
      BY DEF Owned
    <2>2. ContractState(t) \in Contract!Live <=> ticket[t].status \in Claimable \cup {"running"}
      <3>1. ticket[t].status \in Status
        BY RowFields DEF TicketStoreTypeOK
      <3> QED
        BY <3>1 DEF ContractState, Contract!Live, Status, Claimable, Terminal
    <2>3. CASE t \in Owned(s) /\ ticket[t].status \in Claimable \cup {"running"}
      <3>1. ticket'[t].status = "cancelled"
        BY <2>3, RevokeRows DEF Became
      <3>2. ContractState(t)' = "cancelled"
        BY <3>1 DEF ContractState, Claimable
      <3> QED
        BY <2>1, <2>2, <2>3, <3>2
    <2>4. CASE ~(t \in Owned(s) /\ ticket[t].status \in Claimable \cup {"running"})
      <3>1. ContractState(t)' = ContractState(t)
        BY <2>4, RevokeRows, SameState
      <3> QED
        BY <2>1, <2>2, <2>4, <3>1
    <2> QED
      BY <2>3, <2>4
  <1>2. ASSUME NEW t \in Tickets
        PROVE  ContractNotice(t)' = IF Owner[t] = s /\ ContractNotice(t) = "owed" THEN "none" ELSE ContractNotice(t)
    <2>1. outbox'[t] = IF Owner[t] = s /\ outbox[t] \in {"pending", "scheduled"} THEN "none" ELSE outbox[t]
      BY RevokeRows DEF Owned
    <2>2. outbox[t] \in OutboxState
      BY DEF TicketStoreTypeOK
    <2> QED
      BY <2>1, <2>2 DEF ContractNotice, OutboxState
  <1>3. abstract' = [t \in Tickets |-> IF Owner[t] = s /\ abstract[t] \in Contract!Live THEN "cancelled" ELSE abstract[t]]
    BY <1>1 DEF abstract
  <1>4. owed' = [t \in Tickets |-> IF Owner[t] = s /\ owed[t] = "owed" THEN "none" ELSE owed[t]]
    BY <1>2 DEF owed
  <1> QED
    BY <1>3, <1>4 DEF Contract!Cancel, abstract, owed

ContractStep == [Contract!Next]_(Contract!contractVars)

LEMMA ContractSteps ==
    /\ \A t \in Tickets :
          Contract!Submit(t) \/ Contract!Take(t) \/ Contract!Suppress(t)
          \/ Contract!Settle(t, "completed") \/ Contract!Settle(t, "failed") => ContractStep
    /\ \A S \in SUBSET Tickets : Contract!Release(S) => ContractStep
    /\ \A s \in Sessions : Contract!Cancel(s) => ContractStep
    /\ UNCHANGED Contract!contractVars => ContractStep
  BY DEF ContractStep, Contract!Next

LEMMA FailureRefines ==
    ASSUME TicketStoreTypeOK, OutboxFits, NEW t \in Tickets, NEW class \in FailureClass,
           FailAttempt(CurrentLease(t), class)
    PROVE  ContractStep
  <1>a. outbox[t] = "none" /\ ticket[t].status = "running"
    BY FailRows DEF OutboxFits
  <1>1. CASE Retryable(t, class)
    <2>1. Others(t) /\ UNCHANGED outbox /\ ticket'[t].status = "waiting"
      BY <1>1, FailRows DEF Became
    <2>2. Contract!Release({t})
      BY <1>a, <2>1, FreeingIsRelease DEF Others
    <2> QED
      BY <2>2, ContractSteps
  <1>2. CASE ~Retryable(t, class)
    <2>1. /\ Others(t) /\ \A u \in Tickets : u # t => outbox'[u] = outbox[u]
          /\ ticket'[t].status = "failed" /\ outbox'[t] = "pending"
      BY <1>a, <1>2, FailRows DEF Became
    <2>2. Contract!Settle(t, "failed")
      BY <1>a, <2>1, EndIsSettle
    <2> QED
      BY <2>2, ContractSteps
  <1> QED
    BY <1>1, <1>2

LEMMA IdleRefines ==
    ASSUME UNCHANGED storeVars
    PROVE  ContractStep
  BY StutterStep, SameNotice, ContractSteps DEF storeVars

LEMMA ReconciledRefines ==
    ASSUME TicketStoreTypeOK, OutboxFits, NEW t \in Tickets, Reconciled(t)
    PROVE  ContractStep
  <1>1. CASE Complete(CurrentLease(t))
    <2>1. /\ Others(t) /\ \A u \in Tickets : u # t => outbox'[u] = outbox[u]
          /\ ticket[t].status = "running" /\ ticket'[t].status = "completed"
          /\ outbox[t] = "none" /\ outbox'[t] = "pending"
      BY <1>1, CompleteRows DEF Became, OutboxFits
    <2>2. Contract!Settle(t, "completed")
      BY <2>1, EndIsSettle
    <2> QED
      BY <2>2, ContractSteps
  <1>2. ASSUME NEW class \in FailureClass, FailAttempt(CurrentLease(t), class)
        PROVE  ContractStep
    BY <1>2, FailureRefines
  <1>3. CASE UNCHANGED storeVars
    BY <1>3, IdleRefines
  <1> QED
    BY <1>1, <1>2, <1>3 DEF Reconciled, FailureClass, Heartbeat

\* The row of a failed Ticket goes, whether by the tick or by the restart, and
\* no other notice does.
LEMMA SilenceRefines ==
    ASSUME LaneInv, UNCHANGED ticket, NEW t \in Tickets,
           \A u \in Tickets : u # t => ContractNotice(u)' = ContractNotice(u),
           IF t \in Unsilenced THEN outbox'[t] = "none" ELSE ContractNotice(t)' = ContractNotice(t)
    PROVE  ContractStep
  <1>1. CASE t \in Unsilenced
    <2>1. ticket[t].status = "failed" /\ outbox[t] = "pending" /\ outbox'[t] = "none"
      BY <1>1 DEF Unsilenced, LaneInv, FailureStaysSilent
    <2>2. Contract!Suppress(t)
      BY <2>1, SilencingIsSuppress
    <2> QED
      BY <2>2, ContractSteps
  <1>2. CASE t \notin Unsilenced
    BY <1>2, StutterStep, ContractSteps
  <1> QED
    BY <1>1, <1>2

LEMMA RestartRefines ==
    ASSUME LaneInv, Restart
    PROVE  ContractStep
  <1>1. UNCHANGED ticket /\ outbox \in [Tickets -> OutboxState]
    BY DEF Restart, LaneInv, TypeOK, TicketStoreTypeOK
  <1>2. ASSUME NEW u \in Tickets
        PROVE  IF u \in Unsilenced THEN outbox'[u] = "none" ELSE ContractNotice(u)' = ContractNotice(u)
    <2>1. CASE u \in Unsilenced
      <3>1. ticket[u].status = "failed" /\ outbox[u] = "pending"
        BY <2>1 DEF Unsilenced, LaneInv, FailureStaysSilent
      <3> QED
        BY <2>1, <3>1 DEF Restart
    <2>2. CASE u \notin Unsilenced
      <3>1. ticket[u].status = "failed" => outbox[u] = "none"
        BY <2>2 DEF Unsilenced
      <3>2. outbox'[u] = IF outbox[u] = "scheduled" THEN "pending" ELSE outbox[u]
        BY <3>1 DEF Restart
      <3> QED
        BY <2>2, <3>2, SameNotice
    <2> QED
      BY <2>1, <2>2
  <1>3. CASE Unsilenced = {}
    BY <1>1, <1>2, <1>3, StutterStep, ContractSteps
  <1>4. ASSUME NEW t \in Unsilenced
        PROVE  ContractStep
    <2>1. t \in Tickets /\ \A u \in Unsilenced : u = t
      BY <1>4 DEF Unsilenced, LaneInv, OutboxFits
    <2> QED
      BY <1>1, <1>2, <1>4, <2>1, SilenceRefines
  <1> QED
    BY <1>3, <1>4

LEMMA RefinesStep ==
    ASSUME LaneInv, [Next]_vars
    PROVE  ContractStep
  <1>a. /\ TicketStoreTypeOK /\ TypeOK /\ OutboxFits /\ SubjectFits /\ batch \subseteq Tickets
        /\ outbox \in [Tickets -> OutboxState]
    BY DEF LaneInv, TypeOK, TicketStoreTypeOK
  <1>0. CASE UNCHANGED storeVars
    BY <1>0, IdleRefines
  <1>1. CASE RecoverStep
    <2>1. Expired \in SUBSET Tickets /\ UNCHANGED outbox
      BY <1>1 DEF Expired, RecoverStep, RecoverExpired
    <2>2. \A t \in Expired : ticket[t].status = "running" /\ ticket'[t].status = "waiting"
      BY <1>a, <1>1, <2>1, RecoverRows DEF RecoverStep, Became
    <2>3. \A t \in Tickets \ Expired : ticket'[t].status = ticket[t].status
      BY <1>a, <1>1, RecoverRows DEF RecoverStep
    <2>4. Contract!Release(Expired)
      BY <2>1, <2>2, <2>3, FreeingIsRelease
    <2> QED
      BY <2>1, <2>4, ContractSteps
  <1>2. CASE ReconcileRow
    BY <1>a, <1>2, ReconciledRefines DEF ReconcileRow
  <1>3. CASE AdmitAndClaim
    <2>1. Oldest(batch) \in Tickets /\ Claim(Oldest(batch))
      BY <1>a, <1>3, OldestIsThere DEF AdmitAndClaim
    <2>2. Contract!Take(Oldest(batch))
      BY <1>a, <2>1, ClaimRows, ClaimIsTake DEF Became
    <2> QED
      BY <2>1, <2>2, ContractSteps
  <1>4. CASE LinkStep
    <2>1. subject \in Tickets /\ target \in Tickets
      BY <1>a, <1>4 DEF SubjectFits, LinkStep
    <2>2. CASE LinkWorkflow(CurrentLease(subject), target)
      <3>1. UNCHANGED outbox /\ \A t \in Tickets : ticket'[t].status = ticket[t].status
        BY <1>a, <2>1, <2>2, LinkRows DEF Others, Became
      <3> QED
        BY <3>1, StutterStep, SameNotice, ContractSteps
    <2> QED
      BY <1>0, <1>4, <2>2 DEF LinkStep
  <1>5. CASE FailLaunch
    BY <1>0, <1>a, <1>5, FailureRefines DEF FailLaunch, SubjectFits, FailureClass
  <1>6. CASE Silence
    <2>1. PICK t \in Tickets : SuppressFailedOutbox(t)
      BY <1>a, <1>6 DEF Silence, SubjectFits, Silencing
    <2>2. \A u \in Tickets : u # t => ContractNotice(u)' = ContractNotice(u)
      BY <1>a, <2>1, SameNotice DEF SuppressFailedOutbox
    <2>3. IF t \in Unsilenced THEN outbox'[t] = "none"
          ELSE ContractNotice(t)' = ContractNotice(t)
      <3>a. outbox'[t] = IF ticket[t].status = "failed" /\ outbox[t] \in {"pending", "scheduled"}
                               THEN "none" ELSE outbox[t]
        BY <1>a, <2>1 DEF SuppressFailedOutbox
      <3>1. CASE t \in Unsilenced
        <4>1. outbox[t] = "pending" /\ ticket[t].status = "failed"
          BY <3>1 DEF Unsilenced, LaneInv, FailureStaysSilent
        <4> QED
          BY <3>1, <3>a, <4>1
      <3>2. CASE t \notin Unsilenced
        <4>1. ticket[t].status = "failed" => outbox[t] = "none"
          BY <2>1, <3>2 DEF Unsilenced
        <4>2. outbox'[t] = outbox[t]
          BY <3>a, <4>1
        <4> QED
          BY <2>1, <3>2, <4>2, SameNotice
      <3> QED
        BY <3>1, <3>2
    <2>4. UNCHANGED ticket
      BY <2>1 DEF SuppressFailedOutbox
    <2> QED
      BY <2>1, <2>2, <2>3, <2>4, SilenceRefines
  <1>7. CASE ScheduleDelivery \/ SchedulingFails
    <2>1. PICK t \in Tickets : MarkOutboxScheduled(t) \/ MarkOutboxFailed(t)
      BY <1>a, <1>7 DEF ScheduleDelivery, SchedulingFails, SubjectFits
    <2>2. UNCHANGED ticket
      BY <2>1 DEF MarkOutboxScheduled, MarkOutboxFailed
    <2>3. \A u \in Tickets : \/ outbox'[u] = outbox[u]
                             \/ outbox[u] \in {"pending", "scheduled"} /\ outbox'[u] \in {"pending", "scheduled"}
      BY <1>a, <2>1 DEF MarkOutboxScheduled, MarkOutboxFailed
    <2> QED
      BY <2>2, <2>3, StutterStep, SameNotice, ContractSteps
  <1>8. ASSUME NEW t \in Tickets, Submit(t) \/ SubmitInterrupted(t)
        PROVE  ContractStep
    <2>1. Contract!Submit(t)
      BY <1>a, <1>8, SubmitRows, AcceptRows, SubmitIsSubmit DEF SubmitInterrupted, Became
    <2> QED
      BY <2>1, ContractSteps
  <1>9. ASSUME NEW s \in Sessions, StopSession(s)
        PROVE  ContractStep
    BY <1>a, <1>9, RevokingIsCancel, ContractSteps DEF StopSession
  <1>10. ASSUME NEW t \in Tickets, LeaseLapses(t)
         PROVE  ContractStep
    <2>1. UNCHANGED outbox /\ \A u \in Tickets : ticket'[u].status = ticket[u].status
      BY <1>a, <1>10, LapseRows DEF LeaseLapses, Others, Became
    <2> QED
      BY <2>1, StutterStep, SameNotice, ContractSteps
  <1>11. CASE Restart
    BY <1>11, RestartRefines
  <1>12. CASE StartTick \/ ReadReady \/ EndDispatch \/ ReuseWorkflow \/ StartOwnWorkflow \/ LaunchThrows
              \/ TurnScheduled \/ EndTick \/ Crash
    BY <1>0, <1>12 DEF StartTick, ReadReady, EndDispatch, ReuseWorkflow, StartOwnWorkflow, LaunchThrows,
                       TurnScheduled, EndTick, Crash, storeVars
  <1>13. ASSUME NEW t \in Tickets, DeliveryTurn(t) \/ CancelBoundWorkflow(t) \/ FlowEnds(t)
         PROVE  ContractStep
    BY <1>0, <1>13 DEF DeliveryTurn, CancelBoundWorkflow, FlowEnds, storeVars
  <1>14. CASE UNCHANGED vars
    BY <1>0, <1>14 DEF vars, storeVars
  <1> QED
    BY <1>1, <1>2, <1>3, <1>4, <1>5, <1>6, <1>7, <1>8, <1>9, <1>10, <1>11, <1>12, <1>13, <1>14
       DEF Next, Tick, Hook, Environment

LEMMA RefinesInit == Init => Contract!Init
  BY DEF Init, TicketStoreInit, Contract!Init, ContractState, ContractNotice, Claimable

\* The event loop keeps what the store promises: each of its steps, of a hook,
\* the engine, a crash or a restart is a step of TicketContract or none.
THEOREM LaneImplementsContract == Spec => ImplementsContract
  <1>1. LaneInv /\ [Next]_vars => [Contract!Next]_(Contract!contractVars)
    BY RefinesStep DEF ContractStep
  <1> QED
    BY LaneIsSafe, RefinesInit, <1>1, PTL DEF Spec, ImplementsContract, Contract!Spec

=============================================================================
