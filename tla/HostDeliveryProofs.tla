------------------------- MODULE HostDeliveryProofs -------------------------
(***************************************************************************)
(* The safety of Host delivery for any sessions, deliveries, flush         *)
(* processes and bounds: DeliveryInv is inductive, and the three action    *)
(* properties of HostDelivery follow from it.                              *)
(***************************************************************************)
EXTENDS HostDelivery, FiniteSetTheorems, TLAPS

-----------------------------------------------------------------------------
(* Counting who may still show a delivery. *)

\* What Control adds to the types is what the steps have to preserve.
Control ==
    /\ DeliveredWasShown /\ RowAndTicketAgree /\ FlushersWork /\ RowsAreOfTheirGeneration
    /\ TicketsFollowRows /\ VisibleWasShown /\ CopiesAreCovered

\* One element more counts at most one more.
LEMMA OneMore ==
    ASSUME NEW S, NEW T, NEW x, IsFiniteSet(T), S \subseteq T \cup {x}
    PROVE  /\ IsFiniteSet(S) /\ Cardinality(S) \in Nat /\ Cardinality(T) \in Nat
           /\ Cardinality(S) <= Cardinality(T) + 1
  <1>1. /\ IsFiniteSet(T \cup {x}) /\ Cardinality(T \cup {x}) \in Nat
        /\ Cardinality(T \cup {x}) <= Cardinality(T) + 1 /\ Cardinality(T) \in Nat
    <2>1. Cardinality(T) \in Nat
      BY FS_CardinalityType
    <2>2. CASE x \in T
      <3>1. T \cup {x} = T
        BY <2>2
      <3>2. IsFiniteSet(T \cup {x}) /\ Cardinality(T \cup {x}) = Cardinality(T)
        BY <3>1
      <3> QED
        BY <2>1, <3>2
    <2>3. CASE x \notin T
      <3>1. IsFiniteSet(T \cup {x}) /\ Cardinality(T \cup {x}) = Cardinality(T) + 1
        BY <2>3, FS_AddElement
      <3> QED
        BY <2>1, <3>1
    <2> QED
      BY <2>2, <2>3
  <1>2. IsFiniteSet(S) /\ Cardinality(S) <= Cardinality(T \cup {x})
    BY <1>1, FS_Subset
  <1>3. Cardinality(S) \in Nat
    BY <1>2, FS_CardinalityType
  <1> QED
    BY <1>1, <1>2, <1>3

\* A subset counts no more, and one that misses an element counts one less.
LEMMA NoMore ==
    ASSUME NEW S, NEW T, IsFiniteSet(T), S \subseteq T
    PROVE  /\ IsFiniteSet(S) /\ Cardinality(S) \in Nat /\ Cardinality(T) \in Nat
           /\ Cardinality(S) <= Cardinality(T)
  BY FS_Subset, FS_CardinalityType
LEMMA OneLess ==
    ASSUME NEW S, NEW T, NEW x \in T, IsFiniteSet(T), S \subseteq T \ {x}
    PROVE  /\ IsFiniteSet(S) /\ Cardinality(S) \in Nat /\ Cardinality(T) \in Nat
           /\ Cardinality(S) + 1 <= Cardinality(T)
  <1>1. /\ IsFiniteSet(T \ {x}) /\ Cardinality(T \ {x}) = Cardinality(T) - 1
        /\ Cardinality(T) \in Nat
    BY FS_RemoveElement, FS_CardinalityType
  <1>2. IsFiniteSet(S) /\ Cardinality(S) <= Cardinality(T \ {x})
    BY <1>1, FS_Subset
  <1>3. Cardinality(S) \in Nat
    BY <1>2, FS_CardinalityType
  <1> QED
    BY <1>1, <1>2, <1>3

\* Only flush processes, the native run and the gateway can show a delivery.
LEMMA CountsAreFinite ==
    ASSUME NEW d
    PROVE  IsFiniteSet(Exposed(d)) /\ IsFiniteSet(Strays(d))
  <1>1. IsFiniteSet(Flushers \cup {Native} \cup {None})
    BY HostDeliveryAssumption, FS_AddElement
  <1>2. /\ Exposed(d) \subseteq Flushers \cup {Native} \cup {None}
        /\ Strays(d) \subseteq Flushers \cup {Native} \cup {None}
    BY DEF Exposed, Strays, Showing, Looking
  <1> QED
    BY <1>1, <1>2, FS_Subset

\* The numbers are numbers.
LEMMA ExcusesAreNat ==
    ASSUME NEW f \in FaultCount
    PROVE  f.pauses + f.lates + f.scrolls \in Nat
  BY HostDeliveryAssumption DEF FaultCount

\* The books of d stay balanced when nobody new may show it,
LEMMA CoveredStays ==
    ASSUME TypeOK, TypeOK', NEW d \in Deliveries, Covered(d),
           copies'[d] = copies[d], Excuses' >= Excuses,
           Exposed(d)' \subseteq Exposed(d),
           Unseen(d)' => Unseen(d) /\ Strays(d)' \subseteq Strays(d)
    PROVE  Covered(d)'
  <1> DEFINE E == Exposed(d) F == Exposed(d)' S == Strays(d) T == Strays(d)'
             n == copies[d] x == Excuses y == Excuses'
  <1>1. IsFiniteSet(E) /\ IsFiniteSet(S)
    BY CountsAreFinite
  <1>2. n \in Nat /\ x \in Nat /\ y \in Nat
    BY ExcusesAreNat DEF TypeOK, Excuses
  <1>3. Cardinality(F) \in Nat /\ Cardinality(E) \in Nat /\ Cardinality(F) <= Cardinality(E)
    BY <1>1, NoMore
  <1>4. n + Cardinality(E) <= 1 + x /\ y >= x
    BY DEF Covered
  <1>5. n + Cardinality(F) <= 1 + y
    <2> HIDE DEF E, F, n, x, y
    <2> QED
      BY <1>2, <1>3, <1>4
  <1>6. ASSUME Unseen(d)'
        PROVE  n + Cardinality(T) <= y
    <2>1. Cardinality(T) \in Nat /\ Cardinality(S) \in Nat /\ Cardinality(T) <= Cardinality(S)
      BY <1>1, <1>6, NoMore
    <2>2. n + Cardinality(S) <= x /\ y >= x
      BY <1>6 DEF Covered
    <2> HIDE DEF S, T, n, x, y
    <2> QED
      BY <1>2, <2>1, <2>2
  <1> QED
    BY <1>5, <1>6 DEF Covered

\* when one of those who may shows it,
LEMMA CoveredShows ==
    ASSUME TypeOK, TypeOK', NEW d \in Deliveries, Covered(d), NEW z \in Exposed(d),
           copies'[d] = copies[d] + 1, Excuses' >= Excuses, d \in visible',
           Exposed(d)' \subseteq Exposed(d) \ {z}
    PROVE  Covered(d)'
  <1> DEFINE E == Exposed(d) F == Exposed(d)' n == copies[d] x == Excuses y == Excuses'
  <1>1. IsFiniteSet(E)
    BY CountsAreFinite
  <1>2. n \in Nat /\ x \in Nat /\ y \in Nat
    BY ExcusesAreNat DEF TypeOK, Excuses
  <1>3. Cardinality(F) \in Nat /\ Cardinality(E) \in Nat /\ Cardinality(F) + 1 <= Cardinality(E)
    BY <1>1, OneLess
  <1>4. n + Cardinality(E) <= 1 + x /\ y >= x
    BY DEF Covered
  <1>5. n + 1 + Cardinality(F) <= 1 + y
    <2> HIDE DEF E, F, n, x, y
    <2> QED
      BY <1>2, <1>3, <1>4
  <1> QED
    BY <1>5 DEF Covered, Unseen

\* when a fault excuses one more who may,
LEMMA CoveredByFault ==
    ASSUME TypeOK, TypeOK', NEW d \in Deliveries, Covered(d), NEW z,
           copies'[d] = copies[d], Excuses' = Excuses + 1,
           Exposed(d)' \subseteq Exposed(d) \cup {z},
           Unseen(d)' =>
               \/ Strays(d)' \subseteq Exposed(d)
               \/ Unseen(d) /\ Strays(d)' \subseteq Strays(d) \cup {z}
    PROVE  Covered(d)'
  <1> DEFINE E == Exposed(d) F == Exposed(d)' S == Strays(d) T == Strays(d)'
             n == copies[d] x == Excuses y == Excuses'
  <1>1. IsFiniteSet(E) /\ IsFiniteSet(S)
    BY CountsAreFinite
  <1>2. n \in Nat /\ x \in Nat /\ y = x + 1
    BY ExcusesAreNat DEF TypeOK, Excuses
  <1>3. Cardinality(F) \in Nat /\ Cardinality(E) \in Nat /\ Cardinality(F) <= Cardinality(E) + 1
    BY <1>1, OneMore
  <1>4. n + Cardinality(E) <= 1 + x
    BY DEF Covered
  <1>5. n + Cardinality(F) <= 1 + y
    <2> HIDE DEF E, F, n, x, y
    <2> QED
      BY <1>2, <1>3, <1>4
  <1>6. ASSUME Unseen(d)'
        PROVE  n + Cardinality(T) <= y
    <2>1. CASE T \subseteq E
      <3>1. Cardinality(T) \in Nat /\ Cardinality(T) <= Cardinality(E)
        BY <1>1, <2>1, NoMore
      <3> HIDE DEF E, T, n, x, y
      <3> QED
        BY <1>2, <1>3, <1>4, <3>1
    <2>2. CASE Unseen(d) /\ T \subseteq S \cup {z}
      <3>1. Cardinality(T) \in Nat /\ Cardinality(S) \in Nat /\ Cardinality(T) <= Cardinality(S) + 1
        BY <1>1, <2>2, OneMore
      <3>2. n + Cardinality(S) <= x
        BY <2>2 DEF Covered
      <3> HIDE DEF S, T, n, x, y
      <3> QED
        BY <1>2, <3>1, <3>2
    <2> QED
      BY <1>6, <2>1, <2>2
  <1> QED
    BY <1>5, <1>6 DEF Covered

\* and when the holder of the claim is the one that may show it.
LEMMA CoveredByHolder ==
    ASSUME TypeOK, TypeOK', NEW d \in Deliveries, Covered(d), NEW z,
           copies'[d] = copies[d], Excuses' >= Excuses, Unseen(d),
           Exposed(d)' \subseteq Strays(d) \cup {z},
           Unseen(d)' => Strays(d)' \subseteq Strays(d)
    PROVE  Covered(d)'
  <1> DEFINE F == Exposed(d)' S == Strays(d) T == Strays(d)' n == copies[d] x == Excuses y == Excuses'
  <1>1. IsFiniteSet(S)
    BY CountsAreFinite
  <1>2. n \in Nat /\ x \in Nat /\ y \in Nat /\ y >= x
    BY ExcusesAreNat DEF TypeOK, Excuses
  <1>3. Cardinality(F) \in Nat /\ Cardinality(S) \in Nat /\ Cardinality(F) <= Cardinality(S) + 1
    BY <1>1, OneMore
  <1>4. n + Cardinality(S) <= x
    BY DEF Covered
  <1>5. n + Cardinality(F) <= 1 + y
    <2> HIDE DEF F, S, n, x, y
    <2> QED
      BY <1>2, <1>3, <1>4
  <1>6. ASSUME Unseen(d)'
        PROVE  n + Cardinality(T) <= y
    <2>1. Cardinality(T) \in Nat /\ Cardinality(T) <= Cardinality(S)
      BY <1>1, <1>6, NoMore
    <2> HIDE DEF S, T, n, x, y
    <2> QED
      BY <1>2, <1>3, <1>4, <2>1
  <1> QED
    BY <1>5, <1>6 DEF Covered

\* A delivery that enters the table has not been shown.
LEMMA CoveredAtFirst ==
    ASSUME TypeOK', NEW d \in Deliveries, copies'[d] = 0,
           Exposed(d)' \subseteq {Native}, Strays(d)' = {}
    PROVE  Covered(d)'
  <1>1. Excuses' \in Nat
    BY ExcusesAreNat DEF TypeOK, Excuses
  <1>2. IsFiniteSet({}) /\ Cardinality({}) = 0
    BY FS_EmptySet
  <1>3. Cardinality(Exposed(d)') \in Nat /\ Cardinality(Exposed(d)') <= 0 + 1
    BY <1>2, OneMore
  <1>4. Cardinality(Strays(d)') = 0
    BY <1>2
  <1> QED
    BY <1>1, <1>3, <1>4 DEF Covered

-----------------------------------------------------------------------------
(* What the shared parts of the steps do, field by field. *)

\* The process f goes to a place, on a delivery or on none.
Moves(f, place, d) ==
    /\ flush'[f].at = place /\ flush'[f].on = d
    /\ \A g \in Flushers \ {f} : flush'[g] = flush[g]

\* A row enters the table, its claim changes, or rows leave the queue.
Enters(d, holder, lease) ==
    /\ row'[d].status = "pending" /\ row'[d].gen = session[SessionOf[d]].gen
    /\ row'[d].holder = holder /\ row'[d].lease = lease
    /\ \A e \in Deliveries \ {d} : row'[e] = row[e] /\ ahead'[e] = ahead[e]
Takes(d, holder, lease) ==
    /\ row'[d].status = row[d].status /\ row'[d].gen = row[d].gen
    /\ row'[d].holder = holder /\ row'[d].lease = lease
    /\ \A e \in Deliveries \ {d} : row'[e] = row[e]
Leaves(D, status) ==
    /\ \A d \in D : /\ row'[d].status = status /\ row'[d].gen = row[d].gen
                    /\ row'[d].holder = None /\ row'[d].lease = "none"
    /\ \A d \in Deliveries \ D : row'[d] = row[d]
    /\ \A d \in Deliveries : ahead'[d] \subseteq ahead[d]

\* One more message.
Shows(d) ==
    /\ copies'[d] = copies[d] + 1
    /\ \A e \in Deliveries \ {d} : copies'[e] = copies[e]
    /\ visible' = visible \cup {d}

Idle == [at |-> "idle", on |-> None, blocked |-> {}]

LEMMA FlushGoes ==
    ASSUME NEW r \in FlushState, NEW p \in Places
    PROVE  /\ [r EXCEPT !.at = p] \in FlushState
           /\ [r EXCEPT !.at = p].at = p /\ [r EXCEPT !.at = p].on = r.on
  BY DEF FlushState
Turned(r, place, d) == [r EXCEPT !.at = place, !.on = d]
LEMMA FlushTurns ==
    ASSUME NEW r \in FlushState, NEW p \in Places, NEW d \in Deliveries \cup {None}
    PROVE  Turned(r, p, d) \in FlushState /\ Turned(r, p, d).at = p /\ Turned(r, p, d).on = d
  BY DEF FlushState, Turned

LEMMA GotoMoves ==
    ASSUME flush \in [Flushers -> FlushState], NEW f \in Flushers, NEW p \in Places, Goto(f, p)
    PROVE  flush' \in [Flushers -> FlushState] /\ Moves(f, p, flush[f].on)
  <1>0. flush[f] \in FlushState
    OBVIOUS
  <1>1. flush' = [flush EXCEPT ![f] = [flush[f] EXCEPT !.at = p]]
    BY DEF Goto
  <1>2. /\ [flush[f] EXCEPT !.at = p] \in FlushState
        /\ [flush[f] EXCEPT !.at = p].at = p /\ [flush[f] EXCEPT !.at = p].on = flush[f].on
    BY <1>0, FlushGoes
  <1> QED
    BY <1>1, <1>2 DEF Moves
\* The process f takes up d, or puts it down.
Turns(f, p, d) == flush' = [flush EXCEPT ![f].at = p, ![f].on = d]
LEMMA TurnMoves ==
    ASSUME flush \in [Flushers -> FlushState], NEW f \in Flushers, NEW p \in Places,
           NEW d \in Deliveries \cup {None}, Turns(f, p, d)
    PROVE  flush' \in [Flushers -> FlushState] /\ Moves(f, p, d)
  <1>0. flush[f] \in FlushState
    OBVIOUS
  <1>1. flush' = [flush EXCEPT ![f] = Turned(flush[f], p, d)]
    BY DEF Turns, Turned
  <1>2. /\ Turned(flush[f], p, d) \in FlushState
        /\ Turned(flush[f], p, d).at = p /\ Turned(flush[f], p, d).on = d
    BY <1>0, FlushTurns
  <1> QED
    BY <1>1, <1>2 DEF Moves
LEMMA NextItemMoves ==
    ASSUME flush \in [Flushers -> FlushState], NEW f \in Flushers, NextItem(f)
    PROVE  flush' \in [Flushers -> FlushState] /\ Moves(f, "claim", None)
  BY TurnMoves DEF NextItem, Turns, Places
LEMMA RestMoves ==
    ASSUME flush \in [Flushers -> FlushState], NEW f \in Flushers, NEW B \in SUBSET Sessions, NEW p \in Places,
           flush' = [flush EXCEPT ![f] = [at |-> p, on |-> None, blocked |-> B]]
    PROVE  flush' \in [Flushers -> FlushState] /\ Moves(f, p, None)
  <1>1. [at |-> p, on |-> None, blocked |-> B] \in FlushState
    BY DEF FlushState
  <1> QED
    BY <1>1 DEF Moves

LEMMA InsertEnters ==
    ASSUME TypeOK, NEW d \in Deliveries, NEW h \in Flushers \cup {Native, None}, NEW l \in {"none", "live", "lapsed"},
           Insert(d, h, l)
    PROVE  /\ row' \in [Deliveries -> DeliveryRow] /\ ahead' \in [Deliveries -> SUBSET Deliveries]
           /\ Enters(d, h, l)
  <1> DEFINE g == session[SessionOf[d]].gen
             r == [status |-> "pending", gen |-> g, holder |-> h, lease |-> l, cooling |-> FALSE]
             E == {e \in Deliveries : Pending(e) /\ SessionOf[e] = SessionOf[d]}
  <1>1. g \in Nat
    BY HostDeliveryAssumption DEF TypeOK, SessionRow
  <1>2. r \in DeliveryRow /\ r.status = "pending" /\ r.gen = g /\ r.holder = h /\ r.lease = l
    BY <1>1 DEF DeliveryRow
  <1>3. row \in [Deliveries -> DeliveryRow] /\ ahead \in [Deliveries -> SUBSET Deliveries]
    BY DEF TypeOK
  <1>4. row' = [row EXCEPT ![d] = r] /\ ahead' = [ahead EXCEPT ![d] = E]
    BY DEF Insert
  <1>5. E \in SUBSET Deliveries
    OBVIOUS
  <1> HIDE DEF r, E, g
  <1>6. row' \in [Deliveries -> DeliveryRow] /\ ahead' \in [Deliveries -> SUBSET Deliveries]
    BY <1>2, <1>3, <1>4, <1>5
  <1>7. row'[d] = r /\ \A e \in Deliveries \ {d} : row'[e] = row[e] /\ ahead'[e] = ahead[e]
    BY <1>3, <1>4
  <1> QED
    BY <1>2, <1>6, <1>7 DEF Enters, g

LEMMA DequeueLeaves ==
    ASSUME TypeOK, NEW D \in SUBSET Deliveries, NEW st \in {"absent", "delivered"}, Dequeue(D, st)
    PROVE  /\ row' \in [Deliveries -> DeliveryRow] /\ ahead' \in [Deliveries -> SUBSET Deliveries]
           /\ Leaves(D, st)
  <1>1. row \in [Deliveries -> DeliveryRow] /\ ahead \in [Deliveries -> SUBSET Deliveries]
    BY DEF TypeOK
  <1> DEFINE gone(d) == [NoRow EXCEPT !.status = st, !.gen = row[d].gen]
  <1>2. ASSUME NEW d \in Deliveries
        PROVE  gone(d) \in DeliveryRow /\ gone(d).status = st /\ gone(d).gen = row[d].gen
               /\ gone(d).holder = None /\ gone(d).lease = "none"
    <2>1. row[d].gen \in Nat \cup {NoGeneration}
      BY <1>1 DEF DeliveryRow
    <2> QED
      BY <2>1 DEF DeliveryRow, NoRow
  <1>3. /\ row' = [d \in Deliveries |-> IF d \in D THEN gone(d) ELSE row[d]]
        /\ ahead' = [d \in Deliveries |-> IF d \in D THEN {} ELSE ahead[d] \ D]
    BY DEF Dequeue
  <1> HIDE DEF gone
  <1>4. row' \in [Deliveries -> DeliveryRow] /\ ahead' \in [Deliveries -> SUBSET Deliveries]
    BY <1>1, <1>2, <1>3
  <1>5. /\ \A d \in D : row'[d] = gone(d)
        /\ \A d \in Deliveries \ D : row'[d] = row[d]
        /\ \A d \in Deliveries : ahead'[d] \subseteq ahead[d]
    BY <1>3
  <1> QED
    BY <1>2, <1>4, <1>5 DEF Leaves

LEMMA ShowShows ==
    ASSUME TypeOK, NEW d \in Deliveries, Show(d)
    PROVE  copies' \in [Deliveries -> Nat] /\ visible' \subseteq Deliveries /\ Shows(d)
  BY DEF TypeOK, Show, Shows

\* A claim changes hands.
Claimed(r, holder) == [r EXCEPT !.holder = holder, !.lease = "live"]
LEMMA RowClaims ==
    ASSUME NEW r \in DeliveryRow, NEW h \in Flushers
    PROVE  /\ Claimed(r, h) \in DeliveryRow /\ Claimed(r, h).holder = h /\ Claimed(r, h).lease = "live"
           /\ Claimed(r, h).status = r.status /\ Claimed(r, h).gen = r.gen
  BY DEF DeliveryRow, Claimed

LEMMA RowCools ==
    ASSUME NEW r \in DeliveryRow, NEW c \in BOOLEAN
    PROVE  /\ [r EXCEPT !.cooling = c] \in DeliveryRow
           /\ [r EXCEPT !.cooling = c].holder = r.holder
           /\ [r EXCEPT !.cooling = c].lease = r.lease
           /\ [r EXCEPT !.cooling = c].status = r.status
           /\ [r EXCEPT !.cooling = c].gen = r.gen
  BY DEF DeliveryRow
LEMMA RowLapses ==
    ASSUME NEW r \in DeliveryRow, NEW l \in {"none", "live", "lapsed"}
    PROVE  /\ [r EXCEPT !.lease = l] \in DeliveryRow
           /\ [r EXCEPT !.lease = l].holder = r.holder
           /\ [r EXCEPT !.lease = l].lease = l
           /\ [r EXCEPT !.lease = l].status = r.status
           /\ [r EXCEPT !.lease = l].gen = r.gen
  BY DEF DeliveryRow
LEMMA RowReleases ==
    ASSUME NEW r \in DeliveryRow, NEW c \in BOOLEAN
    PROVE  /\ [r EXCEPT !.holder = None, !.lease = "none", !.cooling = c] \in DeliveryRow
           /\ [r EXCEPT !.holder = None, !.lease = "none", !.cooling = c].holder = None
           /\ [r EXCEPT !.holder = None, !.lease = "none", !.cooling = c].lease = "none"
           /\ [r EXCEPT !.holder = None, !.lease = "none", !.cooling = c].status = r.status
           /\ [r EXCEPT !.holder = None, !.lease = "none", !.cooling = c].gen = r.gen
  BY DEF DeliveryRow
Claims(d, f) == row' = [row EXCEPT ![d].holder = f, ![d].lease = "live"]
LEMMA ClaimTakes ==
    ASSUME row \in [Deliveries -> DeliveryRow], NEW d \in Deliveries, NEW f \in Flushers, Claims(d, f)
    PROVE  row' \in [Deliveries -> DeliveryRow] /\ Takes(d, f, "live")
  <1> DEFINE r == Claimed(row[d], f)
  <1>0. row[d] \in DeliveryRow
    OBVIOUS
  <1>1. row' = [row EXCEPT ![d] = r]
    BY DEF Claims, Claimed
  <1>2. r \in DeliveryRow /\ r.holder = f /\ r.lease = "live" /\ r.status = row[d].status /\ r.gen = row[d].gen
    BY <1>0, RowClaims
  <1> HIDE DEF r
  <1> QED
    BY <1>1, <1>2 DEF Takes
LEMMA LapseTakes ==
    ASSUME row \in [Deliveries -> DeliveryRow], NEW d \in Deliveries,
           row' = [row EXCEPT ![d].lease = "lapsed"]
    PROVE  row' \in [Deliveries -> DeliveryRow] /\ Takes(d, row[d].holder, "lapsed")
  <1> DEFINE r == [row[d] EXCEPT !.lease = "lapsed"]
  <1>0. row[d] \in DeliveryRow
    OBVIOUS
  <1>1. row' = [row EXCEPT ![d] = r]
    OBVIOUS
  <1>2. r \in DeliveryRow /\ r.holder = row[d].holder /\ r.lease = "lapsed" /\ r.status = row[d].status
        /\ r.gen = row[d].gen
    BY <1>0, RowLapses
  <1> HIDE DEF r
  <1> QED
    BY <1>1, <1>2 DEF Takes
LEMMA CoolTakes ==
    ASSUME row \in [Deliveries -> DeliveryRow], NEW d \in Deliveries,
           row' = [row EXCEPT ![d].cooling = FALSE]
    PROVE  row' \in [Deliveries -> DeliveryRow] /\ Takes(d, row[d].holder, row[d].lease)
  <1> DEFINE r == [row[d] EXCEPT !.cooling = FALSE]
  <1>0. row[d] \in DeliveryRow
    OBVIOUS
  <1>1. row' = [row EXCEPT ![d] = r]
    OBVIOUS
  <1>2. r \in DeliveryRow /\ r.holder = row[d].holder /\ r.lease = row[d].lease /\ r.status = row[d].status
        /\ r.gen = row[d].gen
    BY <1>0, RowCools
  <1> HIDE DEF r
  <1> QED
    BY <1>1, <1>2 DEF Takes
LEMMA ReleaseTakes ==
    ASSUME row \in [Deliveries -> DeliveryRow], NEW d \in Deliveries, NEW c \in BOOLEAN, Release(d, c)
    PROVE  row' \in [Deliveries -> DeliveryRow] /\ Takes(d, None, "none")
  <1> DEFINE r == [row[d] EXCEPT !.holder = None, !.lease = "none", !.cooling = c]
  <1>0. row[d] \in DeliveryRow
    OBVIOUS
  <1>1. row' = [row EXCEPT ![d] = r]
    BY DEF Release
  <1>2. r \in DeliveryRow /\ r.holder = None /\ r.lease = "none" /\ r.status = row[d].status
        /\ r.gen = row[d].gen
    BY <1>0, RowReleases
  <1> HIDE DEF r
  <1> QED
    BY <1>1, <1>2 DEF Takes

\* The faults of each kind.
LEMMA FaultPauses ==
    ASSUME NEW f \in FaultCount, f.pauses < MaxPauses
    PROVE  /\ [f EXCEPT !.pauses = f.pauses + 1] \in FaultCount
           /\ [f EXCEPT !.pauses = f.pauses + 1].pauses = f.pauses + 1
           /\ [f EXCEPT !.pauses = f.pauses + 1].lates = f.lates
           /\ [f EXCEPT !.pauses = f.pauses + 1].scrolls = f.scrolls
  BY HostDeliveryAssumption DEF FaultCount
LEMMA FaultLates ==
    ASSUME NEW f \in FaultCount, f.lates < MaxLates
    PROVE  /\ [f EXCEPT !.lates = f.lates + 1] \in FaultCount
           /\ [f EXCEPT !.lates = f.lates + 1].pauses = f.pauses
           /\ [f EXCEPT !.lates = f.lates + 1].lates = f.lates + 1
           /\ [f EXCEPT !.lates = f.lates + 1].scrolls = f.scrolls
  BY HostDeliveryAssumption DEF FaultCount
LEMMA FaultScrolls ==
    ASSUME NEW f \in FaultCount, f.scrolls < MaxScrolls
    PROVE  /\ [f EXCEPT !.scrolls = f.scrolls + 1] \in FaultCount
           /\ [f EXCEPT !.scrolls = f.scrolls + 1].pauses = f.pauses
           /\ [f EXCEPT !.scrolls = f.scrolls + 1].lates = f.lates
           /\ [f EXCEPT !.scrolls = f.scrolls + 1].scrolls = f.scrolls + 1
  BY HostDeliveryAssumption DEF FaultCount
LEMMA FaultCrashes ==
    ASSUME NEW f \in FaultCount, f.crashes < MaxCrashes
    PROVE  /\ [f EXCEPT !.crashes = f.crashes + 1] \in FaultCount
           /\ [f EXCEPT !.crashes = f.crashes + 1].pauses = f.pauses
           /\ [f EXCEPT !.crashes = f.crashes + 1].lates = f.lates
           /\ [f EXCEPT !.crashes = f.crashes + 1].scrolls = f.scrolls
  BY HostDeliveryAssumption DEF FaultCount


\* A session changes its state within its generation.
LEMMA SessionStates ==
    ASSUME NEW r \in SessionRow, NEW t \in {"active", "deleting", "deleted"}
    PROVE  [r EXCEPT !.state = t] \in SessionRow /\ [r EXCEPT !.state = t].gen = r.gen
  BY DEF SessionRow
LEMMA LifecycleMoves ==
    ASSUME session \in [Sessions -> SessionRow], NEW s \in Sessions, FollowLifecycle(s)
    PROVE  /\ session' \in [Sessions -> SessionRow] /\ session[s].state # "active"
           /\ \A t \in Sessions : session'[t].gen = session[t].gen
           /\ \A t \in Sessions \ {s} : session'[t] = session[t]
  <1>1. session[s] \in SessionRow /\ session[s].state # "active"
    BY DEF FollowLifecycle
  <1>2. PICK t \in {"deleted", "active"} : session' = [session EXCEPT ![s].state = t]
    BY DEF FollowLifecycle
  <1> DEFINE r == [session[s] EXCEPT !.state = t]
  <1>3. session' = [session EXCEPT ![s] = r]
    BY <1>2
  <1>4. r \in SessionRow /\ r.gen = session[s].gen
    BY <1>1, SessionStates
  <1> HIDE DEF r
  <1> QED
    BY <1>1, <1>3, <1>4

\* When the generation of s passes, no row is of the new one.
LEMMA GenerationPasses ==
    ASSUME TypeOK, RowsAreOfTheirGeneration, NEW s \in Sessions, NEW e \in Deliveries,
           session'[s].gen = session[s].gen + 1, \A t \in Sessions \ {s} : session'[t] = session[t]
    PROVE  /\ row[e].gen <= session'[SessionOf[e]].gen
           /\ SessionOf[e] = s => row[e].gen # session'[SessionOf[e]].gen
  <1>1. row[e].gen <= session[SessionOf[e]].gen
    BY DEF RowsAreOfTheirGeneration, RowIsOfItsGeneration
  <1>2. SessionOf[e] \in Sessions /\ session[SessionOf[e]].gen \in Nat
    BY HostDeliveryAssumption DEF TypeOK, SessionRow
  <1>3. row[e].gen \in Int
    BY DEF TypeOK, DeliveryRow, NoGeneration
  <1>4. CASE SessionOf[e] = s
    BY <1>1, <1>2, <1>3, <1>4
  <1>5. CASE SessionOf[e] # s
    BY <1>1, <1>2, <1>5
  <1> QED
    BY <1>4, <1>5

-----------------------------------------------------------------------------
(* The steps. *)

\* A native run ends and leaves its row as it is.
RunEnds(d) == run[d] \in {"running", "staged", "appended"} /\ run' = [run EXCEPT ![d] = "ended"]
LEMMA RunEndsKeeps ==
    ASSUME TypeOK, Control, NEW d \in Direct, RunEnds(d),
           UNCHANGED <<session, ticket, row, ahead, notice, copies, visible, flush, late, faults>>
    PROVE  TypeOK' /\ Control'
  <1>a. /\ session \in [Sessions -> SessionRow] /\ ticket \in [Direct -> TicketStates]
        /\ run \in [Direct -> RunStates]
        /\ row \in [Deliveries -> DeliveryRow] /\ ahead \in [Deliveries -> SUBSET Deliveries]
        /\ notice \in [Wakes -> {"pending", "delivered"}] /\ copies \in [Deliveries -> Nat]
        /\ visible \subseteq Deliveries /\ flush \in [Flushers -> FlushState] /\ late \subseteq Deliveries
        /\ faults \in FaultCount
    BY DEF TypeOK
  <1>b. /\ DeliveredWasShown /\ RowAndTicketAgree /\ FlushersWork /\ RowsAreOfTheirGeneration
        /\ TicketsFollowRows /\ VisibleWasShown /\ CopiesAreCovered
    BY DEF Control
  <1>c. /\ SessionOf \in [Deliveries -> Sessions] /\ Direct \subseteq Deliveries /\ Wakes \subseteq Deliveries
        /\ Direct \cap Wakes = {} /\ Native \notin Flushers
        /\ None \notin Deliveries /\ None \notin Flushers /\ None # Native
    BY HostDeliveryAssumption DEF Deliveries
  <1>d. \A s \in Sessions : session[s].gen \in Nat /\ session[s].state \in {"active", "deleting", "deleted"}
    BY <1>a DEF SessionRow
  <1>e. \A e \in Deliveries : /\ row[e].gen \in Nat \cup {NoGeneration}
                              /\ row[e].holder \in Flushers \cup {Native, None}
                              /\ row[e].status \in {"absent", "pending", "delivered"}
    BY <1>a DEF DeliveryRow
  <1>f. \A f \in Flushers : flush[f].at \in Places /\ flush[f].on \in Deliveries \cup {None}
    BY <1>a DEF FlushState
  <1>1. run[d] \in {"running", "staged", "appended"}
    BY <1>a, <1>c DEF RunEnds
  <1>2. /\ run' \in [Direct -> RunStates] /\ run'[d] = "ended"
        /\ \A e \in Direct \ {d} : run'[e] = run[e]
    BY <1>a, <1>c DEF RunEnds, RunStates
  <1>3. UNCHANGED <<session, ticket, row, ahead, notice, copies, visible, flush, late, faults>>
    BY DEF RunEnds
  <1>4. ASSUME NEW e \in Direct PROVE TicketFollowsRow(e)'
    <2>1. TicketFollowsRow(e)
      BY <1>b DEF TicketsFollowRows
    <2>2. CASE e # d
      BY <2>1, <2>2, <1>1, <1>2, <1>3, <1>c DEF TicketFollowsRow
    <2>3. CASE e = d
      BY <2>1, <2>3, <1>1, <1>2, <1>3, <1>c DEF TicketFollowsRow
    <2> QED
      BY <2>2, <2>3
  <1>5. TypeOK'
    BY <1>a, <1>1, <1>2, <1>3 DEF TypeOK
  <1>6. ASSUME NEW e \in Deliveries PROVE Covered(e)'
    <2>1. Covered(e)
      BY <1>b DEF CopiesAreCovered
    <2>2. copies'[e] = copies[e] /\ Excuses' >= Excuses
      BY <1>1, <1>2, <1>3, <1>a, ExcusesAreNat DEF Excuses
    <2>3. Exposed(e)' \subseteq Exposed(e)
      BY <1>1, <1>2, <1>3, <1>c DEF Exposed, Showing, Looking, Owns, Unseen, Pending
    <2>4. Unseen(e)' => Unseen(e) /\ Strays(e)' \subseteq Strays(e)
      BY <1>1, <1>2, <1>3, <1>c DEF Strays, Showing, Looking, Owns, Unseen, Pending
    <2> QED
      BY <2>1, <2>2, <2>3, <2>4, <1>5, CoveredStays
  <1> QED
    BY <1>b, <1>4, <1>5, <1>6, <1>3
    DEF Control, CopiesAreCovered, TicketsFollowRows, DeliveredWasShown, RowAndTicketAgree,
        VisibleWasShown, FlushersWork, FlusherWorks, Taken, RowsAreOfTheirGeneration,
        RowIsOfItsGeneration

\* A process puts its delivery down, or goes on to a place that asks no more of it.
LEMMA MoveKeeps ==
    ASSUME TypeOK, Control, NEW f \in Flushers, NEW p \in Places, NEW d, Moves(f, p, d),
           flush' \in [Flushers -> FlushState], faults' \in FaultCount, Excuses' >= Excuses,
           UNCHANGED <<session, ticket, run, row, ahead, notice, copies, visible, late>>,
           \/ d = None /\ p \in {"idle", "claim"}
           \/ /\ d = flush[f].on /\ d \in Deliveries /\ p \notin {"idle", "claim", "authority", "inject"}
              /\ p = "history" => flush[f].at = "authority"
              /\ p = "suppress" => row[d].gen # session[SessionOf[d]].gen
              /\ p \in {"complete", "settle-again"} => d \in Wakes
              /\ p \in {"settle", "complete", "settle-again"} => copies[d] > 0
    PROVE  TypeOK' /\ Control'
  <1>a. /\ session \in [Sessions -> SessionRow] /\ ticket \in [Direct -> TicketStates]
        /\ run \in [Direct -> RunStates]
        /\ row \in [Deliveries -> DeliveryRow] /\ ahead \in [Deliveries -> SUBSET Deliveries]
        /\ notice \in [Wakes -> {"pending", "delivered"}] /\ copies \in [Deliveries -> Nat]
        /\ visible \subseteq Deliveries /\ flush \in [Flushers -> FlushState] /\ late \subseteq Deliveries
        /\ faults \in FaultCount
    BY DEF TypeOK
  <1>b. /\ DeliveredWasShown /\ RowAndTicketAgree /\ FlushersWork /\ RowsAreOfTheirGeneration
        /\ TicketsFollowRows /\ VisibleWasShown /\ CopiesAreCovered
    BY DEF Control
  <1>c. /\ SessionOf \in [Deliveries -> Sessions] /\ Direct \subseteq Deliveries /\ Wakes \subseteq Deliveries
        /\ Direct \cap Wakes = {} /\ Native \notin Flushers
        /\ None \notin Deliveries /\ None \notin Flushers /\ None # Native
    BY HostDeliveryAssumption DEF Deliveries
  <1>d. \A s \in Sessions : session[s].gen \in Nat /\ session[s].state \in {"active", "deleting", "deleted"}
    BY <1>a DEF SessionRow
  <1>e. \A e \in Deliveries : /\ row[e].gen \in Nat \cup {NoGeneration}
                              /\ row[e].holder \in Flushers \cup {Native, None}
                              /\ row[e].status \in {"absent", "pending", "delivered"}
    BY <1>a DEF DeliveryRow
  <1>f. \A g \in Flushers : flush[g].at \in Places /\ flush[g].on \in Deliveries \cup {None}
    BY <1>a DEF FlushState
  <1>1. /\ flush'[f].at = p /\ flush'[f].on = d
        /\ \A g \in Flushers \ {f} : flush'[g] = flush[g]
    BY <1>a, <1>c DEF Moves
  <1>2. UNCHANGED <<session, ticket, run, row, ahead, notice, copies, visible, late>>
    BY DEF Moves
  <1>3. ASSUME NEW g \in Flushers PROVE FlusherWorks(g)'
    <2>1. FlusherWorks(g)
      BY <1>b DEF FlushersWork
    <2>2. CASE g # f
      BY <2>1, <2>2, <1>1, <1>2, <1>c, <1>f DEF FlusherWorks, Taken
    <2>3. CASE g = f
      BY <2>1, <2>3, <1>1, <1>2, <1>c, <1>f DEF FlusherWorks, Taken
    <2> QED
      BY <2>2, <2>3
  <1>4. \A e \in late' : Taken(e)'
    BY <1>a, <1>b, <1>c, <1>1, <1>2 DEF FlushersWork, Taken
  <1>5. TypeOK'
    BY <1>a, <1>1, <1>2 DEF TypeOK
  <1>6. ASSUME NEW e \in Deliveries PROVE Covered(e)'
    <2>1. Covered(e)
      BY <1>b DEF CopiesAreCovered
    <2>2. copies'[e] = copies[e] /\ Excuses' >= Excuses
      BY <1>1, <1>2, <1>a, ExcusesAreNat DEF Excuses
    <2>3. Exposed(e)' \subseteq Exposed(e)
      BY <1>1, <1>2, <1>c DEF Exposed, Showing, Looking, Owns, Unseen, Pending
    <2>4. Unseen(e)' => Unseen(e) /\ Strays(e)' \subseteq Strays(e)
      BY <1>1, <1>2, <1>c DEF Strays, Showing, Looking, Owns, Unseen, Pending
    <2> QED
      BY <2>1, <2>2, <2>3, <2>4, <1>5, CoveredStays
  <1> QED
    BY <1>b, <1>3, <1>4, <1>5, <1>6, <1>2
    DEF Control, CopiesAreCovered, FlushersWork, DeliveredWasShown, RowAndTicketAgree, VisibleWasShown,
        RowsAreOfTheirGeneration, RowIsOfItsGeneration, TicketsFollowRows, TicketFollowsRow

\* Every step preserves the types and the control.
LEMMA ActionKeeps ==
    ASSUME TypeOK, Control, Next
    PROVE  TypeOK' /\ Control'
  <1>a. /\ session \in [Sessions -> SessionRow] /\ ticket \in [Direct -> TicketStates]
        /\ run \in [Direct -> RunStates]
        /\ row \in [Deliveries -> DeliveryRow] /\ ahead \in [Deliveries -> SUBSET Deliveries]
        /\ notice \in [Wakes -> {"pending", "delivered"}] /\ copies \in [Deliveries -> Nat]
        /\ visible \subseteq Deliveries /\ flush \in [Flushers -> FlushState] /\ late \subseteq Deliveries
        /\ faults \in FaultCount
    BY DEF TypeOK
  <1>b. /\ DeliveredWasShown /\ RowAndTicketAgree /\ FlushersWork /\ RowsAreOfTheirGeneration
        /\ TicketsFollowRows /\ VisibleWasShown /\ CopiesAreCovered
    BY DEF Control
  <1>c. /\ SessionOf \in [Deliveries -> Sessions] /\ Direct \subseteq Deliveries /\ Wakes \subseteq Deliveries
        /\ Direct \cap Wakes = {} /\ Native \notin Flushers
        /\ None \notin Deliveries /\ None \notin Flushers /\ None # Native
    BY HostDeliveryAssumption DEF Deliveries
  <1>d. \A s \in Sessions : session[s].gen \in Nat /\ session[s].state \in {"active", "deleting", "deleted"}
    BY <1>a DEF SessionRow
  <1>e. \A d \in Deliveries : /\ row[d].gen \in Nat \cup {NoGeneration}
                              /\ row[d].holder \in Flushers \cup {Native, None}
                              /\ row[d].status \in {"absent", "pending", "delivered"}
    BY <1>a DEF DeliveryRow
  <1>f. \A f \in Flushers : flush[f].at \in Places /\ flush[f].on \in Deliveries \cup {None}
    BY <1>a DEF FlushState
  <1>1. ASSUME NEW d \in Direct, Submit(d)
        PROVE  TypeOK' /\ Control'
    <2>1. ticket[d] = "none"
      BY <1>1, <1>a, <1>c DEF Submit
    <2>2. /\ ticket' \in [Direct -> TicketStates] /\ ticket'[d] = "accepted"
          /\ \A e \in Direct \ {d} : ticket'[e] = ticket[e]
      BY <1>1, <1>a, <1>c DEF Submit, TicketStates
    <2>3. /\ run' \in [Direct -> RunStates] /\ run'[d] = "running"
          /\ \A e \in Direct \ {d} : run'[e] = run[e]
      BY <1>1, <1>a, <1>c DEF Submit, RunStates
    <2>4. UNCHANGED <<session, row, ahead, notice, copies, visible, flush, late, faults>>
      BY <1>1 DEF Submit
    <2>5. DeliveredWasShown'
      BY <1>a, <1>b, <1>c, <2>1, <2>2, <2>3, <2>4 DEF DeliveredWasShown
    <2>6. RowAndTicketAgree'
      BY <1>a, <1>b, <1>c, <2>1, <2>2, <2>3, <2>4 DEF RowAndTicketAgree
    <2>7. ASSUME NEW e \in Direct PROVE TicketFollowsRow(e)'
      <3>1. TicketFollowsRow(e)
        BY <1>b DEF TicketsFollowRows
      <3>2. CASE e # d
        BY <3>1, <3>2, <2>1, <2>2, <2>3, <2>4, <1>c DEF TicketFollowsRow
      <3>3. CASE e = d
        BY <3>1, <3>3, <2>1, <2>2, <2>3, <2>4, <1>c DEF TicketFollowsRow
      <3> QED
        BY <3>2, <3>3
    <2>8. TypeOK'
      BY <1>a, <2>1, <2>2, <2>3, <2>4 DEF TypeOK
    <2>9. ASSUME NEW e \in Deliveries PROVE Covered(e)'
      <3>1. Covered(e)
        BY <1>b DEF CopiesAreCovered
      <3>2. copies'[e] = copies[e] /\ Excuses' >= Excuses
        BY <2>1, <2>2, <2>3, <2>4, <1>a, ExcusesAreNat DEF Excuses
      <3>3. Exposed(e)' \subseteq Exposed(e)
        BY <2>1, <2>2, <2>3, <2>4, <1>c DEF Exposed, Showing, Looking, Owns, Unseen, Pending
      <3>4. Unseen(e)' => Unseen(e) /\ Strays(e)' \subseteq Strays(e)
        BY <2>1, <2>2, <2>3, <2>4, <1>c DEF Strays, Showing, Looking, Owns, Unseen, Pending
      <3> QED
        BY <3>1, <3>2, <3>3, <3>4, <2>8, CoveredStays
    <2> QED
      BY <1>b, <2>5, <2>6, <2>7, <2>8, <2>9, <2>4
      DEF Control, CopiesAreCovered, TicketsFollowRows, VisibleWasShown, FlushersWork, FlusherWorks,
          Taken, RowsAreOfTheirGeneration, RowIsOfItsGeneration
  <1>2. ASSUME NEW d \in Direct, Stage(d)
        PROVE  TypeOK' /\ Control'
    <2>1. ASSUME ticket[d] = "accepted", Insertable(d), Insert(d, Native, "live"),
                 run' = [run EXCEPT ![d] = "staged"]
          PROVE  TypeOK' /\ Control'
      <3>1. ticket[d] = "accepted" /\ row[d].gen = NoGeneration /\ ~Pending(d)
        BY <1>2, <2>1, <1>b, <1>a, <1>c
        DEF Stage, Insertable, RowsAreOfTheirGeneration, RowIsOfItsGeneration, TicketsFollowRows,
            TicketFollowsRow, Pending
      <3>2. /\ session[SessionOf[d]].state = "active" /\ session[SessionOf[d]].gen # NoGeneration
            /\ d \notin late /\ \A f \in Flushers : flush[f].on # d
        BY <1>2, <2>1, <3>1, <1>b, <1>d, <1>a, <1>c
        DEF Stage, Insertable, NoGeneration, Active, FlushersWork, FlusherWorks, Taken
      <3>3. /\ row' \in [Deliveries -> DeliveryRow] /\ ahead' \in [Deliveries -> SUBSET Deliveries]
            /\ Enters(d, Native, "live")
        BY <1>2, <2>1, InsertEnters, <1>a, <1>c DEF Stage
      <3>4. /\ run' \in [Direct -> RunStates] /\ run'[d] = "staged"
            /\ \A e \in Direct \ {d} : run'[e] = run[e]
        BY <1>2, <2>1, <1>a, <1>c DEF Stage, RunStates
      <3>5. UNCHANGED <<session, ticket, notice, copies, visible, flush, late, faults>>
        BY <1>2, <2>1 DEF Stage
      <3>6. \A e \in Deliveries : Taken(e) => Taken(e)' /\ row'[e].gen = row[e].gen
        BY <3>1, <3>2, <3>3, <3>4, <3>5, <1>a, <1>c DEF Taken, Enters
      <3>7. DeliveredWasShown'
        BY <1>a, <1>b, <1>c, <3>1, <3>2, <3>3, <3>4, <3>5, <3>6 DEF DeliveredWasShown, Enters
      <3>8. RowAndTicketAgree'
        BY <1>a, <1>b, <1>c, <3>1, <3>2, <3>3, <3>4, <3>5, <3>6 DEF RowAndTicketAgree, Enters
      <3>9. ASSUME NEW g \in Flushers PROVE FlusherWorks(g)'
        <4>1. FlusherWorks(g)
          BY <1>b DEF FlushersWork
        <4> QED
          BY <4>1, <3>1, <3>2, <3>3, <3>4, <3>5, <3>6, <1>c, <1>f DEF FlusherWorks, Taken
      <3>10. \A e \in late' : Taken(e)'
        BY <1>a, <1>b, <1>c, <3>1, <3>2, <3>3, <3>4, <3>5, <3>6 DEF FlushersWork, Taken
      <3>11. ASSUME NEW e \in Deliveries PROVE RowIsOfItsGeneration(e)'
        <4>1. RowIsOfItsGeneration(e)
          BY <1>b DEF RowsAreOfTheirGeneration
        <4>2. CASE e # d
          BY <4>1, <4>2, <3>1, <3>2, <3>3, <3>4, <3>5, <3>6, <1>c, <1>d, <1>e
          DEF RowIsOfItsGeneration, Enters
        <4>3. CASE e = d
          BY <4>1, <4>3, <3>1, <3>2, <3>3, <3>4, <3>5, <3>6, <1>c, <1>d, <1>e
          DEF RowIsOfItsGeneration, Enters
        <4> QED
          BY <4>2, <4>3
      <3>12. ASSUME NEW e \in Direct PROVE TicketFollowsRow(e)'
        <4>1. TicketFollowsRow(e)
          BY <1>b DEF TicketsFollowRows
        <4>2. CASE e # d
          BY <4>1, <4>2, <3>1, <3>2, <3>3, <3>4, <3>5, <3>6, <1>c DEF TicketFollowsRow, Enters
        <4>3. CASE e = d
          BY <4>1, <4>3, <3>1, <3>2, <3>3, <3>4, <3>5, <3>6, <1>c DEF TicketFollowsRow, Enters
        <4> QED
          BY <4>2, <4>3
      <3>13. TypeOK'
        BY <1>a, <3>1, <3>2, <3>3, <3>4, <3>5 DEF TypeOK
      <3>14. ASSUME NEW e \in Deliveries PROVE Covered(e)'
        <4>1. CASE e # d
          <5>1. Covered(e)
            BY <1>b DEF CopiesAreCovered
          <5>2. copies'[e] = copies[e] /\ Excuses' >= Excuses
            BY <3>1, <3>2, <3>3, <3>4, <3>5, <4>1, <1>a, ExcusesAreNat DEF Excuses
          <5>3. Exposed(e)' \subseteq Exposed(e)
            BY <3>1, <3>2, <3>3, <3>4, <3>5, <4>1, <1>c
            DEF Exposed, Showing, Looking, Owns, Unseen, Pending, Enters
          <5>4. Unseen(e)' => Unseen(e) /\ Strays(e)' \subseteq Strays(e)
            BY <3>1, <3>2, <3>3, <3>4, <3>5, <4>1, <1>c
            DEF Strays, Showing, Looking, Owns, Unseen, Pending, Enters
          <5> QED
            BY <5>1, <5>2, <5>3, <5>4, <3>13, CoveredStays
        <4>2. CASE e = d
          <5>1. copies'[e] = 0
            BY <1>b, <3>1, <3>2, <3>3, <3>4, <3>5, <4>2, <1>a, <1>c
            DEF RowsAreOfTheirGeneration, RowIsOfItsGeneration
          <5>2. Exposed(e)' \subseteq {Native} /\ Strays(e)' = {}
            BY <1>b, <3>1, <3>2, <3>3, <3>4, <3>5, <4>2, <1>a, <1>c
            DEF TicketsFollowRows, TicketFollowsRow, Exposed, Strays, Showing, Looking, Owns, Unseen,
                Pending, Enters
          <5> QED
            BY <5>1, <5>2, <3>13, CoveredAtFirst
        <4> QED
          BY <4>1, <4>2
      <3> QED
        BY <1>b, <3>7, <3>8, <3>9, <3>10, <3>11, <3>12, <3>13, <3>14, <3>5
        DEF Control, CopiesAreCovered, FlushersWork, RowsAreOfTheirGeneration, TicketsFollowRows,
            VisibleWasShown
    <2>2. ASSUME RunEnds(d), UNCHANGED <<row, ahead>>
          PROVE  TypeOK' /\ Control'
      <3>1. UNCHANGED <<session, ticket, row, ahead, notice, copies, visible, flush, late, faults>>
        BY <1>2, <2>2 DEF Stage
      <3> QED
        BY <1>2, <2>2, <3>1, RunEndsKeeps
    <2> QED
      BY <1>2, <2>1, <2>2 DEF Stage, RunEnds
  <1>3. ASSUME NEW d \in Direct, AppendReply(d)
        PROVE  TypeOK' /\ Control'
    <2>1. run[d] = "staged" /\ row[d].gen # NoGeneration /\ copies[d] \in Nat
      BY <1>3, <1>b, <1>a, <1>c DEF AppendReply, TicketsFollowRows, TicketFollowsRow
    <2>2. /\ run' \in [Direct -> RunStates] /\ run'[d] = "appended"
          /\ \A e \in Direct \ {d} : run'[e] = run[e]
      BY <1>3, <1>a, <1>c DEF AppendReply, RunStates
    <2>3. /\ copies' \in [Deliveries -> Nat] /\ visible' \subseteq Deliveries
          /\ Shows(d)
      BY <1>3, ShowShows, <1>a, <1>c DEF AppendReply
    <2>4. UNCHANGED <<session, ticket, row, ahead, notice, flush, late, faults>>
      BY <1>3 DEF AppendReply
    <2>5. \A e \in Deliveries : copies[e] > 0 => copies'[e] > 0
      BY <2>1, <2>2, <2>3, <2>4, <1>a DEF Shows
    <2>6. DeliveredWasShown'
      BY <1>a, <1>b, <1>c, <2>1, <2>2, <2>3, <2>4, <2>5 DEF DeliveredWasShown
    <2>7. VisibleWasShown'
      BY <1>a, <1>b, <1>c, <2>1, <2>2, <2>3, <2>4, <2>5 DEF VisibleWasShown, Shows
    <2>8. ASSUME NEW g \in Flushers PROVE FlusherWorks(g)'
      <3>1. FlusherWorks(g)
        BY <1>b DEF FlushersWork
      <3> QED
        BY <3>1, <2>1, <2>2, <2>3, <2>4, <2>5, <1>c, <1>f DEF FlusherWorks, Taken
    <2>9. \A e \in late' : Taken(e)'
      BY <1>a, <1>b, <1>c, <2>1, <2>2, <2>3, <2>4, <2>5 DEF FlushersWork, Taken
    <2>10. ASSUME NEW e \in Deliveries PROVE RowIsOfItsGeneration(e)'
      <3>1. RowIsOfItsGeneration(e)
        BY <1>b DEF RowsAreOfTheirGeneration
      <3>2. CASE e # d
        BY <3>1, <3>2, <2>1, <2>2, <2>3, <2>4, <2>5, <1>c, <1>d, <1>e DEF RowIsOfItsGeneration, Shows
      <3>3. CASE e = d
        BY <3>1, <3>3, <2>1, <2>2, <2>3, <2>4, <2>5, <1>c, <1>d, <1>e DEF RowIsOfItsGeneration, Shows
      <3> QED
        BY <3>2, <3>3
    <2>11. ASSUME NEW e \in Direct PROVE TicketFollowsRow(e)'
      <3>1. TicketFollowsRow(e)
        BY <1>b DEF TicketsFollowRows
      <3>2. CASE e # d
        BY <3>1, <3>2, <2>1, <2>2, <2>3, <2>4, <2>5, <1>c DEF TicketFollowsRow, Shows
      <3>3. CASE e = d
        BY <3>1, <3>3, <2>1, <2>2, <2>3, <2>4, <2>5, <1>c DEF TicketFollowsRow, Shows
      <3> QED
        BY <3>2, <3>3
    <2>12. TypeOK'
      BY <1>a, <2>1, <2>2, <2>3, <2>4 DEF TypeOK
    <2>13. ASSUME NEW e \in Deliveries PROVE Covered(e)'
      <3>1. CASE e # d
        <4>1. Covered(e)
          BY <1>b DEF CopiesAreCovered
        <4>2. copies'[e] = copies[e] /\ Excuses' >= Excuses
          BY <2>1, <2>2, <2>3, <2>4, <3>1, <1>a, ExcusesAreNat DEF Excuses, Shows
        <4>3. Exposed(e)' \subseteq Exposed(e)
          BY <2>1, <2>2, <2>3, <2>4, <3>1, <1>c
          DEF Exposed, Showing, Looking, Owns, Unseen, Pending, Shows
        <4>4. Unseen(e)' => Unseen(e) /\ Strays(e)' \subseteq Strays(e)
          BY <2>1, <2>2, <2>3, <2>4, <3>1, <1>c
          DEF Strays, Showing, Looking, Owns, Unseen, Pending, Shows
        <4> QED
          BY <4>1, <4>2, <4>3, <4>4, <2>12, CoveredStays
      <3>2. CASE e = d
        <4>1. Covered(e) /\ Native \in Exposed(e)
          BY <1>b, <2>1, <2>2, <2>3, <2>4, <3>2, <1>a, <1>c
          DEF CopiesAreCovered, Exposed, Showing, Looking
        <4>2. copies'[e] = copies[e] + 1 /\ Excuses' >= Excuses /\ e \in visible'
          BY <2>1, <2>2, <2>3, <2>4, <3>2, <1>a, <1>c, ExcusesAreNat DEF Excuses, Shows
        <4>3. Exposed(e)' \subseteq Exposed(e) \ {Native}
          BY <2>1, <2>2, <2>3, <2>4, <3>2, <1>a, <1>c
          DEF Exposed, Strays, Showing, Looking, Owns, Unseen, Pending, Shows
        <4> QED
          BY <4>1, <4>2, <4>3, <2>12, CoveredShows
      <3> QED
        BY <3>1, <3>2
    <2> QED
      BY <1>b, <2>6, <2>7, <2>8, <2>9, <2>10, <2>11, <2>12, <2>13, <2>4
      DEF Control, CopiesAreCovered, FlushersWork, RowsAreOfTheirGeneration, TicketsFollowRows,
          RowAndTicketAgree
  <1>4. ASSUME NEW d \in Direct, SettleNative(d)
        PROVE  TypeOK' /\ Control'
    <2>1. ASSUME ticket[d] = "accepted", Pending(d), ticket' = [ticket EXCEPT ![d] = "completed"],
                 Dequeue({d}, "delivered")
          PROVE  TypeOK' /\ Control'
      <3>1. ticket[d] = "accepted" /\ run[d] = "appended" /\ copies[d] > 0 /\ Pending(d)
        BY <1>4, <2>1, <1>b, <1>a, <1>c DEF SettleNative, TicketsFollowRows, TicketFollowsRow
      <3>2. /\ ticket' \in [Direct -> TicketStates] /\ ticket'[d] = "completed"
            /\ \A e \in Direct \ {d} : ticket'[e] = ticket[e]
        BY <1>4, <2>1, <1>a, <1>c DEF SettleNative, TicketStates
      <3>3. /\ run' \in [Direct -> RunStates] /\ run'[d] = "ended"
            /\ \A e \in Direct \ {d} : run'[e] = run[e]
        BY <1>4, <2>1, <1>a, <1>c DEF SettleNative, RunStates
      <3>4. /\ row' \in [Deliveries -> DeliveryRow] /\ ahead' \in [Deliveries -> SUBSET Deliveries]
            /\ Leaves({d}, "delivered")
        BY <1>4, <2>1, DequeueLeaves, <1>a, <1>c DEF SettleNative
      <3>5. UNCHANGED <<session, notice, copies, visible, flush, late, faults>>
        BY <1>4, <2>1 DEF SettleNative
      <3>6. \A e \in Deliveries : Taken(e) => Taken(e)' /\ row'[e].gen = row[e].gen
        BY <3>1, <3>2, <3>3, <3>4, <3>5, <1>a, <1>c DEF Taken, Leaves, Pending
      <3>7. DeliveredWasShown'
        BY <1>a, <1>b, <1>c, <3>1, <3>2, <3>3, <3>4, <3>5, <3>6 DEF DeliveredWasShown, Leaves, Pending
      <3>8. RowAndTicketAgree'
        BY <1>a, <1>b, <1>c, <3>1, <3>2, <3>3, <3>4, <3>5, <3>6 DEF RowAndTicketAgree, Leaves, Pending
      <3>9. ASSUME NEW g \in Flushers PROVE FlusherWorks(g)'
        <4>1. FlusherWorks(g)
          BY <1>b DEF FlushersWork
        <4> QED
          BY <4>1, <3>1, <3>2, <3>3, <3>4, <3>5, <3>6, <1>c, <1>f DEF FlusherWorks, Taken
      <3>10. \A e \in late' : Taken(e)'
        BY <1>a, <1>b, <1>c, <3>1, <3>2, <3>3, <3>4, <3>5, <3>6 DEF FlushersWork, Taken
      <3>11. ASSUME NEW e \in Deliveries PROVE RowIsOfItsGeneration(e)'
        <4>1. RowIsOfItsGeneration(e)
          BY <1>b DEF RowsAreOfTheirGeneration
        <4>2. CASE e \notin {d}
          BY <4>1, <4>2, <3>1, <3>2, <3>3, <3>4, <3>5, <3>6, <1>c, <1>d, <1>e
          DEF RowIsOfItsGeneration, Leaves, Pending
        <4>3. CASE e \in {d}
          BY <4>1, <4>3, <3>1, <3>2, <3>3, <3>4, <3>5, <3>6, <1>c, <1>d, <1>e
          DEF RowIsOfItsGeneration, Leaves, Pending
        <4> QED
          BY <4>2, <4>3
      <3>12. ASSUME NEW e \in Direct PROVE TicketFollowsRow(e)'
        <4>1. TicketFollowsRow(e)
          BY <1>b DEF TicketsFollowRows
        <4>2. CASE e \notin {d}
          BY <4>1, <4>2, <3>1, <3>2, <3>3, <3>4, <3>5, <3>6, <1>c DEF TicketFollowsRow, Leaves, Pending
        <4>3. CASE e \in {d}
          BY <4>1, <4>3, <3>1, <3>2, <3>3, <3>4, <3>5, <3>6, <1>c DEF TicketFollowsRow, Leaves, Pending
        <4> QED
          BY <4>2, <4>3
      <3>13. TypeOK'
        BY <1>a, <3>1, <3>2, <3>3, <3>4, <3>5 DEF TypeOK
      <3>14. ASSUME NEW e \in Deliveries PROVE Covered(e)'
        <4>1. CASE e \notin {d}
          <5>1. Covered(e)
            BY <1>b DEF CopiesAreCovered
          <5>2. copies'[e] = copies[e] /\ Excuses' >= Excuses
            BY <3>1, <3>2, <3>3, <3>4, <3>5, <4>1, <1>a, ExcusesAreNat DEF Excuses
          <5>3. row'[e] = row[e]
            BY <3>1, <3>2, <3>3, <3>4, <3>5, <4>1 DEF Leaves
          <5>4. Exposed(e)' \subseteq Exposed(e)
            BY <3>1, <3>2, <3>3, <3>4, <3>5, <4>1, <5>3, <1>c
            DEF Exposed, Showing, Looking, Owns, Unseen, Pending
          <5>5. Unseen(e)' => Unseen(e) /\ Strays(e)' \subseteq Strays(e)
            BY <3>1, <3>2, <3>3, <3>4, <3>5, <4>1, <5>3, <1>c
            DEF Strays, Showing, Looking, Owns, Unseen, Pending
          <5> QED
            BY <5>1, <5>2, <5>4, <5>5, <3>13, CoveredStays
        <4>2. CASE e \in {d} /\ e \in visible
          <5>1. Covered(e)
            BY <1>b DEF CopiesAreCovered
          <5>2. copies'[e] = copies[e] /\ Excuses' >= Excuses
            BY <3>1, <3>2, <3>3, <3>4, <3>5, <4>2, <1>a, ExcusesAreNat DEF Excuses
          <5>3. ~Pending(e)'
            BY <3>1, <3>2, <3>3, <3>4, <3>5, <4>2 DEF Leaves, Pending
          <5>4. Exposed(e)' \subseteq Exposed(e)
            BY <3>1, <3>2, <3>3, <3>4, <3>5, <4>2, <5>3, <1>c
            DEF Exposed, Showing, Looking, Owns, Unseen, Pending
          <5>5. Unseen(e)' => Unseen(e) /\ Strays(e)' \subseteq Strays(e)
            BY <3>1, <3>2, <3>3, <3>4, <3>5, <4>2, <5>3, <1>c
            DEF Strays, Showing, Looking, Owns, Unseen, Pending
          <5> QED
            BY <5>1, <5>2, <5>4, <5>5, <3>13, CoveredStays
        <4>3. CASE e \in {d} /\ e \notin visible
          <5>1. Covered(e) /\ Unseen(e)
            BY <1>b, <3>1, <3>2, <3>3, <3>4, <3>5, <4>3 DEF CopiesAreCovered, Unseen, Pending
          <5>2. copies'[e] = copies[e] /\ Excuses' >= Excuses
            BY <3>1, <3>2, <3>3, <3>4, <3>5, <4>3, <1>a, ExcusesAreNat DEF Excuses
          <5>3. ~Pending(e)'
            BY <3>1, <3>2, <3>3, <3>4, <3>5, <4>3 DEF Leaves, Pending
          <5>4. Exposed(e)' \subseteq Strays(e) \cup {row[e].holder}
            BY <3>1, <3>2, <3>3, <3>4, <3>5, <4>3, <5>3, <1>c
            DEF Exposed, Strays, Showing, Looking, Owns, Unseen, Pending
          <5>5. Unseen(e)' => Strays(e)' \subseteq Strays(e)
            BY <5>3 DEF Unseen
          <5> QED
            BY <5>1, <5>2, <5>4, <5>5, <3>13, CoveredByHolder
        <4> QED
          BY <4>1, <4>2, <4>3
      <3> QED
        BY <1>b, <3>7, <3>8, <3>9, <3>10, <3>11, <3>12, <3>13, <3>14, <3>5
        DEF Control, CopiesAreCovered, FlushersWork, RowsAreOfTheirGeneration, TicketsFollowRows,
            VisibleWasShown
    <2>2. ASSUME RunEnds(d), UNCHANGED <<ticket, row, ahead>>
          PROVE  TypeOK' /\ Control'
      <3>1. UNCHANGED <<session, ticket, row, ahead, notice, copies, visible, flush, late, faults>>
        BY <1>4, <2>2 DEF SettleNative
      <3> QED
        BY <1>4, <2>2, <3>1, RunEndsKeeps
    <2> QED
      BY <1>4, <2>1, <2>2 DEF SettleNative, RunEnds
  <1>5. ASSUME NEW d \in Direct, EndRun(d)
        PROVE  TypeOK' /\ Control'
    <2>1. /\ RunEnds(d)
          /\ UNCHANGED <<session, ticket, row, ahead, notice, copies, visible, flush, late, faults>>
      BY <1>5 DEF EndRun, RunEnds
    <2> QED
      BY <2>1, RunEndsKeeps
  <1>6. ASSUME NEW d \in Direct, QueueRecovered(d)
        PROVE  TypeOK' /\ Control'
    <2>1. ticket[d] = "accepted" /\ run[d] = "ended" /\ row[d].gen = NoGeneration /\ ~Pending(d)
      BY <1>6, <1>b, <1>a, <1>c
      DEF QueueRecovered, Insertable, RowsAreOfTheirGeneration, RowIsOfItsGeneration, TicketsFollowRows,
          TicketFollowsRow, Pending
    <2>2. /\ session[SessionOf[d]].state = "active" /\ session[SessionOf[d]].gen # NoGeneration
          /\ d \notin late /\ \A f \in Flushers : flush[f].on # d
      BY <1>6, <2>1, <1>b, <1>d, <1>a, <1>c
      DEF QueueRecovered, Insertable, NoGeneration, Active, FlushersWork, FlusherWorks, Taken
    <2>3. /\ row' \in [Deliveries -> DeliveryRow] /\ ahead' \in [Deliveries -> SUBSET Deliveries]
          /\ Enters(d, None, "none")
      BY <1>6, InsertEnters, <1>a, <1>c DEF QueueRecovered
    <2>4. UNCHANGED <<session, ticket, run, notice, copies, visible, flush, late, faults>>
      BY <1>6 DEF QueueRecovered
    <2>5. \A e \in Deliveries : Taken(e) => Taken(e)' /\ row'[e].gen = row[e].gen
      BY <2>1, <2>2, <2>3, <2>4, <1>a, <1>c DEF Taken, Enters
    <2>6. DeliveredWasShown'
      BY <1>a, <1>b, <1>c, <2>1, <2>2, <2>3, <2>4, <2>5 DEF DeliveredWasShown, Enters
    <2>7. RowAndTicketAgree'
      BY <1>a, <1>b, <1>c, <2>1, <2>2, <2>3, <2>4, <2>5 DEF RowAndTicketAgree, Enters
    <2>8. ASSUME NEW g \in Flushers PROVE FlusherWorks(g)'
      <3>1. FlusherWorks(g)
        BY <1>b DEF FlushersWork
      <3> QED
        BY <3>1, <2>1, <2>2, <2>3, <2>4, <2>5, <1>c, <1>f DEF FlusherWorks, Taken
    <2>9. \A e \in late' : Taken(e)'
      BY <1>a, <1>b, <1>c, <2>1, <2>2, <2>3, <2>4, <2>5 DEF FlushersWork, Taken
    <2>10. ASSUME NEW e \in Deliveries PROVE RowIsOfItsGeneration(e)'
      <3>1. RowIsOfItsGeneration(e)
        BY <1>b DEF RowsAreOfTheirGeneration
      <3>2. CASE e # d
        BY <3>1, <3>2, <2>1, <2>2, <2>3, <2>4, <2>5, <1>c, <1>d, <1>e DEF RowIsOfItsGeneration, Enters
      <3>3. CASE e = d
        BY <3>1, <3>3, <2>1, <2>2, <2>3, <2>4, <2>5, <1>c, <1>d, <1>e DEF RowIsOfItsGeneration, Enters
      <3> QED
        BY <3>2, <3>3
    <2>11. ASSUME NEW e \in Direct PROVE TicketFollowsRow(e)'
      <3>1. TicketFollowsRow(e)
        BY <1>b DEF TicketsFollowRows
      <3>2. CASE e # d
        BY <3>1, <3>2, <2>1, <2>2, <2>3, <2>4, <2>5, <1>c DEF TicketFollowsRow, Enters
      <3>3. CASE e = d
        BY <3>1, <3>3, <2>1, <2>2, <2>3, <2>4, <2>5, <1>c DEF TicketFollowsRow, Enters
      <3> QED
        BY <3>2, <3>3
    <2>12. TypeOK'
      BY <1>a, <2>1, <2>2, <2>3, <2>4 DEF TypeOK
    <2>13. ASSUME NEW e \in Deliveries PROVE Covered(e)'
      <3>1. CASE e # d
        <4>1. Covered(e)
          BY <1>b DEF CopiesAreCovered
        <4>2. copies'[e] = copies[e] /\ Excuses' >= Excuses
          BY <2>1, <2>2, <2>3, <2>4, <3>1, <1>a, ExcusesAreNat DEF Excuses
        <4>3. Exposed(e)' \subseteq Exposed(e)
          BY <2>1, <2>2, <2>3, <2>4, <3>1, <1>c
          DEF Exposed, Showing, Looking, Owns, Unseen, Pending, Enters
        <4>4. Unseen(e)' => Unseen(e) /\ Strays(e)' \subseteq Strays(e)
          BY <2>1, <2>2, <2>3, <2>4, <3>1, <1>c
          DEF Strays, Showing, Looking, Owns, Unseen, Pending, Enters
        <4> QED
          BY <4>1, <4>2, <4>3, <4>4, <2>12, CoveredStays
      <3>2. CASE e = d
        <4>1. copies'[e] = 0
          BY <1>b, <2>1, <2>2, <2>3, <2>4, <3>2, <1>a, <1>c
          DEF RowsAreOfTheirGeneration, RowIsOfItsGeneration
        <4>2. Exposed(e)' \subseteq {Native} /\ Strays(e)' = {}
          BY <1>b, <2>1, <2>2, <2>3, <2>4, <3>2, <1>a, <1>c
          DEF TicketsFollowRows, TicketFollowsRow, Exposed, Strays, Showing, Looking, Owns, Unseen,
              Pending, Enters
        <4> QED
          BY <4>1, <4>2, <2>12, CoveredAtFirst
      <3> QED
        BY <3>1, <3>2
    <2> QED
      BY <1>b, <2>6, <2>7, <2>8, <2>9, <2>10, <2>11, <2>12, <2>13, <2>4
      DEF Control, CopiesAreCovered, FlushersWork, RowsAreOfTheirGeneration, TicketsFollowRows,
          VisibleWasShown
  <1>7. ASSUME NEW d \in Wakes, QueueWake(d)
        PROVE  TypeOK' /\ Control'
    <2>1. row[d].gen = NoGeneration /\ ~Pending(d)
      BY <1>7, <1>b, <1>a, <1>c
      DEF QueueWake, Insertable, RowsAreOfTheirGeneration, RowIsOfItsGeneration, TicketsFollowRows,
          TicketFollowsRow, Pending
    <2>2. /\ session[SessionOf[d]].state = "active" /\ session[SessionOf[d]].gen # NoGeneration
          /\ d \notin late /\ \A f \in Flushers : flush[f].on # d
      BY <1>7, <2>1, <1>b, <1>d, <1>a, <1>c
      DEF QueueWake, Insertable, NoGeneration, Active, FlushersWork, FlusherWorks, Taken
    <2>3. /\ row' \in [Deliveries -> DeliveryRow] /\ ahead' \in [Deliveries -> SUBSET Deliveries]
          /\ Enters(d, None, "none")
      BY <1>7, InsertEnters, <1>a, <1>c DEF QueueWake
    <2>4. UNCHANGED <<session, ticket, run, notice, copies, visible, flush, late, faults>>
      BY <1>7 DEF QueueWake
    <2>5. \A e \in Deliveries : Taken(e) => Taken(e)' /\ row'[e].gen = row[e].gen
      BY <2>1, <2>2, <2>3, <2>4, <1>a, <1>c DEF Taken, Enters
    <2>6. DeliveredWasShown'
      BY <1>a, <1>b, <1>c, <2>1, <2>2, <2>3, <2>4, <2>5 DEF DeliveredWasShown, Enters
    <2>7. RowAndTicketAgree'
      BY <1>a, <1>b, <1>c, <2>1, <2>2, <2>3, <2>4, <2>5 DEF RowAndTicketAgree, Enters
    <2>8. ASSUME NEW g \in Flushers PROVE FlusherWorks(g)'
      <3>1. FlusherWorks(g)
        BY <1>b DEF FlushersWork
      <3> QED
        BY <3>1, <2>1, <2>2, <2>3, <2>4, <2>5, <1>c, <1>f DEF FlusherWorks, Taken
    <2>9. \A e \in late' : Taken(e)'
      BY <1>a, <1>b, <1>c, <2>1, <2>2, <2>3, <2>4, <2>5 DEF FlushersWork, Taken
    <2>10. ASSUME NEW e \in Deliveries PROVE RowIsOfItsGeneration(e)'
      <3>1. RowIsOfItsGeneration(e)
        BY <1>b DEF RowsAreOfTheirGeneration
      <3>2. CASE e # d
        BY <3>1, <3>2, <2>1, <2>2, <2>3, <2>4, <2>5, <1>c, <1>d, <1>e DEF RowIsOfItsGeneration, Enters
      <3>3. CASE e = d
        BY <3>1, <3>3, <2>1, <2>2, <2>3, <2>4, <2>5, <1>c, <1>d, <1>e DEF RowIsOfItsGeneration, Enters
      <3> QED
        BY <3>2, <3>3
    <2>11. ASSUME NEW e \in Direct PROVE TicketFollowsRow(e)'
      <3>1. TicketFollowsRow(e)
        BY <1>b DEF TicketsFollowRows
      <3>2. CASE e # d
        BY <3>1, <3>2, <2>1, <2>2, <2>3, <2>4, <2>5, <1>c DEF TicketFollowsRow, Enters
      <3>3. CASE e = d
        BY <3>1, <3>3, <2>1, <2>2, <2>3, <2>4, <2>5, <1>c DEF TicketFollowsRow, Enters
      <3> QED
        BY <3>2, <3>3
    <2>12. TypeOK'
      BY <1>a, <2>1, <2>2, <2>3, <2>4 DEF TypeOK
    <2>13. ASSUME NEW e \in Deliveries PROVE Covered(e)'
      <3>1. CASE e # d
        <4>1. Covered(e)
          BY <1>b DEF CopiesAreCovered
        <4>2. copies'[e] = copies[e] /\ Excuses' >= Excuses
          BY <2>1, <2>2, <2>3, <2>4, <3>1, <1>a, ExcusesAreNat DEF Excuses
        <4>3. Exposed(e)' \subseteq Exposed(e)
          BY <2>1, <2>2, <2>3, <2>4, <3>1, <1>c
          DEF Exposed, Showing, Looking, Owns, Unseen, Pending, Enters
        <4>4. Unseen(e)' => Unseen(e) /\ Strays(e)' \subseteq Strays(e)
          BY <2>1, <2>2, <2>3, <2>4, <3>1, <1>c
          DEF Strays, Showing, Looking, Owns, Unseen, Pending, Enters
        <4> QED
          BY <4>1, <4>2, <4>3, <4>4, <2>12, CoveredStays
      <3>2. CASE e = d
        <4>1. copies'[e] = 0
          BY <1>b, <2>1, <2>2, <2>3, <2>4, <3>2, <1>a, <1>c
          DEF RowsAreOfTheirGeneration, RowIsOfItsGeneration
        <4>2. Exposed(e)' \subseteq {Native} /\ Strays(e)' = {}
          BY <1>b, <2>1, <2>2, <2>3, <2>4, <3>2, <1>a, <1>c
          DEF TicketsFollowRows, TicketFollowsRow, Exposed, Strays, Showing, Looking, Owns, Unseen,
              Pending, Enters
        <4> QED
          BY <4>1, <4>2, <2>12, CoveredAtFirst
      <3> QED
        BY <3>1, <3>2
    <2> QED
      BY <1>b, <2>6, <2>7, <2>8, <2>9, <2>10, <2>11, <2>12, <2>13, <2>4
      DEF Control, CopiesAreCovered, FlushersWork, RowsAreOfTheirGeneration, TicketsFollowRows,
          VisibleWasShown
  <1>8. ASSUME NEW s \in Sessions, NEW state \in {"active", "deleting"}, Revoke(s, state)
        PROVE  TypeOK' /\ Control'
    <2> DEFINE D == {d \in Wakes : SessionOf[d] = s /\ Pending(d)}
    <2>0. D \subseteq Wakes /\ D \subseteq Deliveries /\ \A d \in D : SessionOf[d] = s /\ Pending(d)
      BY <1>c
    <2>x. Dequeue(D, "absent")
      BY <1>8 DEF Revoke
    <2> HIDE DEF D
    <2>1. /\ session' \in [Sessions -> SessionRow]
          /\ session'[s].gen = session[s].gen + 1 /\ session'[s].state = state
          /\ \A t \in Sessions \ {s} : session'[t] = session[t]
      BY <1>8, <1>a, <1>c DEF Revoke, SessionRow
    <2>2. /\ ticket' \in [Direct -> TicketStates]
          /\ \A d \in Direct : SessionOf[d] = s /\ ticket[d] = "accepted" => ticket'[d] = "cancelled"
          /\ \A d \in Direct : ~(SessionOf[d] = s /\ ticket[d] = "accepted") => ticket'[d] = ticket[d]
      BY <1>8, <1>a, <1>c DEF Revoke, TicketStates
    <2>3. /\ row' \in [Deliveries -> DeliveryRow] /\ ahead' \in [Deliveries -> SUBSET Deliveries]
          /\ Leaves(D, "absent")
      BY <2>0, <2>x, DequeueLeaves, <1>a, <1>c
    <2>4. D \subseteq Wakes /\ D \subseteq Deliveries /\ \A d \in D : SessionOf[d] = s /\ Pending(d)
      BY <2>0, <1>a, <1>c
    <2>5. /\ \A e \in Deliveries : row[e].gen <= session'[SessionOf[e]].gen
          /\ \A e \in Deliveries : SessionOf[e] = s => row[e].gen # session'[SessionOf[e]].gen
      BY <2>1, <1>b, GenerationPasses, <1>a, <1>c
    <2>6. UNCHANGED <<run, notice, copies, visible, flush, late, faults>>
      BY <1>8 DEF Revoke
    <2>7. \A e \in Deliveries : Taken(e) => Taken(e)' /\ row'[e].gen = row[e].gen
      BY <2>1, <2>2, <2>3, <2>4, <2>5, <2>6, <1>a, <1>c DEF Taken, Leaves, Pending
    <2>8. DeliveredWasShown'
      BY <1>a, <1>b, <1>c, <2>1, <2>2, <2>3, <2>4, <2>5, <2>6, <2>7
      DEF DeliveredWasShown, Leaves, Pending
    <2>9. RowAndTicketAgree'
      BY <1>a, <1>b, <1>c, <2>1, <2>2, <2>3, <2>4, <2>5, <2>6, <2>7
      DEF RowAndTicketAgree, Leaves, Pending
    <2>10. ASSUME NEW g \in Flushers PROVE FlusherWorks(g)'
      <3>1. FlusherWorks(g)
        BY <1>b DEF FlushersWork
      <3> QED
        BY <3>1, <2>1, <2>2, <2>3, <2>4, <2>5, <2>6, <2>7, <1>c, <1>f DEF FlusherWorks, Taken
    <2>11. \A e \in late' : Taken(e)'
      BY <1>a, <1>b, <1>c, <2>1, <2>2, <2>3, <2>4, <2>5, <2>6, <2>7 DEF FlushersWork, Taken
    <2>12. ASSUME NEW e \in Deliveries PROVE RowIsOfItsGeneration(e)'
      <3>1. RowIsOfItsGeneration(e)
        BY <1>b DEF RowsAreOfTheirGeneration
      <3>2. CASE e \notin D
        BY <3>1, <3>2, <2>1, <2>2, <2>3, <2>4, <2>5, <2>6, <2>7, <1>c, <1>d, <1>e
        DEF RowIsOfItsGeneration, Leaves, Pending
      <3>3. CASE e \in D
        BY <3>1, <3>3, <2>1, <2>2, <2>3, <2>4, <2>5, <2>6, <2>7, <1>c, <1>d, <1>e
        DEF RowIsOfItsGeneration, Leaves, Pending
      <3> QED
        BY <3>2, <3>3
    <2>13. ASSUME NEW e \in Direct PROVE TicketFollowsRow(e)'
      <3>1. TicketFollowsRow(e)
        BY <1>b DEF TicketsFollowRows
      <3>2. CASE e \notin D
        BY <3>1, <3>2, <2>1, <2>2, <2>3, <2>4, <2>5, <2>6, <2>7, <1>c
        DEF TicketFollowsRow, Leaves, Pending
      <3>3. CASE e \in D
        BY <3>1, <3>3, <2>1, <2>2, <2>3, <2>4, <2>5, <2>6, <2>7, <1>c
        DEF TicketFollowsRow, Leaves, Pending
      <3> QED
        BY <3>2, <3>3
    <2>14. TypeOK'
      BY <1>a, <2>1, <2>2, <2>3, <2>4, <2>5, <2>6 DEF TypeOK
    <2>15. ASSUME NEW e \in Deliveries PROVE Covered(e)'
      <3>1. CASE e \notin D
        <4>1. Covered(e)
          BY <1>b DEF CopiesAreCovered
        <4>2. copies'[e] = copies[e] /\ Excuses' >= Excuses
          BY <2>1, <2>2, <2>3, <2>4, <2>5, <2>6, <3>1, <1>a, ExcusesAreNat DEF Excuses
        <4>3. row'[e] = row[e]
          BY <2>1, <2>2, <2>3, <2>4, <2>5, <2>6, <3>1 DEF Leaves
        <4>4. Exposed(e)' \subseteq Exposed(e)
          BY <2>1, <2>2, <2>3, <2>4, <2>5, <2>6, <3>1, <4>3, <1>c
          DEF Exposed, Showing, Looking, Owns, Unseen, Pending
        <4>5. Unseen(e)' => Unseen(e) /\ Strays(e)' \subseteq Strays(e)
          BY <2>1, <2>2, <2>3, <2>4, <2>5, <2>6, <3>1, <4>3, <1>c
          DEF Strays, Showing, Looking, Owns, Unseen, Pending
        <4> QED
          BY <4>1, <4>2, <4>4, <4>5, <2>14, CoveredStays
      <3>2. CASE e \in D /\ e \in visible
        <4>1. Covered(e)
          BY <1>b DEF CopiesAreCovered
        <4>2. copies'[e] = copies[e] /\ Excuses' >= Excuses
          BY <2>1, <2>2, <2>3, <2>4, <2>5, <2>6, <3>2, <1>a, ExcusesAreNat DEF Excuses
        <4>3. ~Pending(e)'
          BY <2>1, <2>2, <2>3, <2>4, <2>5, <2>6, <3>2 DEF Leaves, Pending
        <4>4. Exposed(e)' \subseteq Exposed(e)
          BY <2>1, <2>2, <2>3, <2>4, <2>5, <2>6, <3>2, <4>3, <1>c
          DEF Exposed, Showing, Looking, Owns, Unseen, Pending
        <4>5. Unseen(e)' => Unseen(e) /\ Strays(e)' \subseteq Strays(e)
          BY <2>1, <2>2, <2>3, <2>4, <2>5, <2>6, <3>2, <4>3, <1>c
          DEF Strays, Showing, Looking, Owns, Unseen, Pending
        <4> QED
          BY <4>1, <4>2, <4>4, <4>5, <2>14, CoveredStays
      <3>3. CASE e \in D /\ e \notin visible
        <4>1. Covered(e) /\ Unseen(e)
          BY <1>b, <2>1, <2>2, <2>3, <2>4, <2>5, <2>6, <3>3 DEF CopiesAreCovered, Unseen, Pending
        <4>2. copies'[e] = copies[e] /\ Excuses' >= Excuses
          BY <2>1, <2>2, <2>3, <2>4, <2>5, <2>6, <3>3, <1>a, ExcusesAreNat DEF Excuses
        <4>3. ~Pending(e)'
          BY <2>1, <2>2, <2>3, <2>4, <2>5, <2>6, <3>3 DEF Leaves, Pending
        <4>4. Exposed(e)' \subseteq Strays(e) \cup {row[e].holder}
          BY <2>1, <2>2, <2>3, <2>4, <2>5, <2>6, <3>3, <4>3, <1>c
          DEF Exposed, Strays, Showing, Looking, Owns, Unseen, Pending
        <4>5. Unseen(e)' => Strays(e)' \subseteq Strays(e)
          BY <4>3 DEF Unseen
        <4> QED
          BY <4>1, <4>2, <4>4, <4>5, <2>14, CoveredByHolder
      <3> QED
        BY <3>1, <3>2, <3>3
    <2> QED
      BY <1>b, <2>8, <2>9, <2>10, <2>11, <2>12, <2>13, <2>14, <2>15, <2>6
      DEF Control, CopiesAreCovered, FlushersWork, RowsAreOfTheirGeneration, TicketsFollowRows,
          VisibleWasShown
  <1>9. ASSUME NEW s \in Sessions, FollowLifecycle(s)
        PROVE  TypeOK' /\ Control'
    <2>1. /\ session' \in [Sessions -> SessionRow] /\ session[s].state # "active"
          /\ \A t \in Sessions : session'[t].gen = session[t].gen
          /\ \A t \in Sessions \ {s} : session'[t] = session[t]
      BY <1>9, LifecycleMoves, <1>a, <1>c DEF FollowLifecycle
    <2>2. UNCHANGED <<ticket, run, row, ahead, notice, copies, visible, flush, late, faults>>
      BY <1>9 DEF FollowLifecycle
    <2>3. ASSUME NEW g \in Flushers PROVE FlusherWorks(g)'
      <3>1. FlusherWorks(g)
        BY <1>b DEF FlushersWork
      <3> QED
        BY <3>1, <2>1, <2>2, <1>c, <1>f DEF FlusherWorks, Taken
    <2>4. \A e \in late' : Taken(e)'
      BY <1>a, <1>b, <1>c, <2>1, <2>2 DEF FlushersWork, Taken
    <2>5. ASSUME NEW e \in Deliveries PROVE RowIsOfItsGeneration(e)'
      <3>1. RowIsOfItsGeneration(e)
        BY <1>b DEF RowsAreOfTheirGeneration
      <3> QED
        BY <3>1, <2>1, <2>2, <1>c, <1>d, <1>e DEF RowIsOfItsGeneration
    <2>6. ASSUME NEW e \in Direct PROVE TicketFollowsRow(e)'
      <3>1. TicketFollowsRow(e)
        BY <1>b DEF TicketsFollowRows
      <3> QED
        BY <3>1, <2>1, <2>2, <1>c DEF TicketFollowsRow
    <2>7. TypeOK'
      BY <1>a, <2>1, <2>2 DEF TypeOK
    <2>8. ASSUME NEW e \in Deliveries PROVE Covered(e)'
      <3>1. Covered(e)
        BY <1>b DEF CopiesAreCovered
      <3>2. copies'[e] = copies[e] /\ Excuses' >= Excuses
        BY <2>1, <2>2, <1>a, ExcusesAreNat DEF Excuses
      <3>3. Exposed(e)' \subseteq Exposed(e)
        BY <2>1, <2>2, <1>c DEF Exposed, Showing, Looking, Owns, Unseen, Pending
      <3>4. Unseen(e)' => Unseen(e) /\ Strays(e)' \subseteq Strays(e)
        BY <2>1, <2>2, <1>c DEF Strays, Showing, Looking, Owns, Unseen, Pending
      <3> QED
        BY <3>1, <3>2, <3>3, <3>4, <2>7, CoveredStays
    <2> QED
      BY <1>b, <2>3, <2>4, <2>5, <2>6, <2>7, <2>8, <2>2
      DEF Control, CopiesAreCovered, FlushersWork, RowsAreOfTheirGeneration, TicketsFollowRows,
          DeliveredWasShown, RowAndTicketAgree, VisibleWasShown
  <1>10. ASSUME NEW f \in Flushers, Kick(f)
        PROVE  TypeOK' /\ Control'
    <2>1. flush[f].on = None
      BY <1>10, <1>b DEF Kick, At, FlushersWork, FlusherWorks
    <2>2. flush' \in [Flushers -> FlushState] /\ Moves(f, "claim", None)
      BY <1>10, <2>1, <1>a, GotoMoves DEF Kick, Places
    <2>3. UNCHANGED <<session, ticket, run, row, ahead, notice, copies, visible, late>>
      BY <1>10 DEF Kick
    <2>4. faults' \in FaultCount /\ Excuses' >= Excuses
      BY <1>10, <1>a, ExcusesAreNat DEF Kick, Excuses
    <2> QED
      BY <2>1, <2>2, <2>3, <2>4, MoveKeeps DEF Places
  <1>11. ASSUME NEW f \in Flushers, ClaimNext(f)
        PROVE  TypeOK' /\ Control'
    <2>1. PICK d \in Deliveries : Claimable(d) /\ Claims(d, f) /\ Turns(f, "authority", d)
      BY <1>11 DEF ClaimNext, Claims, Turns
    <2>2. /\ Pending(d) /\ row[d].lease # "live"
          /\ Taken(d)
      BY <1>11, <2>1, <1>b, <1>a, <1>c
      DEF ClaimNext, Claimable, Unclaimed, Taken, RowsAreOfTheirGeneration, RowIsOfItsGeneration,
          Pending
    <2>3. flush[f].at = "claim" /\ flush[f].on = None
      BY <1>11, <1>b, <1>a, <1>c DEF ClaimNext, At, FlushersWork, FlusherWorks
    <2>4. /\ row' \in [Deliveries -> DeliveryRow]
          /\ Takes(d, f, "live")
      BY <1>11, <2>1, ClaimTakes, <1>a, <1>c DEF ClaimNext
    <2>5. /\ flush' \in [Flushers -> FlushState]
          /\ Moves(f, "authority", d)
      BY <1>11, <2>1, TurnMoves, <1>a, <1>c DEF ClaimNext, Places
    <2>6. UNCHANGED <<session, ticket, run, ahead, notice, copies, visible, late, faults>>
      BY <1>11 DEF ClaimNext
    <2>7. \A e \in Deliveries : Taken(e) => Taken(e)' /\ row'[e].gen = row[e].gen
      BY <2>2, <2>3, <2>4, <2>5, <2>6, <1>a, <1>c DEF Taken, Takes, Moves
    <2>8. DeliveredWasShown'
      BY <1>a, <1>b, <1>c, <2>2, <2>3, <2>4, <2>5, <2>6, <2>7 DEF DeliveredWasShown, Takes, Moves
    <2>9. RowAndTicketAgree'
      BY <1>a, <1>b, <1>c, <2>2, <2>3, <2>4, <2>5, <2>6, <2>7 DEF RowAndTicketAgree, Takes, Moves
    <2>10. ASSUME NEW g \in Flushers PROVE FlusherWorks(g)'
      <3>1. FlusherWorks(g)
        BY <1>b DEF FlushersWork
      <3>2. CASE g # f
        BY <3>1, <3>2, <2>2, <2>3, <2>4, <2>5, <2>6, <2>7, <1>c, <1>f DEF FlusherWorks, Taken, Moves
      <3>3. CASE g = f
        BY <3>1, <3>3, <2>2, <2>3, <2>4, <2>5, <2>6, <2>7, <1>c, <1>f DEF FlusherWorks, Taken, Moves
      <3> QED
        BY <3>2, <3>3
    <2>11. \A e \in late' : Taken(e)'
      BY <1>a, <1>b, <1>c, <2>2, <2>3, <2>4, <2>5, <2>6, <2>7 DEF FlushersWork, Taken
    <2>12. ASSUME NEW e \in Deliveries PROVE RowIsOfItsGeneration(e)'
      <3>1. RowIsOfItsGeneration(e)
        BY <1>b DEF RowsAreOfTheirGeneration
      <3>2. CASE e # d
        BY <3>1, <3>2, <2>2, <2>3, <2>4, <2>5, <2>6, <2>7, <1>c, <1>d, <1>e
        DEF RowIsOfItsGeneration, Takes, Moves
      <3>3. CASE e = d
        BY <3>1, <3>3, <2>2, <2>3, <2>4, <2>5, <2>6, <2>7, <1>c, <1>d, <1>e
        DEF RowIsOfItsGeneration, Takes, Moves
      <3> QED
        BY <3>2, <3>3
    <2>13. ASSUME NEW e \in Direct PROVE TicketFollowsRow(e)'
      <3>1. TicketFollowsRow(e)
        BY <1>b DEF TicketsFollowRows
      <3>2. CASE e # d
        BY <3>1, <3>2, <2>2, <2>3, <2>4, <2>5, <2>6, <2>7, <1>c DEF TicketFollowsRow, Takes, Moves
      <3>3. CASE e = d
        BY <3>1, <3>3, <2>2, <2>3, <2>4, <2>5, <2>6, <2>7, <1>c DEF TicketFollowsRow, Takes, Moves
      <3> QED
        BY <3>2, <3>3
    <2>14. TypeOK'
      BY <1>a, <2>2, <2>3, <2>4, <2>5, <2>6 DEF TypeOK
    <2>15. ASSUME NEW e \in Deliveries PROVE Covered(e)'
      <3>1. Covered(e)
        BY <1>b DEF CopiesAreCovered
      <3>2. copies'[e] = copies[e] /\ Excuses' >= Excuses
        BY <2>2, <2>3, <2>4, <2>5, <2>6, <1>a, ExcusesAreNat DEF Excuses
      <3>3. Exposed(e)' \subseteq Exposed(e)
        BY <2>2, <2>3, <2>4, <2>5, <2>6, <1>c
        DEF Exposed, Showing, Looking, Owns, Unseen, Pending, Takes, Moves
      <3>4. Unseen(e)' => Unseen(e) /\ Strays(e)' \subseteq Strays(e)
        BY <2>2, <2>3, <2>4, <2>5, <2>6, <1>c
        DEF Strays, Showing, Looking, Owns, Unseen, Pending, Takes, Moves
      <3> QED
        BY <3>1, <3>2, <3>3, <3>4, <2>14, CoveredStays
    <2> QED
      BY <1>b, <2>8, <2>9, <2>10, <2>11, <2>12, <2>13, <2>14, <2>15, <2>6
      DEF Control, CopiesAreCovered, FlushersWork, RowsAreOfTheirGeneration, TicketsFollowRows,
          VisibleWasShown
  <1>12. ASSUME NEW f \in Flushers, EndFlush(f)
        PROVE  TypeOK' /\ Control'
    <2>1. flush[f].on = None
      BY <1>12, <1>b DEF EndFlush, At, FlushersWork, FlusherWorks
    <2>2. flush' \in [Flushers -> FlushState] /\ Moves(f, "idle", None)
      BY <1>12, <2>1, <1>a, RestMoves DEF EndFlush, Places
    <2>3. UNCHANGED <<session, ticket, run, row, ahead, notice, copies, visible, late>>
      BY <1>12 DEF EndFlush
    <2>4. faults' \in FaultCount /\ Excuses' >= Excuses
      BY <1>12, <1>a, ExcusesAreNat DEF EndFlush, Excuses
    <2> QED
      BY <2>1, <2>2, <2>3, <2>4, MoveKeeps DEF Places
  <1>13. ASSUME NEW f \in Flushers, CheckAuthority(f)
        PROVE  TypeOK' /\ Control'
    <2>1. ASSUME Authoritative(flush[f].on), Goto(f, "history")
          PROVE  TypeOK' /\ Control'
      <3>1. flush[f].on \in Deliveries /\ flush[f].at = "authority"
        BY <1>13, <2>1, <1>b, <1>c, <1>f DEF CheckAuthority, At, FlushersWork, FlusherWorks
      <3>2. flush' \in [Flushers -> FlushState] /\ Moves(f, "history", flush[f].on)
        BY <1>13, <2>1, <3>1, <1>a, GotoMoves DEF CheckAuthority, Places
      <3>3. UNCHANGED <<session, ticket, run, row, ahead, notice, copies, visible, late>>
        BY <1>13, <2>1 DEF CheckAuthority
      <3>4. faults' \in FaultCount /\ Excuses' >= Excuses
        BY <1>13, <2>1, <1>a, ExcusesAreNat DEF CheckAuthority, Excuses
      <3> QED
        BY <3>1, <3>2, <3>3, <3>4, MoveKeeps DEF Places
    <2>2. ASSUME ~Authoritative(flush[f].on), Goto(f, "suppress")
          PROVE  TypeOK' /\ Control'
      <3>1. flush[f].on \in Deliveries /\ row[flush[f].on].gen # session[SessionOf[flush[f].on]].gen
        BY <1>13, <2>2, <1>b, <1>c, <1>f
        DEF CheckAuthority, At, FlushersWork, FlusherWorks, Authoritative, Current, Active,
            RowsAreOfTheirGeneration, RowIsOfItsGeneration, TicketsFollowRows, TicketFollowsRow, Taken,
            Deliveries
      <3>2. flush' \in [Flushers -> FlushState] /\ Moves(f, "suppress", flush[f].on)
        BY <1>13, <2>2, <3>1, <1>a, GotoMoves DEF CheckAuthority, Places
      <3>3. UNCHANGED <<session, ticket, run, row, ahead, notice, copies, visible, late>>
        BY <1>13, <2>2 DEF CheckAuthority
      <3>4. faults' \in FaultCount /\ Excuses' >= Excuses
        BY <1>13, <2>2, <1>a, ExcusesAreNat DEF CheckAuthority, Excuses
      <3> QED
        BY <3>1, <3>2, <3>3, <3>4, MoveKeeps DEF Places
    <2> QED
      BY <1>13, <2>1, <2>2 DEF CheckAuthority
  <1>14. ASSUME NEW f \in Flushers, Suppress(f)
        PROVE  TypeOK' /\ Control'
    <2> DEFINE D == {flush[f].on} \cap {d \in Deliveries : Pending(d)}
    <2>1. D \subseteq Deliveries /\ \A d \in D : Pending(d) /\ d = flush[f].on
      OBVIOUS
    <2>2. Dequeue(D, "absent")
      BY <1>14 DEF Suppress
    <2> HIDE DEF D
    <2>3. \A d \in D : d \in Deliveries /\ Pending(d) /\ row[d].gen # session[SessionOf[d]].gen
      BY <1>14, <2>1, <1>b, <1>f, <1>a, <1>c DEF Suppress, At, FlushersWork, FlusherWorks
    <2>4. D \subseteq Deliveries
      BY <1>14, <2>1, <1>a, <1>c DEF Suppress
    <2>5. /\ row' \in [Deliveries -> DeliveryRow] /\ ahead' \in [Deliveries -> SUBSET Deliveries]
          /\ Leaves(D, "absent")
      BY <1>14, <2>1, <2>2, DequeueLeaves, <1>a, <1>c DEF Suppress
    <2>6. /\ flush' \in [Flushers -> FlushState]
          /\ Moves(f, "claim", None)
      BY <1>14, NextItemMoves, <1>a, <1>c DEF Suppress
    <2>7. UNCHANGED <<session, ticket, run, notice, copies, visible, late, faults>>
      BY <1>14 DEF Suppress
    <2>8. \A e \in Deliveries : Taken(e) => Taken(e)' /\ row'[e].gen = row[e].gen
      BY <2>3, <2>4, <2>5, <2>6, <2>7, <1>a, <1>c DEF Taken, Leaves, Moves, Pending
    <2>9. DeliveredWasShown'
      BY <1>a, <1>b, <1>c, <2>3, <2>4, <2>5, <2>6, <2>7, <2>8
      DEF DeliveredWasShown, Leaves, Moves, Pending
    <2>10. RowAndTicketAgree'
      BY <1>a, <1>b, <1>c, <2>3, <2>4, <2>5, <2>6, <2>7, <2>8
      DEF RowAndTicketAgree, Leaves, Moves, Pending
    <2>11. ASSUME NEW g \in Flushers PROVE FlusherWorks(g)'
      <3>1. FlusherWorks(g)
        BY <1>b DEF FlushersWork
      <3>2. CASE g # f
        BY <3>1, <3>2, <2>3, <2>4, <2>5, <2>6, <2>7, <2>8, <1>c, <1>f DEF FlusherWorks, Taken, Moves
      <3>3. CASE g = f
        BY <3>1, <3>3, <2>3, <2>4, <2>5, <2>6, <2>7, <2>8, <1>c, <1>f DEF FlusherWorks, Taken, Moves
      <3> QED
        BY <3>2, <3>3
    <2>12. \A e \in late' : Taken(e)'
      BY <1>a, <1>b, <1>c, <2>3, <2>4, <2>5, <2>6, <2>7, <2>8 DEF FlushersWork, Taken
    <2>13. ASSUME NEW e \in Deliveries PROVE RowIsOfItsGeneration(e)'
      <3>1. RowIsOfItsGeneration(e)
        BY <1>b DEF RowsAreOfTheirGeneration
      <3>2. CASE e \notin D
        BY <3>1, <3>2, <2>3, <2>4, <2>5, <2>6, <2>7, <2>8, <1>c, <1>d, <1>e
        DEF RowIsOfItsGeneration, Leaves, Moves, Pending
      <3>3. CASE e \in D
        BY <3>1, <3>3, <2>3, <2>4, <2>5, <2>6, <2>7, <2>8, <1>c, <1>d, <1>e
        DEF RowIsOfItsGeneration, Leaves, Moves, Pending
      <3> QED
        BY <3>2, <3>3
    <2>14. ASSUME NEW e \in Direct PROVE TicketFollowsRow(e)'
      <3>1. TicketFollowsRow(e)
        BY <1>b DEF TicketsFollowRows
      <3>2. CASE e \notin D
        BY <3>1, <3>2, <2>3, <2>4, <2>5, <2>6, <2>7, <2>8, <1>c
        DEF TicketFollowsRow, Leaves, Moves, Pending
      <3>3. CASE e \in D
        BY <3>1, <3>3, <2>3, <2>4, <2>5, <2>6, <2>7, <2>8, <1>c
        DEF TicketFollowsRow, Leaves, Moves, Pending
      <3> QED
        BY <3>2, <3>3
    <2>15. TypeOK'
      BY <1>a, <2>3, <2>4, <2>5, <2>6, <2>7 DEF TypeOK
    <2>16. ASSUME NEW e \in Deliveries PROVE Covered(e)'
      <3>1. CASE e \notin D
        <4>1. Covered(e)
          BY <1>b DEF CopiesAreCovered
        <4>2. copies'[e] = copies[e] /\ Excuses' >= Excuses
          BY <2>3, <2>4, <2>5, <2>6, <2>7, <3>1, <1>a, ExcusesAreNat DEF Excuses
        <4>3. row'[e] = row[e]
          BY <2>3, <2>4, <2>5, <2>6, <2>7, <3>1 DEF Leaves
        <4>4. Exposed(e)' \subseteq Exposed(e)
          BY <2>3, <2>4, <2>5, <2>6, <2>7, <3>1, <4>3, <1>c
          DEF Exposed, Showing, Looking, Owns, Unseen, Pending, Moves
        <4>5. Unseen(e)' => Unseen(e) /\ Strays(e)' \subseteq Strays(e)
          BY <2>3, <2>4, <2>5, <2>6, <2>7, <3>1, <4>3, <1>c
          DEF Strays, Showing, Looking, Owns, Unseen, Pending, Moves
        <4> QED
          BY <4>1, <4>2, <4>4, <4>5, <2>15, CoveredStays
      <3>2. CASE e \in D /\ e \in visible
        <4>1. Covered(e)
          BY <1>b DEF CopiesAreCovered
        <4>2. copies'[e] = copies[e] /\ Excuses' >= Excuses
          BY <2>3, <2>4, <2>5, <2>6, <2>7, <3>2, <1>a, ExcusesAreNat DEF Excuses
        <4>3. ~Pending(e)'
          BY <2>3, <2>4, <2>5, <2>6, <2>7, <3>2 DEF Leaves, Pending
        <4>4. Exposed(e)' \subseteq Exposed(e)
          BY <2>3, <2>4, <2>5, <2>6, <2>7, <3>2, <4>3, <1>c
          DEF Exposed, Showing, Looking, Owns, Unseen, Pending, Moves
        <4>5. Unseen(e)' => Unseen(e) /\ Strays(e)' \subseteq Strays(e)
          BY <2>3, <2>4, <2>5, <2>6, <2>7, <3>2, <4>3, <1>c
          DEF Strays, Showing, Looking, Owns, Unseen, Pending, Moves
        <4> QED
          BY <4>1, <4>2, <4>4, <4>5, <2>15, CoveredStays
      <3>3. CASE e \in D /\ e \notin visible
        <4>1. Covered(e) /\ Unseen(e)
          BY <1>b, <2>3, <2>4, <2>5, <2>6, <2>7, <3>3 DEF CopiesAreCovered, Unseen, Pending
        <4>2. copies'[e] = copies[e] /\ Excuses' >= Excuses
          BY <2>3, <2>4, <2>5, <2>6, <2>7, <3>3, <1>a, ExcusesAreNat DEF Excuses
        <4>3. ~Pending(e)'
          BY <2>3, <2>4, <2>5, <2>6, <2>7, <3>3 DEF Leaves, Pending
        <4>4. Exposed(e)' \subseteq Strays(e) \cup {row[e].holder}
          BY <2>3, <2>4, <2>5, <2>6, <2>7, <3>3, <4>3, <1>c
          DEF Exposed, Strays, Showing, Looking, Owns, Unseen, Pending, Moves
        <4>5. Unseen(e)' => Strays(e)' \subseteq Strays(e)
          BY <4>3 DEF Unseen
        <4> QED
          BY <4>1, <4>2, <4>4, <4>5, <2>15, CoveredByHolder
      <3> QED
        BY <3>1, <3>2, <3>3
    <2> QED
      BY <1>b, <2>9, <2>10, <2>11, <2>12, <2>13, <2>14, <2>15, <2>16, <2>7
      DEF Control, CopiesAreCovered, FlushersWork, RowsAreOfTheirGeneration, TicketsFollowRows,
          VisibleWasShown
  <1>15. ASSUME NEW f \in Flushers, ReadHistory(f)
        PROVE  TypeOK' /\ Control'
    <2>1. ASSUME flush[f].on \in visible, Goto(f, "settle")
          PROVE  TypeOK' /\ Control'
      <3>1. flush[f].on \in Deliveries /\ copies[flush[f].on] > 0
        BY <1>15, <2>1, <1>b, <1>c, <1>f
        DEF ReadHistory, At, FlushersWork, FlusherWorks, VisibleWasShown
      <3>2. flush' \in [Flushers -> FlushState] /\ Moves(f, "settle", flush[f].on)
        BY <1>15, <2>1, <3>1, <1>a, GotoMoves DEF ReadHistory, Places
      <3>3. UNCHANGED <<session, ticket, run, row, ahead, notice, copies, visible, late>>
        BY <1>15, <2>1 DEF ReadHistory
      <3>4. faults' \in FaultCount /\ Excuses' >= Excuses
        BY <1>15, <2>1, <1>a, ExcusesAreNat DEF ReadHistory, Excuses
      <3> QED
        BY <3>1, <3>2, <3>3, <3>4, MoveKeeps DEF Places
    <2>2. ASSUME flush[f].on \notin visible, Goto(f, "inject")
          PROVE  TypeOK' /\ Control'
      <3> DEFINE d == flush[f].on
      <3>1. d \in Deliveries /\ d \notin visible /\ flush[f].on = d /\ flush[f].at = "history"
        BY <1>15, <2>2, <1>b, <1>c, <1>f DEF ReadHistory, At, FlushersWork, FlusherWorks, Taken
      <3>2. flush' \in [Flushers -> FlushState] /\ Moves(f, "inject", d)
        BY <1>15, <2>2, <1>a, GotoMoves DEF Places
      <3> HIDE DEF d
      <3>3. d \in Deliveries /\ d \notin visible /\ flush[f].on = d /\ flush[f].at = "history"
        BY <1>15, <2>2, <3>1, <1>a, <1>c DEF ReadHistory
      <3>4. /\ flush' \in [Flushers -> FlushState]
            /\ Moves(f, "inject", d)
        BY <1>15, <2>2, <3>2, <1>a, <1>c DEF ReadHistory
      <3>5. UNCHANGED <<session, ticket, run, row, ahead, notice, copies, visible, late, faults>>
        BY <1>15, <2>2 DEF ReadHistory
      <3>6. ASSUME NEW g \in Flushers PROVE FlusherWorks(g)'
        <4>1. FlusherWorks(g)
          BY <1>b DEF FlushersWork
        <4>2. CASE g # f
          BY <4>1, <4>2, <3>3, <3>4, <3>5, <1>c, <1>f DEF FlusherWorks, Taken, Moves
        <4>3. CASE g = f
          BY <4>1, <4>3, <3>3, <3>4, <3>5, <1>c, <1>f DEF FlusherWorks, Taken, Moves
        <4> QED
          BY <4>2, <4>3
      <3>7. \A e \in late' : Taken(e)'
        BY <1>a, <1>b, <1>c, <3>3, <3>4, <3>5 DEF FlushersWork, Taken
      <3>8. TypeOK'
        BY <1>a, <3>3, <3>4, <3>5 DEF TypeOK
      <3>9. ASSUME NEW e \in Deliveries PROVE Covered(e)'
        <4>1. CASE e # d
          <5>1. Covered(e)
            BY <1>b DEF CopiesAreCovered
          <5>2. copies'[e] = copies[e] /\ Excuses' >= Excuses
            BY <3>3, <3>4, <3>5, <4>1, <1>a, ExcusesAreNat DEF Excuses
          <5>3. Exposed(e)' \subseteq Exposed(e)
            BY <3>3, <3>4, <3>5, <4>1, <1>c DEF Exposed, Showing, Looking, Owns, Unseen, Pending, Moves
          <5>4. Unseen(e)' => Unseen(e) /\ Strays(e)' \subseteq Strays(e)
            BY <3>3, <3>4, <3>5, <4>1, <1>c DEF Strays, Showing, Looking, Owns, Unseen, Pending, Moves
          <5> QED
            BY <5>1, <5>2, <5>3, <5>4, <3>8, CoveredStays
        <4>2. CASE e = d /\ ~Owns(f, d)
          <5>1. Covered(e)
            BY <1>b DEF CopiesAreCovered
          <5>2. copies'[e] = copies[e] /\ Excuses' >= Excuses
            BY <3>3, <3>4, <3>5, <4>2, <1>a, ExcusesAreNat DEF Excuses
          <5>3. Exposed(e)' \subseteq Exposed(e)
            BY <3>3, <3>4, <3>5, <4>2, <1>c DEF Exposed, Showing, Looking, Owns, Unseen, Pending, Moves
          <5>4. Unseen(e)' => Unseen(e) /\ Strays(e)' \subseteq Strays(e)
            BY <3>3, <3>4, <3>5, <4>2, <1>c DEF Strays, Showing, Looking, Owns, Unseen, Pending, Moves
          <5> QED
            BY <5>1, <5>2, <5>3, <5>4, <3>8, CoveredStays
        <4>3. CASE e = d /\ Owns(f, d)
          <5>1. Covered(e) /\ Unseen(e)
            BY <1>b, <3>3, <3>4, <3>5, <4>3 DEF CopiesAreCovered, Unseen, Pending, Moves, Owns
          <5>2. copies'[e] = copies[e] /\ Excuses' >= Excuses
            BY <3>3, <3>4, <3>5, <4>3, <1>a, ExcusesAreNat DEF Excuses
          <5>3. Exposed(e)' \subseteq Strays(e) \cup {f}
            BY <3>3, <3>4, <3>5, <4>3, <1>c
            DEF Exposed, Strays, Showing, Looking, Owns, Unseen, Pending, Moves
          <5>4. Unseen(e)' => Strays(e)' \subseteq Strays(e)
            BY <3>3, <3>4, <3>5, <4>3, <1>c
            DEF Exposed, Strays, Showing, Looking, Owns, Unseen, Pending, Moves
          <5> QED
            BY <5>1, <5>2, <5>3, <5>4, <3>8, CoveredByHolder
        <4> QED
          BY <4>1, <4>2, <4>3
      <3> QED
        BY <1>b, <3>6, <3>7, <3>8, <3>9, <3>5
        DEF Control, CopiesAreCovered, FlushersWork, DeliveredWasShown, RowAndTicketAgree,
            VisibleWasShown, RowsAreOfTheirGeneration, RowIsOfItsGeneration, TicketsFollowRows,
            TicketFollowsRow
    <2>3. ASSUME Goto(f, "failed")
          PROVE  TypeOK' /\ Control'
      <3>1. flush[f].on \in Deliveries
        BY <1>15, <2>3, <1>b, <1>c, <1>f DEF ReadHistory, At, FlushersWork, FlusherWorks
      <3>2. flush' \in [Flushers -> FlushState] /\ Moves(f, "failed", flush[f].on)
        BY <1>15, <2>3, <3>1, <1>a, GotoMoves DEF ReadHistory, Places
      <3>3. UNCHANGED <<session, ticket, run, row, ahead, notice, copies, visible, late>>
        BY <1>15, <2>3 DEF ReadHistory
      <3>4. faults' \in FaultCount /\ Excuses' >= Excuses
        BY <1>15, <2>3, <1>a, ExcusesAreNat DEF ReadHistory, Excuses
      <3> QED
        BY <3>1, <3>2, <3>3, <3>4, MoveKeeps DEF Places
    <2> QED
      BY <1>15, <2>1, <2>2, <2>3 DEF ReadHistory
  <1>16. ASSUME NEW f \in Flushers, Inject(f)
        PROVE  TypeOK' /\ Control'
    <2>1. ASSUME Show(flush[f].on), Goto(f, "settle"), UNCHANGED <<late, faults>>
          PROVE  TypeOK' /\ Control'
      <3> DEFINE d == flush[f].on
      <3>1. d \in Deliveries /\ Taken(d) /\ flush[f].on = d /\ flush[f].at = "inject"
        BY <1>16, <2>1, <1>b, <1>f DEF Inject, At, FlushersWork, FlusherWorks
      <3>2. flush' \in [Flushers -> FlushState] /\ Moves(f, "settle", d)
        BY <1>16, <2>1, <1>a, GotoMoves DEF Places
      <3>3. Show(d)
        BY <1>16, <2>1
      <3> HIDE DEF d
      <3>4. /\ d \in Deliveries /\ flush[f].on = d /\ flush[f].at = "inject"
            /\ Taken(d) /\ row[d].gen # NoGeneration /\ copies[d] \in Nat
        BY <1>16, <2>1, <3>1, <1>a, <1>c DEF Inject, Taken
      <3>5. /\ flush' \in [Flushers -> FlushState]
            /\ Moves(f, "settle", d)
        BY <1>16, <2>1, <3>2, <1>a, <1>c DEF Inject
      <3>6. /\ copies' \in [Deliveries -> Nat] /\ visible' \subseteq Deliveries
            /\ Shows(d)
        BY <1>16, <2>1, <3>1, <3>3, ShowShows, <1>a, <1>c DEF Inject
      <3>7. UNCHANGED <<session, ticket, run, row, ahead, notice, late, faults>>
        BY <1>16, <2>1 DEF Inject
      <3>8. \A e \in Deliveries : copies[e] > 0 => copies'[e] > 0
        BY <3>4, <3>5, <3>6, <3>7, <1>a DEF Shows
      <3>9. DeliveredWasShown'
        BY <1>a, <1>b, <1>c, <3>4, <3>5, <3>6, <3>7, <3>8 DEF DeliveredWasShown, Moves
      <3>10. VisibleWasShown'
        BY <1>a, <1>b, <1>c, <3>4, <3>5, <3>6, <3>7, <3>8 DEF VisibleWasShown, Shows, Moves
      <3>11. ASSUME NEW g \in Flushers PROVE FlusherWorks(g)'
        <4>1. FlusherWorks(g)
          BY <1>b DEF FlushersWork
        <4>2. CASE g # f
          BY <4>1, <4>2, <3>4, <3>5, <3>6, <3>7, <3>8, <1>c, <1>f DEF FlusherWorks, Taken, Moves, Shows
        <4>3. CASE g = f
          BY <4>1, <4>3, <3>4, <3>5, <3>6, <3>7, <3>8, <1>c, <1>f DEF FlusherWorks, Taken, Moves, Shows
        <4> QED
          BY <4>2, <4>3
      <3>12. \A e \in late' : Taken(e)'
        BY <1>a, <1>b, <1>c, <3>4, <3>5, <3>6, <3>7, <3>8 DEF FlushersWork, Taken
      <3>13. ASSUME NEW e \in Deliveries PROVE RowIsOfItsGeneration(e)'
        <4>1. RowIsOfItsGeneration(e)
          BY <1>b DEF RowsAreOfTheirGeneration
        <4>2. CASE e # d
          BY <4>1, <4>2, <3>4, <3>5, <3>6, <3>7, <3>8, <1>c, <1>d, <1>e
          DEF RowIsOfItsGeneration, Shows, Moves
        <4>3. CASE e = d
          BY <4>1, <4>3, <3>4, <3>5, <3>6, <3>7, <3>8, <1>c, <1>d, <1>e
          DEF RowIsOfItsGeneration, Shows, Moves
        <4> QED
          BY <4>2, <4>3
      <3>14. ASSUME NEW e \in Direct PROVE TicketFollowsRow(e)'
        <4>1. TicketFollowsRow(e)
          BY <1>b DEF TicketsFollowRows
        <4>2. CASE e # d
          BY <4>1, <4>2, <3>4, <3>5, <3>6, <3>7, <3>8, <1>c DEF TicketFollowsRow, Shows, Moves
        <4>3. CASE e = d
          BY <4>1, <4>3, <3>4, <3>5, <3>6, <3>7, <3>8, <1>c DEF TicketFollowsRow, Shows, Moves
        <4> QED
          BY <4>2, <4>3
      <3>15. TypeOK'
        BY <1>a, <3>4, <3>5, <3>6, <3>7 DEF TypeOK
      <3>16. ASSUME NEW e \in Deliveries PROVE Covered(e)'
        <4>1. CASE e # d
          <5>1. Covered(e)
            BY <1>b DEF CopiesAreCovered
          <5>2. copies'[e] = copies[e] /\ Excuses' >= Excuses
            BY <3>4, <3>5, <3>6, <3>7, <4>1, <1>a, ExcusesAreNat DEF Excuses, Shows
          <5>3. Exposed(e)' \subseteq Exposed(e)
            BY <3>4, <3>5, <3>6, <3>7, <4>1, <1>c
            DEF Exposed, Showing, Looking, Owns, Unseen, Pending, Shows, Moves
          <5>4. Unseen(e)' => Unseen(e) /\ Strays(e)' \subseteq Strays(e)
            BY <3>4, <3>5, <3>6, <3>7, <4>1, <1>c
            DEF Strays, Showing, Looking, Owns, Unseen, Pending, Shows, Moves
          <5> QED
            BY <5>1, <5>2, <5>3, <5>4, <3>15, CoveredStays
        <4>2. CASE e = d
          <5>1. Covered(e) /\ f \in Exposed(e)
            BY <1>b, <3>4, <3>5, <3>6, <3>7, <4>2, <1>a, <1>c
            DEF CopiesAreCovered, Exposed, Showing, Looking
          <5>2. copies'[e] = copies[e] + 1 /\ Excuses' >= Excuses /\ e \in visible'
            BY <3>4, <3>5, <3>6, <3>7, <4>2, <1>a, <1>c, ExcusesAreNat DEF Excuses, Shows
          <5>3. Exposed(e)' \subseteq Exposed(e) \ {f}
            BY <3>4, <3>5, <3>6, <3>7, <4>2, <1>a, <1>c
            DEF Exposed, Strays, Showing, Looking, Owns, Unseen, Pending, Shows, Moves
          <5> QED
            BY <5>1, <5>2, <5>3, <3>15, CoveredShows
        <4> QED
          BY <4>1, <4>2
      <3> QED
        BY <1>b, <3>9, <3>10, <3>11, <3>12, <3>13, <3>14, <3>15, <3>16, <3>7
        DEF Control, CopiesAreCovered, FlushersWork, RowsAreOfTheirGeneration, TicketsFollowRows,
            RowAndTicketAgree
    <2>2. ASSUME Show(flush[f].on), Goto(f, "failed"), UNCHANGED <<late, faults>>
          PROVE  TypeOK' /\ Control'
      <3> DEFINE d == flush[f].on
      <3>1. d \in Deliveries /\ Taken(d) /\ flush[f].on = d /\ flush[f].at = "inject"
        BY <1>16, <2>2, <1>b, <1>f DEF Inject, At, FlushersWork, FlusherWorks
      <3>2. flush' \in [Flushers -> FlushState] /\ Moves(f, "failed", d)
        BY <1>16, <2>2, <1>a, GotoMoves DEF Places
      <3>3. Show(d)
        BY <1>16, <2>2
      <3> HIDE DEF d
      <3>4. /\ d \in Deliveries /\ flush[f].on = d /\ flush[f].at = "inject"
            /\ Taken(d) /\ row[d].gen # NoGeneration /\ copies[d] \in Nat
        BY <1>16, <2>2, <3>1, <1>a, <1>c DEF Inject, Taken
      <3>5. /\ flush' \in [Flushers -> FlushState]
            /\ Moves(f, "failed", d)
        BY <1>16, <2>2, <3>2, <1>a, <1>c DEF Inject
      <3>6. /\ copies' \in [Deliveries -> Nat] /\ visible' \subseteq Deliveries
            /\ Shows(d)
        BY <1>16, <2>2, <3>1, <3>3, ShowShows, <1>a, <1>c DEF Inject
      <3>7. UNCHANGED <<session, ticket, run, row, ahead, notice, late, faults>>
        BY <1>16, <2>2 DEF Inject
      <3>8. \A e \in Deliveries : copies[e] > 0 => copies'[e] > 0
        BY <3>4, <3>5, <3>6, <3>7, <1>a DEF Shows
      <3>9. DeliveredWasShown'
        BY <1>a, <1>b, <1>c, <3>4, <3>5, <3>6, <3>7, <3>8 DEF DeliveredWasShown, Moves
      <3>10. VisibleWasShown'
        BY <1>a, <1>b, <1>c, <3>4, <3>5, <3>6, <3>7, <3>8 DEF VisibleWasShown, Shows, Moves
      <3>11. ASSUME NEW g \in Flushers PROVE FlusherWorks(g)'
        <4>1. FlusherWorks(g)
          BY <1>b DEF FlushersWork
        <4>2. CASE g # f
          BY <4>1, <4>2, <3>4, <3>5, <3>6, <3>7, <3>8, <1>c, <1>f DEF FlusherWorks, Taken, Moves, Shows
        <4>3. CASE g = f
          BY <4>1, <4>3, <3>4, <3>5, <3>6, <3>7, <3>8, <1>c, <1>f DEF FlusherWorks, Taken, Moves, Shows
        <4> QED
          BY <4>2, <4>3
      <3>12. \A e \in late' : Taken(e)'
        BY <1>a, <1>b, <1>c, <3>4, <3>5, <3>6, <3>7, <3>8 DEF FlushersWork, Taken
      <3>13. ASSUME NEW e \in Deliveries PROVE RowIsOfItsGeneration(e)'
        <4>1. RowIsOfItsGeneration(e)
          BY <1>b DEF RowsAreOfTheirGeneration
        <4>2. CASE e # d
          BY <4>1, <4>2, <3>4, <3>5, <3>6, <3>7, <3>8, <1>c, <1>d, <1>e
          DEF RowIsOfItsGeneration, Shows, Moves
        <4>3. CASE e = d
          BY <4>1, <4>3, <3>4, <3>5, <3>6, <3>7, <3>8, <1>c, <1>d, <1>e
          DEF RowIsOfItsGeneration, Shows, Moves
        <4> QED
          BY <4>2, <4>3
      <3>14. ASSUME NEW e \in Direct PROVE TicketFollowsRow(e)'
        <4>1. TicketFollowsRow(e)
          BY <1>b DEF TicketsFollowRows
        <4>2. CASE e # d
          BY <4>1, <4>2, <3>4, <3>5, <3>6, <3>7, <3>8, <1>c DEF TicketFollowsRow, Shows, Moves
        <4>3. CASE e = d
          BY <4>1, <4>3, <3>4, <3>5, <3>6, <3>7, <3>8, <1>c DEF TicketFollowsRow, Shows, Moves
        <4> QED
          BY <4>2, <4>3
      <3>15. TypeOK'
        BY <1>a, <3>4, <3>5, <3>6, <3>7 DEF TypeOK
      <3>16. ASSUME NEW e \in Deliveries PROVE Covered(e)'
        <4>1. CASE e # d
          <5>1. Covered(e)
            BY <1>b DEF CopiesAreCovered
          <5>2. copies'[e] = copies[e] /\ Excuses' >= Excuses
            BY <3>4, <3>5, <3>6, <3>7, <4>1, <1>a, ExcusesAreNat DEF Excuses, Shows
          <5>3. Exposed(e)' \subseteq Exposed(e)
            BY <3>4, <3>5, <3>6, <3>7, <4>1, <1>c
            DEF Exposed, Showing, Looking, Owns, Unseen, Pending, Shows, Moves
          <5>4. Unseen(e)' => Unseen(e) /\ Strays(e)' \subseteq Strays(e)
            BY <3>4, <3>5, <3>6, <3>7, <4>1, <1>c
            DEF Strays, Showing, Looking, Owns, Unseen, Pending, Shows, Moves
          <5> QED
            BY <5>1, <5>2, <5>3, <5>4, <3>15, CoveredStays
        <4>2. CASE e = d
          <5>1. Covered(e) /\ f \in Exposed(e)
            BY <1>b, <3>4, <3>5, <3>6, <3>7, <4>2, <1>a, <1>c
            DEF CopiesAreCovered, Exposed, Showing, Looking
          <5>2. copies'[e] = copies[e] + 1 /\ Excuses' >= Excuses /\ e \in visible'
            BY <3>4, <3>5, <3>6, <3>7, <4>2, <1>a, <1>c, ExcusesAreNat DEF Excuses, Shows
          <5>3. Exposed(e)' \subseteq Exposed(e) \ {f}
            BY <3>4, <3>5, <3>6, <3>7, <4>2, <1>a, <1>c
            DEF Exposed, Strays, Showing, Looking, Owns, Unseen, Pending, Shows, Moves
          <5> QED
            BY <5>1, <5>2, <5>3, <3>15, CoveredShows
        <4> QED
          BY <4>1, <4>2
      <3> QED
        BY <1>b, <3>9, <3>10, <3>11, <3>12, <3>13, <3>14, <3>15, <3>16, <3>7
        DEF Control, CopiesAreCovered, FlushersWork, RowsAreOfTheirGeneration, TicketsFollowRows,
            RowAndTicketAgree
    <2>3. ASSUME Goto(f, "failed"), UNCHANGED <<copies, visible, late, faults>>
          PROVE  TypeOK' /\ Control'
      <3>1. flush[f].on \in Deliveries
        BY <1>16, <2>3, <1>b, <1>c, <1>f DEF Inject, At, FlushersWork, FlusherWorks
      <3>2. flush' \in [Flushers -> FlushState] /\ Moves(f, "failed", flush[f].on)
        BY <1>16, <2>3, <3>1, <1>a, GotoMoves DEF Inject, Places
      <3>3. UNCHANGED <<session, ticket, run, row, ahead, notice, copies, visible, late>>
        BY <1>16, <2>3 DEF Inject
      <3>4. faults' \in FaultCount /\ Excuses' >= Excuses
        BY <1>16, <2>3, <1>a, ExcusesAreNat DEF Inject, Excuses
      <3> QED
        BY <3>1, <3>2, <3>3, <3>4, MoveKeeps DEF Places
    <2>4. ASSUME faults.lates < MaxLates, late' = late \cup {flush[f].on}, faults' = [faults EXCEPT !.lates = faults.lates + 1], Goto(f, "failed"), UNCHANGED <<copies, visible>>
          PROVE  TypeOK' /\ Control'
      <3> DEFINE d == flush[f].on
      <3>1. d \in Deliveries /\ Taken(d) /\ flush[f].on = d /\ flush[f].at = "inject"
        BY <1>16, <2>4, <1>b, <1>f DEF Inject, At, FlushersWork, FlusherWorks
      <3>2. flush' \in [Flushers -> FlushState] /\ Moves(f, "failed", d)
        BY <1>16, <2>4, <1>a, GotoMoves DEF Places
      <3>3. late' = late \cup {d}
        BY <1>16, <2>4
      <3>4. faults' = [faults EXCEPT !.lates = faults.lates + 1] /\ faults.lates < MaxLates
        BY <1>16, <2>4
      <3>5. /\ faults' \in FaultCount /\ faults'.lates = faults.lates + 1
           /\ faults'.pauses = faults.pauses /\ faults'.scrolls = faults.scrolls
        BY <1>a, <3>4, FaultLates
      <3> HIDE DEF d
      <3>6. /\ d \in Deliveries /\ flush[f].on = d /\ flush[f].at = "inject"
            /\ Taken(d) /\ row[d].gen # NoGeneration /\ copies[d] \in Nat
        BY <1>16, <2>4, <3>1, <1>a, <1>c DEF Inject, Taken
      <3>7. /\ flush' \in [Flushers -> FlushState]
            /\ Moves(f, "failed", d)
        BY <1>16, <2>4, <3>2, <1>a, <1>c DEF Inject
      <3>8. late' = late \cup {d}
        BY <1>16, <2>4, <3>3, <1>a, <1>c DEF Inject
      <3>9. /\ faults' \in FaultCount
            /\ faults'.lates = faults.lates + 1 /\ faults'.pauses = faults.pauses /\ faults'.scrolls = faults.scrolls
        BY <1>16, <2>4, <3>5, <1>a, <1>c DEF Inject
      <3>10. UNCHANGED <<session, ticket, run, row, ahead, notice, copies, visible>>
        BY <1>16, <2>4 DEF Inject
      <3>11. ASSUME NEW g \in Flushers PROVE FlusherWorks(g)'
        <4>1. FlusherWorks(g)
          BY <1>b DEF FlushersWork
        <4>2. CASE g # f
          BY <4>1, <4>2, <3>6, <3>7, <3>8, <3>9, <3>10, <1>c, <1>f DEF FlusherWorks, Taken, Moves
        <4>3. CASE g = f
          BY <4>1, <4>3, <3>6, <3>7, <3>8, <3>9, <3>10, <1>c, <1>f DEF FlusherWorks, Taken, Moves
        <4> QED
          BY <4>2, <4>3
      <3>12. \A e \in late' : Taken(e)'
        BY <1>a, <1>b, <1>c, <3>6, <3>7, <3>8, <3>9, <3>10 DEF FlushersWork, Taken
      <3>13. TypeOK'
        BY <1>a, <3>6, <3>7, <3>8, <3>9, <3>10 DEF TypeOK
      <3>14. ASSUME NEW e \in Deliveries PROVE Covered(e)'
        <4>1. CASE e # d
          <5>1. Covered(e)
            BY <1>b DEF CopiesAreCovered
          <5>2. copies'[e] = copies[e] /\ Excuses' >= Excuses
            BY <3>6, <3>7, <3>8, <3>9, <3>10, <4>1, <1>a DEF Excuses, FaultCount
          <5>3. Exposed(e)' \subseteq Exposed(e)
            BY <3>6, <3>7, <3>8, <3>9, <3>10, <4>1, <1>c
            DEF Exposed, Showing, Looking, Owns, Unseen, Pending, Moves
          <5>4. Unseen(e)' => Unseen(e) /\ Strays(e)' \subseteq Strays(e)
            BY <3>6, <3>7, <3>8, <3>9, <3>10, <4>1, <1>c
            DEF Strays, Showing, Looking, Owns, Unseen, Pending, Moves
          <5> QED
            BY <5>1, <5>2, <5>3, <5>4, <3>13, CoveredStays
        <4>2. CASE e = d
          <5>1. Covered(e)
            BY <1>b DEF CopiesAreCovered
          <5>2. copies'[e] = copies[e] /\ Excuses' = Excuses + 1
            BY <3>6, <3>7, <3>8, <3>9, <3>10, <4>2, <1>a, <1>c DEF Excuses, FaultCount
          <5>3. Exposed(e)' \subseteq Exposed(e) \cup {None}
            BY <3>6, <3>7, <3>8, <3>9, <3>10, <4>2, <1>a, <1>c
            DEF Exposed, Strays, Showing, Looking, Owns, Unseen, Pending, Moves
          <5>4. Unseen(e)' => Unseen(e) /\ Strays(e)' \subseteq Strays(e) \cup {None}
            BY <3>6, <3>7, <3>8, <3>9, <3>10, <4>2, <1>a, <1>c
            DEF Exposed, Strays, Showing, Looking, Owns, Unseen, Pending, Moves
          <5> QED
            BY <5>1, <5>2, <5>3, <5>4, <3>13, CoveredByFault
        <4> QED
          BY <4>1, <4>2
      <3> QED
        BY <1>b, <3>11, <3>12, <3>13, <3>14, <3>10
        DEF Control, CopiesAreCovered, FlushersWork, DeliveredWasShown, RowAndTicketAgree,
            VisibleWasShown, RowsAreOfTheirGeneration, RowIsOfItsGeneration, TicketsFollowRows,
            TicketFollowsRow
    <2> QED
      BY <1>16, <2>1, <2>2, <2>3, <2>4 DEF Inject
  <1>17. ASSUME NEW f \in Flushers, Settle(f)
        PROVE  TypeOK' /\ Control'
    <2>1. ASSUME ~Mine(f), NextItem(f), UNCHANGED <<ticket, row, ahead>>
          PROVE  TypeOK' /\ Control'
      <3>1. flush[f].on \in Deliveries
        BY <1>17, <2>1, <1>b, <1>c, <1>f DEF Settle, At, FlushersWork, FlusherWorks
      <3>2. flush' \in [Flushers -> FlushState] /\ Moves(f, "claim", None)
        BY <1>17, <2>1, <3>1, <1>a, NextItemMoves DEF Settle
      <3>3. UNCHANGED <<session, ticket, run, row, ahead, notice, copies, visible, late>>
        BY <1>17, <2>1 DEF Settle
      <3>4. faults' \in FaultCount /\ Excuses' >= Excuses
        BY <1>17, <2>1, <1>a, ExcusesAreNat DEF Settle, Excuses
      <3> QED
        BY <3>1, <3>2, <3>3, <3>4, MoveKeeps DEF Places
    <2>2. ASSUME Mine(f), ~Current(flush[f].on), Goto(f, "suppress"), UNCHANGED <<ticket, row, ahead>>
          PROVE  TypeOK' /\ Control'
      <3>1. flush[f].on \in Deliveries /\ row[flush[f].on].gen # session[SessionOf[flush[f].on]].gen
        BY <1>17, <2>2, <1>b, <1>c, <1>f
        DEF Settle, At, FlushersWork, FlusherWorks, Current, Active, RowsAreOfTheirGeneration,
            RowIsOfItsGeneration
      <3>2. flush' \in [Flushers -> FlushState] /\ Moves(f, "suppress", flush[f].on)
        BY <1>17, <2>2, <3>1, <1>a, GotoMoves DEF Settle, Places
      <3>3. UNCHANGED <<session, ticket, run, row, ahead, notice, copies, visible, late>>
        BY <1>17, <2>2 DEF Settle
      <3>4. faults' \in FaultCount /\ Excuses' >= Excuses
        BY <1>17, <2>2, <1>a, ExcusesAreNat DEF Settle, Excuses
      <3> QED
        BY <3>1, <3>2, <3>3, <3>4, MoveKeeps DEF Places
    <2>3. ASSUME flush[f].on \in Wakes, Goto(f, "complete"), UNCHANGED <<ticket, row, ahead>>
          PROVE  TypeOK' /\ Control'
      <3>1. flush[f].on \in Deliveries /\ flush[f].on \in Wakes /\ copies[flush[f].on] > 0
        BY <1>17, <2>3, <1>b, <1>c, <1>f DEF Settle, At, FlushersWork, FlusherWorks
      <3>2. flush' \in [Flushers -> FlushState] /\ Moves(f, "complete", flush[f].on)
        BY <1>17, <2>3, <3>1, <1>a, GotoMoves DEF Settle, Places
      <3>3. UNCHANGED <<session, ticket, run, row, ahead, notice, copies, visible, late>>
        BY <1>17, <2>3 DEF Settle
      <3>4. faults' \in FaultCount /\ Excuses' >= Excuses
        BY <1>17, <2>3, <1>a, ExcusesAreNat DEF Settle, Excuses
      <3> QED
        BY <3>1, <3>2, <3>3, <3>4, MoveKeeps DEF Places
    <2>4. ASSUME Mine(f), Current(flush[f].on), flush[f].on \in Direct,
                 ticket[flush[f].on] \in {"accepted", "completed"},
                 ticket' = [ticket EXCEPT ![flush[f].on] = "completed"],
                 Dequeue({flush[f].on}, "delivered"), NextItem(f)
          PROVE  TypeOK' /\ Control'
      <3> DEFINE d == flush[f].on
      <3>1. /\ d \in Direct /\ d \in Deliveries /\ Pending(d) /\ copies[d] > 0 /\ flush[f].at = "settle" /\ flush[f].on = d
            /\ ticket[d] \in {"accepted", "completed"}
        BY <1>17, <2>4, <1>b, <1>c DEF Settle, At, Mine, FlushersWork, FlusherWorks
      <3>2. ticket' = [ticket EXCEPT ![d] = "completed"]
        BY <1>17, <2>4
      <3>3. Dequeue({d}, "delivered")
        BY <1>17, <2>4
      <3> HIDE DEF d
      <3>4. /\ d \in Direct /\ d \in Deliveries /\ Pending(d) /\ copies[d] > 0 /\ flush[f].at = "settle" /\ flush[f].on = d
            /\ ticket[d] \in {"accepted", "completed"}
        BY <1>17, <2>4, <3>1, <1>a, <1>c DEF Settle
      <3>5. /\ ticket' \in [Direct -> TicketStates] /\ ticket'[d] = "completed"
            /\ \A e \in Direct \ {d} : ticket'[e] = ticket[e]
        BY <1>17, <2>4, <3>1, <3>2, <1>a, <1>c DEF Settle, TicketStates
      <3>6. /\ row' \in [Deliveries -> DeliveryRow] /\ ahead' \in [Deliveries -> SUBSET Deliveries]
            /\ Leaves({d}, "delivered")
        BY <1>17, <2>4, <3>1, <3>3, DequeueLeaves, <1>a, <1>c DEF Settle
      <3>7. /\ flush' \in [Flushers -> FlushState]
            /\ Moves(f, "claim", None)
        BY <1>17, <2>4, NextItemMoves, <1>a, <1>c DEF Settle
      <3>8. UNCHANGED <<session, run, notice, copies, visible, late, faults>>
        BY <1>17, <2>4 DEF Settle
      <3>9. \A e \in Deliveries : Taken(e) => Taken(e)' /\ row'[e].gen = row[e].gen
        BY <3>4, <3>5, <3>6, <3>7, <3>8, <1>a, <1>c DEF Taken, Leaves, Moves, Pending
      <3>10. DeliveredWasShown'
        BY <1>a, <1>b, <1>c, <3>4, <3>5, <3>6, <3>7, <3>8, <3>9
        DEF DeliveredWasShown, Leaves, Moves, Pending
      <3>11. RowAndTicketAgree'
        BY <1>a, <1>b, <1>c, <3>4, <3>5, <3>6, <3>7, <3>8, <3>9
        DEF RowAndTicketAgree, Leaves, Moves, Pending
      <3>12. ASSUME NEW g \in Flushers PROVE FlusherWorks(g)'
        <4>1. FlusherWorks(g)
          BY <1>b DEF FlushersWork
        <4>2. CASE g # f
          BY <4>1, <4>2, <3>4, <3>5, <3>6, <3>7, <3>8, <3>9, <1>c, <1>f DEF FlusherWorks, Taken, Moves
        <4>3. CASE g = f
          BY <4>1, <4>3, <3>4, <3>5, <3>6, <3>7, <3>8, <3>9, <1>c, <1>f DEF FlusherWorks, Taken, Moves
        <4> QED
          BY <4>2, <4>3
      <3>13. \A e \in late' : Taken(e)'
        BY <1>a, <1>b, <1>c, <3>4, <3>5, <3>6, <3>7, <3>8, <3>9 DEF FlushersWork, Taken
      <3>14. ASSUME NEW e \in Deliveries PROVE RowIsOfItsGeneration(e)'
        <4>1. RowIsOfItsGeneration(e)
          BY <1>b DEF RowsAreOfTheirGeneration
        <4>2. CASE e \notin {d}
          BY <4>1, <4>2, <3>4, <3>5, <3>6, <3>7, <3>8, <3>9, <1>c, <1>d, <1>e
          DEF RowIsOfItsGeneration, Leaves, Moves, Pending
        <4>3. CASE e \in {d}
          BY <4>1, <4>3, <3>4, <3>5, <3>6, <3>7, <3>8, <3>9, <1>c, <1>d, <1>e
          DEF RowIsOfItsGeneration, Leaves, Moves, Pending
        <4> QED
          BY <4>2, <4>3
      <3>15. ASSUME NEW e \in Direct PROVE TicketFollowsRow(e)'
        <4>1. TicketFollowsRow(e)
          BY <1>b DEF TicketsFollowRows
        <4>2. CASE e \notin {d}
          BY <4>1, <4>2, <3>4, <3>5, <3>6, <3>7, <3>8, <3>9, <1>c
          DEF TicketFollowsRow, Leaves, Moves, Pending
        <4>3. CASE e \in {d}
          BY <4>1, <4>3, <3>4, <3>5, <3>6, <3>7, <3>8, <3>9, <1>c
          DEF TicketFollowsRow, Leaves, Moves, Pending
        <4> QED
          BY <4>2, <4>3
      <3>16. TypeOK'
        BY <1>a, <3>4, <3>5, <3>6, <3>7, <3>8 DEF TypeOK
      <3>17. ASSUME NEW e \in Deliveries PROVE Covered(e)'
        <4>1. CASE e \notin {d}
          <5>1. Covered(e)
            BY <1>b DEF CopiesAreCovered
          <5>2. copies'[e] = copies[e] /\ Excuses' >= Excuses
            BY <3>4, <3>5, <3>6, <3>7, <3>8, <4>1, <1>a, ExcusesAreNat DEF Excuses
          <5>3. row'[e] = row[e]
            BY <3>4, <3>5, <3>6, <3>7, <3>8, <4>1 DEF Leaves
          <5>4. Exposed(e)' \subseteq Exposed(e)
            BY <3>4, <3>5, <3>6, <3>7, <3>8, <4>1, <5>3, <1>c
            DEF Exposed, Showing, Looking, Owns, Unseen, Pending, Moves
          <5>5. Unseen(e)' => Unseen(e) /\ Strays(e)' \subseteq Strays(e)
            BY <3>4, <3>5, <3>6, <3>7, <3>8, <4>1, <5>3, <1>c
            DEF Strays, Showing, Looking, Owns, Unseen, Pending, Moves
          <5> QED
            BY <5>1, <5>2, <5>4, <5>5, <3>16, CoveredStays
        <4>2. CASE e \in {d} /\ e \in visible
          <5>1. Covered(e)
            BY <1>b DEF CopiesAreCovered
          <5>2. copies'[e] = copies[e] /\ Excuses' >= Excuses
            BY <3>4, <3>5, <3>6, <3>7, <3>8, <4>2, <1>a, ExcusesAreNat DEF Excuses
          <5>3. ~Pending(e)'
            BY <3>4, <3>5, <3>6, <3>7, <3>8, <4>2 DEF Leaves, Pending
          <5>4. Exposed(e)' \subseteq Exposed(e)
            BY <3>4, <3>5, <3>6, <3>7, <3>8, <4>2, <5>3, <1>c
            DEF Exposed, Showing, Looking, Owns, Unseen, Pending, Moves
          <5>5. Unseen(e)' => Unseen(e) /\ Strays(e)' \subseteq Strays(e)
            BY <3>4, <3>5, <3>6, <3>7, <3>8, <4>2, <5>3, <1>c
            DEF Strays, Showing, Looking, Owns, Unseen, Pending, Moves
          <5> QED
            BY <5>1, <5>2, <5>4, <5>5, <3>16, CoveredStays
        <4>3. CASE e \in {d} /\ e \notin visible
          <5>1. Covered(e) /\ Unseen(e)
            BY <1>b, <3>4, <3>5, <3>6, <3>7, <3>8, <4>3 DEF CopiesAreCovered, Unseen, Pending
          <5>2. copies'[e] = copies[e] /\ Excuses' >= Excuses
            BY <3>4, <3>5, <3>6, <3>7, <3>8, <4>3, <1>a, ExcusesAreNat DEF Excuses
          <5>3. ~Pending(e)'
            BY <3>4, <3>5, <3>6, <3>7, <3>8, <4>3 DEF Leaves, Pending
          <5>4. Exposed(e)' \subseteq Strays(e) \cup {row[e].holder}
            BY <3>4, <3>5, <3>6, <3>7, <3>8, <4>3, <5>3, <1>c
            DEF Exposed, Strays, Showing, Looking, Owns, Unseen, Pending, Moves
          <5>5. Unseen(e)' => Strays(e)' \subseteq Strays(e)
            BY <5>3 DEF Unseen
          <5> QED
            BY <5>1, <5>2, <5>4, <5>5, <3>16, CoveredByHolder
        <4> QED
          BY <4>1, <4>2, <4>3
      <3> QED
        BY <1>b, <3>10, <3>11, <3>12, <3>13, <3>14, <3>15, <3>16, <3>17, <3>8
        DEF Control, CopiesAreCovered, FlushersWork, RowsAreOfTheirGeneration, TicketsFollowRows,
            VisibleWasShown
    <2>5. ASSUME Goto(f, "failed"), UNCHANGED <<ticket, row, ahead>>
          PROVE  TypeOK' /\ Control'
      <3>1. flush[f].on \in Deliveries
        BY <1>17, <2>5, <1>b, <1>c, <1>f DEF Settle, At, FlushersWork, FlusherWorks
      <3>2. flush' \in [Flushers -> FlushState] /\ Moves(f, "failed", flush[f].on)
        BY <1>17, <2>5, <3>1, <1>a, GotoMoves DEF Settle, Places
      <3>3. UNCHANGED <<session, ticket, run, row, ahead, notice, copies, visible, late>>
        BY <1>17, <2>5 DEF Settle
      <3>4. faults' \in FaultCount /\ Excuses' >= Excuses
        BY <1>17, <2>5, <1>a, ExcusesAreNat DEF Settle, Excuses
      <3> QED
        BY <3>1, <3>2, <3>3, <3>4, MoveKeeps DEF Places
    <2> QED
      BY <1>17, <2>1, <2>2, <2>3, <2>4, <2>5 DEF Settle
  <1>18. ASSUME NEW f \in Flushers, WriteCompletion(f)
        PROVE  TypeOK' /\ Control'
    <2> DEFINE d == flush[f].on
    <2>1. d \in Wakes /\ d \in Deliveries /\ Taken(d) /\ copies[d] > 0 /\ flush[f].at = "complete" /\ flush[f].on = d
      BY <1>18, <1>b, <1>c DEF WriteCompletion, At, FlushersWork, FlusherWorks
    <2>2. notice' = [notice EXCEPT ![d] = "delivered"]
      BY <1>18 DEF WriteCompletion
    <2>3. flush' \in [Flushers -> FlushState] /\ Moves(f, "settle-again", d)
      BY <1>18, <1>a, GotoMoves DEF WriteCompletion, Places
    <2> HIDE DEF d
    <2>4. d \in Wakes /\ d \in Deliveries /\ Taken(d) /\ copies[d] > 0 /\ flush[f].at = "complete" /\ flush[f].on = d
      BY <1>18, <2>1, <1>a, <1>c DEF WriteCompletion
    <2>5. /\ notice' \in [Wakes -> {"pending", "delivered"}]
          /\ \A e \in Wakes \ {d} : notice'[e] = notice[e]
      BY <1>18, <2>2, <1>a, <1>c DEF WriteCompletion
    <2>6. /\ flush' \in [Flushers -> FlushState]
          /\ Moves(f, "settle-again", d)
      BY <1>18, <2>3, <1>a, <1>c DEF WriteCompletion
    <2>7. UNCHANGED <<session, ticket, run, row, ahead, copies, visible, late, faults>>
      BY <1>18 DEF WriteCompletion
    <2>8. DeliveredWasShown'
      BY <1>a, <1>b, <1>c, <2>4, <2>5, <2>6, <2>7 DEF DeliveredWasShown, Moves
    <2>9. ASSUME NEW g \in Flushers PROVE FlusherWorks(g)'
      <3>1. FlusherWorks(g)
        BY <1>b DEF FlushersWork
      <3>2. CASE g # f
        BY <3>1, <3>2, <2>4, <2>5, <2>6, <2>7, <1>c, <1>f DEF FlusherWorks, Taken, Moves
      <3>3. CASE g = f
        BY <3>1, <3>3, <2>4, <2>5, <2>6, <2>7, <1>c, <1>f DEF FlusherWorks, Taken, Moves
      <3> QED
        BY <3>2, <3>3
    <2>10. \A e \in late' : Taken(e)'
      BY <1>a, <1>b, <1>c, <2>4, <2>5, <2>6, <2>7 DEF FlushersWork, Taken
    <2>11. TypeOK'
      BY <1>a, <2>4, <2>5, <2>6, <2>7 DEF TypeOK
    <2>12. ASSUME NEW e \in Deliveries PROVE Covered(e)'
      <3>1. Covered(e)
        BY <1>b DEF CopiesAreCovered
      <3>2. copies'[e] = copies[e] /\ Excuses' >= Excuses
        BY <2>4, <2>5, <2>6, <2>7, <1>a, ExcusesAreNat DEF Excuses
      <3>3. Exposed(e)' \subseteq Exposed(e)
        BY <2>4, <2>5, <2>6, <2>7, <1>c DEF Exposed, Showing, Looking, Owns, Unseen, Pending, Moves
      <3>4. Unseen(e)' => Unseen(e) /\ Strays(e)' \subseteq Strays(e)
        BY <2>4, <2>5, <2>6, <2>7, <1>c DEF Strays, Showing, Looking, Owns, Unseen, Pending, Moves
      <3> QED
        BY <3>1, <3>2, <3>3, <3>4, <2>11, CoveredStays
    <2> QED
      BY <1>b, <2>8, <2>9, <2>10, <2>11, <2>12, <2>7
      DEF Control, CopiesAreCovered, FlushersWork, RowAndTicketAgree, VisibleWasShown,
          RowsAreOfTheirGeneration, RowIsOfItsGeneration, TicketsFollowRows, TicketFollowsRow
  <1>19. ASSUME NEW f \in Flushers, SettleWake(f)
        PROVE  TypeOK' /\ Control'
    <2>1. ASSUME ~Mine(f), NextItem(f), UNCHANGED <<row, ahead>>
          PROVE  TypeOK' /\ Control'
      <3>1. flush[f].on \in Deliveries
        BY <1>19, <2>1, <1>b, <1>c, <1>f DEF SettleWake, At, FlushersWork, FlusherWorks
      <3>2. flush' \in [Flushers -> FlushState] /\ Moves(f, "claim", None)
        BY <1>19, <2>1, <3>1, <1>a, NextItemMoves DEF SettleWake
      <3>3. UNCHANGED <<session, ticket, run, row, ahead, notice, copies, visible, late>>
        BY <1>19, <2>1 DEF SettleWake
      <3>4. faults' \in FaultCount /\ Excuses' >= Excuses
        BY <1>19, <2>1, <1>a, ExcusesAreNat DEF SettleWake, Excuses
      <3> QED
        BY <3>1, <3>2, <3>3, <3>4, MoveKeeps DEF Places
    <2>2. ASSUME ~Current(flush[f].on), Goto(f, "suppress"), UNCHANGED <<row, ahead>>
          PROVE  TypeOK' /\ Control'
      <3>1. flush[f].on \in Deliveries /\ row[flush[f].on].gen # session[SessionOf[flush[f].on]].gen
        BY <1>19, <2>2, <1>b, <1>c, <1>f
        DEF SettleWake, At, FlushersWork, FlusherWorks, Current, Active, RowsAreOfTheirGeneration,
            RowIsOfItsGeneration
      <3>2. flush' \in [Flushers -> FlushState] /\ Moves(f, "suppress", flush[f].on)
        BY <1>19, <2>2, <3>1, <1>a, GotoMoves DEF SettleWake, Places
      <3>3. UNCHANGED <<session, ticket, run, row, ahead, notice, copies, visible, late>>
        BY <1>19, <2>2 DEF SettleWake
      <3>4. faults' \in FaultCount /\ Excuses' >= Excuses
        BY <1>19, <2>2, <1>a, ExcusesAreNat DEF SettleWake, Excuses
      <3> QED
        BY <3>1, <3>2, <3>3, <3>4, MoveKeeps DEF Places
    <2>3. ASSUME Mine(f), Dequeue({flush[f].on}, "delivered"), NextItem(f)
          PROVE  TypeOK' /\ Control'
      <3> DEFINE d == flush[f].on
      <3>1. /\ d \in Wakes /\ d \in Deliveries /\ Pending(d) /\ copies[d] > 0 /\ flush[f].on = d
            /\ flush[f].at = "settle-again"
        BY <1>19, <2>3, <1>b, <1>c DEF SettleWake, At, Mine, FlushersWork, FlusherWorks
      <3>2. Dequeue({d}, "delivered")
        BY <1>19, <2>3
      <3> HIDE DEF d
      <3>3. /\ d \in Wakes /\ d \in Deliveries /\ Pending(d) /\ copies[d] > 0 /\ flush[f].on = d
            /\ flush[f].at = "settle-again"
        BY <1>19, <2>3, <3>1, <1>a, <1>c DEF SettleWake
      <3>4. /\ row' \in [Deliveries -> DeliveryRow] /\ ahead' \in [Deliveries -> SUBSET Deliveries]
            /\ Leaves({d}, "delivered")
        BY <1>19, <2>3, <3>1, <3>2, DequeueLeaves, <1>a, <1>c DEF SettleWake
      <3>5. /\ flush' \in [Flushers -> FlushState]
            /\ Moves(f, "claim", None)
        BY <1>19, <2>3, NextItemMoves, <1>a, <1>c DEF SettleWake
      <3>6. UNCHANGED <<session, ticket, run, notice, copies, visible, late, faults>>
        BY <1>19, <2>3 DEF SettleWake
      <3>7. \A e \in Deliveries : Taken(e) => Taken(e)' /\ row'[e].gen = row[e].gen
        BY <3>3, <3>4, <3>5, <3>6, <1>a, <1>c DEF Taken, Leaves, Moves, Pending
      <3>8. DeliveredWasShown'
        BY <1>a, <1>b, <1>c, <3>3, <3>4, <3>5, <3>6, <3>7 DEF DeliveredWasShown, Leaves, Moves, Pending
      <3>9. RowAndTicketAgree'
        BY <1>a, <1>b, <1>c, <3>3, <3>4, <3>5, <3>6, <3>7 DEF RowAndTicketAgree, Leaves, Moves, Pending
      <3>10. ASSUME NEW g \in Flushers PROVE FlusherWorks(g)'
        <4>1. FlusherWorks(g)
          BY <1>b DEF FlushersWork
        <4>2. CASE g # f
          BY <4>1, <4>2, <3>3, <3>4, <3>5, <3>6, <3>7, <1>c, <1>f DEF FlusherWorks, Taken, Moves
        <4>3. CASE g = f
          BY <4>1, <4>3, <3>3, <3>4, <3>5, <3>6, <3>7, <1>c, <1>f DEF FlusherWorks, Taken, Moves
        <4> QED
          BY <4>2, <4>3
      <3>11. \A e \in late' : Taken(e)'
        BY <1>a, <1>b, <1>c, <3>3, <3>4, <3>5, <3>6, <3>7 DEF FlushersWork, Taken
      <3>12. ASSUME NEW e \in Deliveries PROVE RowIsOfItsGeneration(e)'
        <4>1. RowIsOfItsGeneration(e)
          BY <1>b DEF RowsAreOfTheirGeneration
        <4>2. CASE e \notin {d}
          BY <4>1, <4>2, <3>3, <3>4, <3>5, <3>6, <3>7, <1>c, <1>d, <1>e
          DEF RowIsOfItsGeneration, Leaves, Moves, Pending
        <4>3. CASE e \in {d}
          BY <4>1, <4>3, <3>3, <3>4, <3>5, <3>6, <3>7, <1>c, <1>d, <1>e
          DEF RowIsOfItsGeneration, Leaves, Moves, Pending
        <4> QED
          BY <4>2, <4>3
      <3>13. ASSUME NEW e \in Direct PROVE TicketFollowsRow(e)'
        <4>1. TicketFollowsRow(e)
          BY <1>b DEF TicketsFollowRows
        <4>2. CASE e \notin {d}
          BY <4>1, <4>2, <3>3, <3>4, <3>5, <3>6, <3>7, <1>c DEF TicketFollowsRow, Leaves, Moves, Pending
        <4>3. CASE e \in {d}
          BY <4>1, <4>3, <3>3, <3>4, <3>5, <3>6, <3>7, <1>c DEF TicketFollowsRow, Leaves, Moves, Pending
        <4> QED
          BY <4>2, <4>3
      <3>14. TypeOK'
        BY <1>a, <3>3, <3>4, <3>5, <3>6 DEF TypeOK
      <3>15. ASSUME NEW e \in Deliveries PROVE Covered(e)'
        <4>1. CASE e \notin {d}
          <5>1. Covered(e)
            BY <1>b DEF CopiesAreCovered
          <5>2. copies'[e] = copies[e] /\ Excuses' >= Excuses
            BY <3>3, <3>4, <3>5, <3>6, <4>1, <1>a, ExcusesAreNat DEF Excuses
          <5>3. row'[e] = row[e]
            BY <3>3, <3>4, <3>5, <3>6, <4>1 DEF Leaves
          <5>4. Exposed(e)' \subseteq Exposed(e)
            BY <3>3, <3>4, <3>5, <3>6, <4>1, <5>3, <1>c
            DEF Exposed, Showing, Looking, Owns, Unseen, Pending, Moves
          <5>5. Unseen(e)' => Unseen(e) /\ Strays(e)' \subseteq Strays(e)
            BY <3>3, <3>4, <3>5, <3>6, <4>1, <5>3, <1>c
            DEF Strays, Showing, Looking, Owns, Unseen, Pending, Moves
          <5> QED
            BY <5>1, <5>2, <5>4, <5>5, <3>14, CoveredStays
        <4>2. CASE e \in {d} /\ e \in visible
          <5>1. Covered(e)
            BY <1>b DEF CopiesAreCovered
          <5>2. copies'[e] = copies[e] /\ Excuses' >= Excuses
            BY <3>3, <3>4, <3>5, <3>6, <4>2, <1>a, ExcusesAreNat DEF Excuses
          <5>3. ~Pending(e)'
            BY <3>3, <3>4, <3>5, <3>6, <4>2 DEF Leaves, Pending
          <5>4. Exposed(e)' \subseteq Exposed(e)
            BY <3>3, <3>4, <3>5, <3>6, <4>2, <5>3, <1>c
            DEF Exposed, Showing, Looking, Owns, Unseen, Pending, Moves
          <5>5. Unseen(e)' => Unseen(e) /\ Strays(e)' \subseteq Strays(e)
            BY <3>3, <3>4, <3>5, <3>6, <4>2, <5>3, <1>c
            DEF Strays, Showing, Looking, Owns, Unseen, Pending, Moves
          <5> QED
            BY <5>1, <5>2, <5>4, <5>5, <3>14, CoveredStays
        <4>3. CASE e \in {d} /\ e \notin visible
          <5>1. Covered(e) /\ Unseen(e)
            BY <1>b, <3>3, <3>4, <3>5, <3>6, <4>3 DEF CopiesAreCovered, Unseen, Pending
          <5>2. copies'[e] = copies[e] /\ Excuses' >= Excuses
            BY <3>3, <3>4, <3>5, <3>6, <4>3, <1>a, ExcusesAreNat DEF Excuses
          <5>3. ~Pending(e)'
            BY <3>3, <3>4, <3>5, <3>6, <4>3 DEF Leaves, Pending
          <5>4. Exposed(e)' \subseteq Strays(e) \cup {row[e].holder}
            BY <3>3, <3>4, <3>5, <3>6, <4>3, <5>3, <1>c
            DEF Exposed, Strays, Showing, Looking, Owns, Unseen, Pending, Moves
          <5>5. Unseen(e)' => Strays(e)' \subseteq Strays(e)
            BY <5>3 DEF Unseen
          <5> QED
            BY <5>1, <5>2, <5>4, <5>5, <3>14, CoveredByHolder
        <4> QED
          BY <4>1, <4>2, <4>3
      <3> QED
        BY <1>b, <3>8, <3>9, <3>10, <3>11, <3>12, <3>13, <3>14, <3>15, <3>6
        DEF Control, CopiesAreCovered, FlushersWork, RowsAreOfTheirGeneration, TicketsFollowRows,
            VisibleWasShown
    <2> QED
      BY <1>19, <2>1, <2>2, <2>3 DEF SettleWake
  <1>20. ASSUME NEW f \in Flushers, MarkFailed(f)
        PROVE  TypeOK' /\ Control'
    <2>1. ASSUME Mine(f), Release(flush[f].on, TRUE)
          PROVE  TypeOK' /\ Control'
      <3> DEFINE d == flush[f].on B == flush[f].blocked \cup {SessionOf[d]}
      <3>1. /\ d \in Deliveries /\ Pending(d) /\ row[d].holder = f /\ flush[f].on = d /\ Taken(d)
            /\ flush[f].at = "failed"
        BY <1>20, <2>1, <1>b, <1>c, <1>f DEF MarkFailed, At, Mine, FlushersWork, FlusherWorks
      <3>2. Release(d, TRUE)
        BY <1>20, <2>1
      <3>3. flush' = [flush EXCEPT ![f] = [at |-> "claim", on |-> None, blocked |-> B]] /\ B \in SUBSET Sessions
        BY <1>20, <2>1, <3>1, <1>a, <1>c DEF MarkFailed, FlushState
      <3>4. flush' \in [Flushers -> FlushState] /\ Moves(f, "claim", None)
        BY <3>3, <1>a, RestMoves DEF Places
      <3> HIDE DEF d, B
      <3>5. /\ d \in Deliveries /\ Pending(d) /\ row[d].holder = f /\ flush[f].on = d /\ Taken(d)
            /\ flush[f].at = "failed"
        BY <1>20, <2>1, <3>1, <1>a, <1>c DEF MarkFailed
      <3>6. /\ row' \in [Deliveries -> DeliveryRow]
            /\ Takes(d, None, "none")
        BY <1>20, <2>1, <3>1, <3>2, ReleaseTakes, <1>a, <1>c DEF MarkFailed
      <3>7. /\ flush' \in [Flushers -> FlushState]
            /\ Moves(f, "claim", None)
        BY <1>20, <2>1, <3>4, <1>a, <1>c DEF MarkFailed
      <3>8. UNCHANGED <<session, ticket, run, ahead, notice, copies, visible, late, faults>>
        BY <1>20, <2>1 DEF MarkFailed
      <3>9. \A e \in Deliveries : Taken(e) => Taken(e)' /\ row'[e].gen = row[e].gen
        BY <3>5, <3>6, <3>7, <3>8, <1>a, <1>c DEF Taken, Takes, Moves
      <3>10. DeliveredWasShown'
        BY <1>a, <1>b, <1>c, <3>5, <3>6, <3>7, <3>8, <3>9 DEF DeliveredWasShown, Takes, Moves
      <3>11. RowAndTicketAgree'
        BY <1>a, <1>b, <1>c, <3>5, <3>6, <3>7, <3>8, <3>9 DEF RowAndTicketAgree, Takes, Moves
      <3>12. ASSUME NEW g \in Flushers PROVE FlusherWorks(g)'
        <4>1. FlusherWorks(g)
          BY <1>b DEF FlushersWork
        <4>2. CASE g # f
          BY <4>1, <4>2, <3>5, <3>6, <3>7, <3>8, <3>9, <1>c, <1>f DEF FlusherWorks, Taken, Moves
        <4>3. CASE g = f
          BY <4>1, <4>3, <3>5, <3>6, <3>7, <3>8, <3>9, <1>c, <1>f DEF FlusherWorks, Taken, Moves
        <4> QED
          BY <4>2, <4>3
      <3>13. \A e \in late' : Taken(e)'
        BY <1>a, <1>b, <1>c, <3>5, <3>6, <3>7, <3>8, <3>9 DEF FlushersWork, Taken
      <3>14. ASSUME NEW e \in Deliveries PROVE RowIsOfItsGeneration(e)'
        <4>1. RowIsOfItsGeneration(e)
          BY <1>b DEF RowsAreOfTheirGeneration
        <4>2. CASE e # d
          BY <4>1, <4>2, <3>5, <3>6, <3>7, <3>8, <3>9, <1>c, <1>d, <1>e
          DEF RowIsOfItsGeneration, Takes, Moves
        <4>3. CASE e = d
          BY <4>1, <4>3, <3>5, <3>6, <3>7, <3>8, <3>9, <1>c, <1>d, <1>e
          DEF RowIsOfItsGeneration, Takes, Moves
        <4> QED
          BY <4>2, <4>3
      <3>15. ASSUME NEW e \in Direct PROVE TicketFollowsRow(e)'
        <4>1. TicketFollowsRow(e)
          BY <1>b DEF TicketsFollowRows
        <4>2. CASE e # d
          BY <4>1, <4>2, <3>5, <3>6, <3>7, <3>8, <3>9, <1>c DEF TicketFollowsRow, Takes, Moves
        <4>3. CASE e = d
          BY <4>1, <4>3, <3>5, <3>6, <3>7, <3>8, <3>9, <1>c DEF TicketFollowsRow, Takes, Moves
        <4> QED
          BY <4>2, <4>3
      <3>16. TypeOK'
        BY <1>a, <3>5, <3>6, <3>7, <3>8 DEF TypeOK
      <3>17. ASSUME NEW e \in Deliveries PROVE Covered(e)'
        <4>1. Covered(e)
          BY <1>b DEF CopiesAreCovered
        <4>2. copies'[e] = copies[e] /\ Excuses' >= Excuses
          BY <3>5, <3>6, <3>7, <3>8, <1>a, ExcusesAreNat DEF Excuses
        <4>3. Exposed(e)' \subseteq Exposed(e)
          BY <3>5, <3>6, <3>7, <3>8, <1>c
          DEF Exposed, Showing, Looking, Owns, Unseen, Pending, Takes, Moves
        <4>4. Unseen(e)' => Unseen(e) /\ Strays(e)' \subseteq Strays(e)
          BY <3>5, <3>6, <3>7, <3>8, <1>c
          DEF Strays, Showing, Looking, Owns, Unseen, Pending, Takes, Moves
        <4> QED
          BY <4>1, <4>2, <4>3, <4>4, <3>16, CoveredStays
      <3> QED
        BY <1>b, <3>10, <3>11, <3>12, <3>13, <3>14, <3>15, <3>16, <3>17, <3>8
        DEF Control, CopiesAreCovered, FlushersWork, RowsAreOfTheirGeneration, TicketsFollowRows,
            VisibleWasShown
    <2>2. ASSUME ~Mine(f), row' = row
          PROVE  TypeOK' /\ Control'
      <3> DEFINE B == flush[f].blocked \cup {SessionOf[flush[f].on]}
      <3>1. flush[f].on \in Deliveries
        BY <1>20, <2>2, <1>b, <1>f DEF MarkFailed, At, FlushersWork, FlusherWorks
      <3>2. flush' = [flush EXCEPT ![f] = [at |-> "claim", on |-> None, blocked |-> B]] /\ B \in SUBSET Sessions
        BY <1>20, <2>2, <3>1, <1>a, <1>c DEF MarkFailed, FlushState
      <3>3. flush' \in [Flushers -> FlushState] /\ Moves(f, "claim", None)
        BY <3>2, <1>a, RestMoves DEF Places
      <3>4. UNCHANGED <<session, ticket, run, row, ahead, notice, copies, visible, late>>
        BY <1>20, <2>2 DEF MarkFailed
      <3>5. faults' \in FaultCount /\ Excuses' >= Excuses
        BY <1>20, <2>2, <1>a, ExcusesAreNat DEF MarkFailed, Excuses
      <3> QED
        BY <3>3, <3>4, <3>5, MoveKeeps DEF Places
    <2> QED
      BY <1>20, <2>1, <2>2 DEF MarkFailed
  <1>21. ASSUME NEW f \in Flushers, Crash(f)
        PROVE  TypeOK' /\ Control'
    <2>1. flush[f] \in FlushState
      BY <1>21, <1>a DEF Crash, At
    <2>2. flush' \in [Flushers -> FlushState] /\ Moves(f, "idle", None)
      BY <1>21, <2>1, <1>a, RestMoves DEF Crash, Places
    <2>3. UNCHANGED <<session, ticket, run, row, ahead, notice, copies, visible, late>>
      BY <1>21 DEF Crash
    <2>4. faults' \in FaultCount /\ Excuses' >= Excuses
      <3>1. faults' = [faults EXCEPT !.crashes = faults.crashes + 1] /\ faults.crashes < MaxCrashes
        BY <1>21 DEF Crash
      <3> QED
        BY <3>1, <1>a, FaultCrashes, ExcusesAreNat DEF Excuses
    <2> QED
      BY <2>1, <2>2, <2>3, <2>4, MoveKeeps DEF Places
  <1>22. ASSUME NEW d \in Deliveries, InjectLate(d)
        PROVE  TypeOK' /\ Control'
    <2>1. d \in late /\ row[d].gen # NoGeneration /\ copies[d] \in Nat
      BY <1>22, <1>b, <1>a, <1>c DEF InjectLate, FlushersWork, Taken
    <2>2. late' = late \ {d}
      BY <1>22, <1>a, <1>c DEF InjectLate
    <2>3. /\ copies' \in [Deliveries -> Nat] /\ visible' \subseteq Deliveries
          /\ Shows(d)
      BY <1>22, ShowShows, <1>a, <1>c DEF InjectLate
    <2>4. UNCHANGED <<session, ticket, run, row, ahead, notice, flush, faults>>
      BY <1>22 DEF InjectLate
    <2>5. \A e \in Deliveries : copies[e] > 0 => copies'[e] > 0
      BY <2>1, <2>2, <2>3, <2>4, <1>a DEF Shows
    <2>6. DeliveredWasShown'
      BY <1>a, <1>b, <1>c, <2>1, <2>2, <2>3, <2>4, <2>5 DEF DeliveredWasShown
    <2>7. VisibleWasShown'
      BY <1>a, <1>b, <1>c, <2>1, <2>2, <2>3, <2>4, <2>5 DEF VisibleWasShown, Shows
    <2>8. ASSUME NEW g \in Flushers PROVE FlusherWorks(g)'
      <3>1. FlusherWorks(g)
        BY <1>b DEF FlushersWork
      <3> QED
        BY <3>1, <2>1, <2>2, <2>3, <2>4, <2>5, <1>c, <1>f DEF FlusherWorks, Taken
    <2>9. \A e \in late' : Taken(e)'
      BY <1>a, <1>b, <1>c, <2>1, <2>2, <2>3, <2>4, <2>5 DEF FlushersWork, Taken
    <2>10. ASSUME NEW e \in Deliveries PROVE RowIsOfItsGeneration(e)'
      <3>1. RowIsOfItsGeneration(e)
        BY <1>b DEF RowsAreOfTheirGeneration
      <3>2. CASE e # d
        BY <3>1, <3>2, <2>1, <2>2, <2>3, <2>4, <2>5, <1>c, <1>d, <1>e DEF RowIsOfItsGeneration, Shows
      <3>3. CASE e = d
        BY <3>1, <3>3, <2>1, <2>2, <2>3, <2>4, <2>5, <1>c, <1>d, <1>e DEF RowIsOfItsGeneration, Shows
      <3> QED
        BY <3>2, <3>3
    <2>11. ASSUME NEW e \in Direct PROVE TicketFollowsRow(e)'
      <3>1. TicketFollowsRow(e)
        BY <1>b DEF TicketsFollowRows
      <3>2. CASE e # d
        BY <3>1, <3>2, <2>1, <2>2, <2>3, <2>4, <2>5, <1>c DEF TicketFollowsRow, Shows
      <3>3. CASE e = d
        BY <3>1, <3>3, <2>1, <2>2, <2>3, <2>4, <2>5, <1>c DEF TicketFollowsRow, Shows
      <3> QED
        BY <3>2, <3>3
    <2>12. TypeOK'
      BY <1>a, <2>1, <2>2, <2>3, <2>4 DEF TypeOK
    <2>13. ASSUME NEW e \in Deliveries PROVE Covered(e)'
      <3>1. CASE e # d
        <4>1. Covered(e)
          BY <1>b DEF CopiesAreCovered
        <4>2. copies'[e] = copies[e] /\ Excuses' >= Excuses
          BY <2>1, <2>2, <2>3, <2>4, <3>1, <1>a, ExcusesAreNat DEF Excuses, Shows
        <4>3. Exposed(e)' \subseteq Exposed(e)
          BY <2>1, <2>2, <2>3, <2>4, <3>1, <1>c
          DEF Exposed, Showing, Looking, Owns, Unseen, Pending, Shows
        <4>4. Unseen(e)' => Unseen(e) /\ Strays(e)' \subseteq Strays(e)
          BY <2>1, <2>2, <2>3, <2>4, <3>1, <1>c
          DEF Strays, Showing, Looking, Owns, Unseen, Pending, Shows
        <4> QED
          BY <4>1, <4>2, <4>3, <4>4, <2>12, CoveredStays
      <3>2. CASE e = d
        <4>1. Covered(e) /\ None \in Exposed(e)
          BY <1>b, <2>1, <2>2, <2>3, <2>4, <3>2, <1>a, <1>c
          DEF CopiesAreCovered, Exposed, Showing, Looking
        <4>2. copies'[e] = copies[e] + 1 /\ Excuses' >= Excuses /\ e \in visible'
          BY <2>1, <2>2, <2>3, <2>4, <3>2, <1>a, <1>c, ExcusesAreNat DEF Excuses, Shows
        <4>3. Exposed(e)' \subseteq Exposed(e) \ {None}
          BY <2>1, <2>2, <2>3, <2>4, <3>2, <1>a, <1>c
          DEF Exposed, Strays, Showing, Looking, Owns, Unseen, Pending, Shows
        <4> QED
          BY <4>1, <4>2, <4>3, <2>12, CoveredShows
      <3> QED
        BY <3>1, <3>2
    <2> QED
      BY <1>b, <2>6, <2>7, <2>8, <2>9, <2>10, <2>11, <2>12, <2>13, <2>4
      DEF Control, CopiesAreCovered, FlushersWork, RowsAreOfTheirGeneration, TicketsFollowRows,
          RowAndTicketAgree
  <1>23. ASSUME NEW d \in Deliveries, Lapse(d)
        PROVE  TypeOK' /\ Control'
    <2>1. ASSUME ~Held(d), UNCHANGED faults
          PROVE  TypeOK' /\ Control'
      <3>1. ~Held(d) /\ Pending(d)
        BY <1>23, <2>1, <1>a, <1>c DEF Lapse
      <3>2. /\ row' \in [Deliveries -> DeliveryRow]
            /\ Takes(d, row[d].holder, "lapsed")
        BY <1>23, <2>1, LapseTakes, <1>a, <1>c DEF Lapse
      <3>3. UNCHANGED <<session, ticket, run, ahead, notice, copies, visible, flush, late, faults>>
        BY <1>23, <2>1 DEF Lapse
      <3>4. \A e \in Deliveries : Taken(e) => Taken(e)' /\ row'[e].gen = row[e].gen
        BY <3>1, <3>2, <3>3, <1>a, <1>c DEF Taken, Takes
      <3>5. DeliveredWasShown'
        BY <1>a, <1>b, <1>c, <3>1, <3>2, <3>3, <3>4 DEF DeliveredWasShown, Takes
      <3>6. RowAndTicketAgree'
        BY <1>a, <1>b, <1>c, <3>1, <3>2, <3>3, <3>4 DEF RowAndTicketAgree, Takes
      <3>7. ASSUME NEW g \in Flushers PROVE FlusherWorks(g)'
        <4>1. FlusherWorks(g)
          BY <1>b DEF FlushersWork
        <4> QED
          BY <4>1, <3>1, <3>2, <3>3, <3>4, <1>c, <1>f DEF FlusherWorks, Taken
      <3>8. \A e \in late' : Taken(e)'
        BY <1>a, <1>b, <1>c, <3>1, <3>2, <3>3, <3>4 DEF FlushersWork, Taken
      <3>9. ASSUME NEW e \in Deliveries PROVE RowIsOfItsGeneration(e)'
        <4>1. RowIsOfItsGeneration(e)
          BY <1>b DEF RowsAreOfTheirGeneration
        <4>2. CASE e # d
          BY <4>1, <4>2, <3>1, <3>2, <3>3, <3>4, <1>c, <1>d, <1>e DEF RowIsOfItsGeneration, Takes
        <4>3. CASE e = d
          BY <4>1, <4>3, <3>1, <3>2, <3>3, <3>4, <1>c, <1>d, <1>e DEF RowIsOfItsGeneration, Takes
        <4> QED
          BY <4>2, <4>3
      <3>10. ASSUME NEW e \in Direct PROVE TicketFollowsRow(e)'
        <4>1. TicketFollowsRow(e)
          BY <1>b DEF TicketsFollowRows
        <4>2. CASE e # d
          BY <4>1, <4>2, <3>1, <3>2, <3>3, <3>4, <1>c DEF TicketFollowsRow, Takes
        <4>3. CASE e = d
          BY <4>1, <4>3, <3>1, <3>2, <3>3, <3>4, <1>c DEF TicketFollowsRow, Takes
        <4> QED
          BY <4>2, <4>3
      <3>11. TypeOK'
        BY <1>a, <3>1, <3>2, <3>3 DEF TypeOK
      <3>12. ASSUME NEW e \in Deliveries PROVE Covered(e)'
        <4>1. CASE e # d
          <5>1. Covered(e)
            BY <1>b DEF CopiesAreCovered
          <5>2. copies'[e] = copies[e] /\ Excuses' >= Excuses
            BY <3>1, <3>2, <3>3, <4>1, <1>a, ExcusesAreNat DEF Excuses
          <5>3. Exposed(e)' \subseteq Exposed(e)
            BY <3>1, <3>2, <3>3, <4>1, <1>c DEF Exposed, Showing, Looking, Owns, Unseen, Pending, Takes
          <5>4. Unseen(e)' => Unseen(e) /\ Strays(e)' \subseteq Strays(e)
            BY <3>1, <3>2, <3>3, <4>1, <1>c DEF Strays, Showing, Looking, Owns, Unseen, Pending, Takes
          <5> QED
            BY <5>1, <5>2, <5>3, <5>4, <3>11, CoveredStays
        <4>2. CASE e = d
          <5>1. Covered(e)
            BY <1>b DEF CopiesAreCovered
          <5>2. copies'[e] = copies[e] /\ Excuses' >= Excuses
            BY <3>1, <3>2, <3>3, <4>2, <1>a, ExcusesAreNat DEF Excuses
          <5>3. Exposed(e)' \subseteq Exposed(e)
            BY <3>1, <3>2, <3>3, <4>2, <1>c
            DEF Exposed, Showing, Looking, Owns, Unseen, Pending, Takes, Held
          <5>4. Unseen(e)' => Unseen(e) /\ Strays(e)' \subseteq Strays(e)
            BY <3>1, <3>2, <3>3, <4>2, <1>c
            DEF Strays, Showing, Looking, Owns, Unseen, Pending, Takes, Held
          <5> QED
            BY <5>1, <5>2, <5>3, <5>4, <3>11, CoveredStays
        <4> QED
          BY <4>1, <4>2
      <3> QED
        BY <1>b, <3>5, <3>6, <3>7, <3>8, <3>9, <3>10, <3>11, <3>12, <3>3
        DEF Control, CopiesAreCovered, FlushersWork, RowsAreOfTheirGeneration, TicketsFollowRows,
            VisibleWasShown
    <2>2. ASSUME Held(d), faults.pauses < MaxPauses, faults' = [faults EXCEPT !.pauses = faults.pauses + 1]
          PROVE  TypeOK' /\ Control'
      <3>1. faults' = [faults EXCEPT !.pauses = faults.pauses + 1] /\ faults.pauses < MaxPauses
        BY <1>23, <2>2
      <3>2. /\ faults' \in FaultCount /\ faults'.pauses = faults.pauses + 1
           /\ faults'.lates = faults.lates /\ faults'.scrolls = faults.scrolls
        BY <1>a, <3>1, FaultPauses
      <3>3. Pending(d)
        BY <1>23, <2>2, <1>a, <1>c DEF Lapse
      <3>4. /\ row' \in [Deliveries -> DeliveryRow]
            /\ Takes(d, row[d].holder, "lapsed")
        BY <1>23, <2>2, LapseTakes, <1>a, <1>c DEF Lapse
      <3>5. /\ faults' \in FaultCount
            /\ faults'.pauses = faults.pauses + 1 /\ faults'.lates = faults.lates /\ faults'.scrolls = faults.scrolls
        BY <1>23, <2>2, <3>2, <1>a, <1>c DEF Lapse
      <3>6. UNCHANGED <<session, ticket, run, ahead, notice, copies, visible, flush, late>>
        BY <1>23, <2>2 DEF Lapse
      <3>7. \A e \in Deliveries : Taken(e) => Taken(e)' /\ row'[e].gen = row[e].gen
        BY <3>3, <3>4, <3>5, <3>6, <1>a, <1>c DEF Taken, Takes
      <3>8. DeliveredWasShown'
        BY <1>a, <1>b, <1>c, <3>3, <3>4, <3>5, <3>6, <3>7 DEF DeliveredWasShown, Takes
      <3>9. RowAndTicketAgree'
        BY <1>a, <1>b, <1>c, <3>3, <3>4, <3>5, <3>6, <3>7 DEF RowAndTicketAgree, Takes
      <3>10. ASSUME NEW g \in Flushers PROVE FlusherWorks(g)'
        <4>1. FlusherWorks(g)
          BY <1>b DEF FlushersWork
        <4> QED
          BY <4>1, <3>3, <3>4, <3>5, <3>6, <3>7, <1>c, <1>f DEF FlusherWorks, Taken
      <3>11. \A e \in late' : Taken(e)'
        BY <1>a, <1>b, <1>c, <3>3, <3>4, <3>5, <3>6, <3>7 DEF FlushersWork, Taken
      <3>12. ASSUME NEW e \in Deliveries PROVE RowIsOfItsGeneration(e)'
        <4>1. RowIsOfItsGeneration(e)
          BY <1>b DEF RowsAreOfTheirGeneration
        <4>2. CASE e # d
          BY <4>1, <4>2, <3>3, <3>4, <3>5, <3>6, <3>7, <1>c, <1>d, <1>e DEF RowIsOfItsGeneration, Takes
        <4>3. CASE e = d
          BY <4>1, <4>3, <3>3, <3>4, <3>5, <3>6, <3>7, <1>c, <1>d, <1>e DEF RowIsOfItsGeneration, Takes
        <4> QED
          BY <4>2, <4>3
      <3>13. ASSUME NEW e \in Direct PROVE TicketFollowsRow(e)'
        <4>1. TicketFollowsRow(e)
          BY <1>b DEF TicketsFollowRows
        <4>2. CASE e # d
          BY <4>1, <4>2, <3>3, <3>4, <3>5, <3>6, <3>7, <1>c DEF TicketFollowsRow, Takes
        <4>3. CASE e = d
          BY <4>1, <4>3, <3>3, <3>4, <3>5, <3>6, <3>7, <1>c DEF TicketFollowsRow, Takes
        <4> QED
          BY <4>2, <4>3
      <3>14. TypeOK'
        BY <1>a, <3>3, <3>4, <3>5, <3>6 DEF TypeOK
      <3>15. ASSUME NEW e \in Deliveries PROVE Covered(e)'
        <4>1. CASE e # d
          <5>1. Covered(e)
            BY <1>b DEF CopiesAreCovered
          <5>2. copies'[e] = copies[e] /\ Excuses' >= Excuses
            BY <3>3, <3>4, <3>5, <3>6, <4>1, <1>a DEF Excuses, FaultCount
          <5>3. Exposed(e)' \subseteq Exposed(e)
            BY <3>3, <3>4, <3>5, <3>6, <4>1, <1>c
            DEF Exposed, Showing, Looking, Owns, Unseen, Pending, Takes
          <5>4. Unseen(e)' => Unseen(e) /\ Strays(e)' \subseteq Strays(e)
            BY <3>3, <3>4, <3>5, <3>6, <4>1, <1>c
            DEF Strays, Showing, Looking, Owns, Unseen, Pending, Takes
          <5> QED
            BY <5>1, <5>2, <5>3, <5>4, <3>14, CoveredStays
        <4>2. CASE e = d
          <5>1. Covered(e)
            BY <1>b DEF CopiesAreCovered
          <5>2. copies'[e] = copies[e] /\ Excuses' = Excuses + 1
            BY <3>3, <3>4, <3>5, <3>6, <4>2, <1>a, <1>c DEF Excuses, FaultCount
          <5>3. Exposed(e)' \subseteq Exposed(e) \cup {row[e].holder}
            BY <3>3, <3>4, <3>5, <3>6, <4>2, <1>a, <1>c
            DEF Exposed, Strays, Showing, Looking, Owns, Unseen, Pending, Takes
          <5>4. Unseen(e)' => Unseen(e) /\ Strays(e)' \subseteq Strays(e) \cup {row[e].holder}
            BY <3>3, <3>4, <3>5, <3>6, <4>2, <1>a, <1>c
            DEF Exposed, Strays, Showing, Looking, Owns, Unseen, Pending, Takes
          <5> QED
            BY <5>1, <5>2, <5>3, <5>4, <3>14, CoveredByFault
        <4> QED
          BY <4>1, <4>2
      <3> QED
        BY <1>b, <3>8, <3>9, <3>10, <3>11, <3>12, <3>13, <3>14, <3>15, <3>6
        DEF Control, CopiesAreCovered, FlushersWork, RowsAreOfTheirGeneration, TicketsFollowRows,
            VisibleWasShown
    <2> QED
      BY <1>23, <2>1, <2>2 DEF Lapse
  <1>24. ASSUME NEW d \in Deliveries, Cool(d)
        PROVE  TypeOK' /\ Control'
    <2>1. /\ row' \in [Deliveries -> DeliveryRow]
          /\ Takes(d, row[d].holder, row[d].lease)
      BY <1>24, CoolTakes, <1>a, <1>c DEF Cool
    <2>2. UNCHANGED <<session, ticket, run, ahead, notice, copies, visible, flush, late, faults>>
      BY <1>24 DEF Cool
    <2>3. \A e \in Deliveries : Taken(e) => Taken(e)' /\ row'[e].gen = row[e].gen
      BY <2>1, <2>2, <1>a, <1>c DEF Taken, Takes
    <2>4. DeliveredWasShown'
      BY <1>a, <1>b, <1>c, <2>1, <2>2, <2>3 DEF DeliveredWasShown, Takes
    <2>5. RowAndTicketAgree'
      BY <1>a, <1>b, <1>c, <2>1, <2>2, <2>3 DEF RowAndTicketAgree, Takes
    <2>6. ASSUME NEW g \in Flushers PROVE FlusherWorks(g)'
      <3>1. FlusherWorks(g)
        BY <1>b DEF FlushersWork
      <3> QED
        BY <3>1, <2>1, <2>2, <2>3, <1>c, <1>f DEF FlusherWorks, Taken
    <2>7. \A e \in late' : Taken(e)'
      BY <1>a, <1>b, <1>c, <2>1, <2>2, <2>3 DEF FlushersWork, Taken
    <2>8. ASSUME NEW e \in Deliveries PROVE RowIsOfItsGeneration(e)'
      <3>1. RowIsOfItsGeneration(e)
        BY <1>b DEF RowsAreOfTheirGeneration
      <3>2. CASE e # d
        BY <3>1, <3>2, <2>1, <2>2, <2>3, <1>c, <1>d, <1>e DEF RowIsOfItsGeneration, Takes
      <3>3. CASE e = d
        BY <3>1, <3>3, <2>1, <2>2, <2>3, <1>c, <1>d, <1>e DEF RowIsOfItsGeneration, Takes
      <3> QED
        BY <3>2, <3>3
    <2>9. ASSUME NEW e \in Direct PROVE TicketFollowsRow(e)'
      <3>1. TicketFollowsRow(e)
        BY <1>b DEF TicketsFollowRows
      <3>2. CASE e # d
        BY <3>1, <3>2, <2>1, <2>2, <2>3, <1>c DEF TicketFollowsRow, Takes
      <3>3. CASE e = d
        BY <3>1, <3>3, <2>1, <2>2, <2>3, <1>c DEF TicketFollowsRow, Takes
      <3> QED
        BY <3>2, <3>3
    <2>10. TypeOK'
      BY <1>a, <2>1, <2>2 DEF TypeOK
    <2>11. ASSUME NEW e \in Deliveries PROVE Covered(e)'
      <3>1. CASE e # d
        <4>1. Covered(e)
          BY <1>b DEF CopiesAreCovered
        <4>2. copies'[e] = copies[e] /\ Excuses' >= Excuses
          BY <2>1, <2>2, <3>1, <1>a, ExcusesAreNat DEF Excuses
        <4>3. Exposed(e)' \subseteq Exposed(e)
          BY <2>1, <2>2, <3>1, <1>c DEF Exposed, Showing, Looking, Owns, Unseen, Pending, Takes
        <4>4. Unseen(e)' => Unseen(e) /\ Strays(e)' \subseteq Strays(e)
          BY <2>1, <2>2, <3>1, <1>c DEF Strays, Showing, Looking, Owns, Unseen, Pending, Takes
        <4> QED
          BY <4>1, <4>2, <4>3, <4>4, <2>10, CoveredStays
      <3>2. CASE e = d
        <4>1. Covered(e)
          BY <1>b DEF CopiesAreCovered
        <4>2. copies'[e] = copies[e] /\ Excuses' >= Excuses
          BY <2>1, <2>2, <3>2, <1>a, ExcusesAreNat DEF Excuses
        <4>3. Exposed(e)' \subseteq Exposed(e)
          BY <2>1, <2>2, <3>2, <1>c DEF Exposed, Showing, Looking, Owns, Unseen, Pending, Takes
        <4>4. Unseen(e)' => Unseen(e) /\ Strays(e)' \subseteq Strays(e)
          BY <2>1, <2>2, <3>2, <1>c DEF Strays, Showing, Looking, Owns, Unseen, Pending, Takes
        <4> QED
          BY <4>1, <4>2, <4>3, <4>4, <2>10, CoveredStays
      <3> QED
        BY <3>1, <3>2
    <2> QED
      BY <1>b, <2>4, <2>5, <2>6, <2>7, <2>8, <2>9, <2>10, <2>11, <2>2
      DEF Control, CopiesAreCovered, FlushersWork, RowsAreOfTheirGeneration, TicketsFollowRows,
          VisibleWasShown
  <1>25. ASSUME NEW d \in Deliveries, Scroll(d)
        PROVE  TypeOK' /\ Control'
    <2>1. faults' = [faults EXCEPT !.scrolls = faults.scrolls + 1] /\ faults.scrolls < MaxScrolls
      BY <1>25 DEF Scroll
    <2>2. /\ faults' \in FaultCount /\ faults'.scrolls = faults.scrolls + 1
         /\ faults'.pauses = faults.pauses /\ faults'.lates = faults.lates
      BY <1>a, <2>1, FaultScrolls
    <2>3. Pending(d) /\ visible' = visible \ {d}
      BY <1>25, <1>a, <1>c DEF Scroll
    <2>4. /\ faults' \in FaultCount
          /\ faults'.scrolls = faults.scrolls + 1 /\ faults'.pauses = faults.pauses /\ faults'.lates = faults.lates
      BY <1>25, <2>2, <1>a, <1>c DEF Scroll
    <2>5. UNCHANGED <<session, ticket, run, row, ahead, notice, copies, flush, late>>
      BY <1>25 DEF Scroll
    <2>6. VisibleWasShown'
      BY <1>a, <1>b, <1>c, <2>3, <2>4, <2>5 DEF VisibleWasShown
    <2>7. ASSUME NEW e \in Deliveries PROVE RowIsOfItsGeneration(e)'
      <3>1. RowIsOfItsGeneration(e)
        BY <1>b DEF RowsAreOfTheirGeneration
      <3>2. CASE e # d
        BY <3>1, <3>2, <2>3, <2>4, <2>5, <1>c, <1>d, <1>e DEF RowIsOfItsGeneration
      <3>3. CASE e = d
        BY <3>1, <3>3, <2>3, <2>4, <2>5, <1>c, <1>d, <1>e DEF RowIsOfItsGeneration
      <3> QED
        BY <3>2, <3>3
    <2>8. TypeOK'
      BY <1>a, <2>3, <2>4, <2>5 DEF TypeOK
    <2>9. ASSUME NEW e \in Deliveries PROVE Covered(e)'
      <3>1. CASE e # d
        <4>1. Covered(e)
          BY <1>b DEF CopiesAreCovered
        <4>2. copies'[e] = copies[e] /\ Excuses' >= Excuses
          BY <2>3, <2>4, <2>5, <3>1, <1>a DEF Excuses, FaultCount
        <4>3. Exposed(e)' \subseteq Exposed(e)
          BY <2>3, <2>4, <2>5, <3>1, <1>c DEF Exposed, Showing, Looking, Owns, Unseen, Pending
        <4>4. Unseen(e)' => Unseen(e) /\ Strays(e)' \subseteq Strays(e)
          BY <2>3, <2>4, <2>5, <3>1, <1>c DEF Strays, Showing, Looking, Owns, Unseen, Pending
        <4> QED
          BY <4>1, <4>2, <4>3, <4>4, <2>8, CoveredStays
      <3>2. CASE e = d
        <4>1. Covered(e)
          BY <1>b DEF CopiesAreCovered
        <4>2. copies'[e] = copies[e] /\ Excuses' = Excuses + 1
          BY <2>3, <2>4, <2>5, <3>2, <1>a, <1>c DEF Excuses, FaultCount
        <4>3. Exposed(e)' \subseteq Exposed(e) \cup {None}
          BY <2>3, <2>4, <2>5, <3>2, <1>a, <1>c
          DEF Exposed, Strays, Showing, Looking, Owns, Unseen, Pending
        <4>4. Unseen(e)' => Strays(e)' \subseteq Exposed(e)
          BY <2>3, <2>4, <2>5, <3>2, <1>a, <1>c
          DEF Exposed, Strays, Showing, Looking, Owns, Unseen, Pending
        <4> QED
          BY <4>1, <4>2, <4>3, <4>4, <2>8, CoveredByFault
      <3> QED
        BY <3>1, <3>2
    <2> QED
      BY <1>b, <2>6, <2>7, <2>8, <2>9, <2>5
      DEF Control, CopiesAreCovered, RowsAreOfTheirGeneration, DeliveredWasShown, RowAndTicketAgree,
          FlushersWork, FlusherWorks, Taken, TicketsFollowRows, TicketFollowsRow
  <1>26. ASSUME CrashGateway
        PROVE  TypeOK' /\ Control'
    <2>1. faults' = [faults EXCEPT !.crashes = faults.crashes + 1] /\ faults.crashes < MaxCrashes
      BY <1>26 DEF CrashGateway
    <2>2. /\ faults' \in FaultCount /\ faults'.pauses = faults.pauses /\ faults'.lates = faults.lates
          /\ faults'.scrolls = faults.scrolls
      BY <1>a, <2>1, FaultCrashes
    <2>3. /\ run' \in [Direct -> RunStates]
          /\ \A d \in Direct : (run'[d] = run[d] /\ run[d] = "none") \/ run'[d] = "ended"
      BY <1>26, <1>a, <1>c DEF CrashGateway, RunStates
    <2>4. late' = {}
      BY <1>26, <1>a, <1>c DEF CrashGateway
    <2>5. /\ faults' \in FaultCount
          /\ faults'.pauses = faults.pauses /\ faults'.lates = faults.lates /\ faults'.scrolls = faults.scrolls
      BY <1>26, <2>2, <1>a, <1>c DEF CrashGateway
    <2>6. UNCHANGED <<session, ticket, row, ahead, notice, copies, visible, flush>>
      BY <1>26 DEF CrashGateway
    <2>7. ASSUME NEW g \in Flushers PROVE FlusherWorks(g)'
      <3>1. FlusherWorks(g)
        BY <1>b DEF FlushersWork
      <3> QED
        BY <3>1, <2>3, <2>4, <2>5, <2>6, <1>c, <1>f DEF FlusherWorks, Taken
    <2>8. \A e \in late' : Taken(e)'
      BY <1>a, <1>b, <1>c, <2>3, <2>4, <2>5, <2>6 DEF FlushersWork, Taken
    <2>9. ASSUME NEW e \in Direct PROVE TicketFollowsRow(e)'
      <3>1. TicketFollowsRow(e)
        BY <1>b DEF TicketsFollowRows
      <3> QED
        BY <3>1, <2>3, <2>4, <2>5, <2>6, <1>c DEF TicketFollowsRow
    <2>10. TypeOK'
      BY <1>a, <2>3, <2>4, <2>5, <2>6 DEF TypeOK
    <2>11. ASSUME NEW e \in Deliveries PROVE Covered(e)'
      <3>1. Covered(e)
        BY <1>b DEF CopiesAreCovered
      <3>2. copies'[e] = copies[e] /\ Excuses' >= Excuses
        BY <2>3, <2>4, <2>5, <2>6, <1>a DEF Excuses, FaultCount
      <3>3. Exposed(e)' \subseteq Exposed(e)
        BY <2>3, <2>4, <2>5, <2>6, <1>c DEF Exposed, Showing, Looking, Owns, Unseen, Pending
      <3>4. Unseen(e)' => Unseen(e) /\ Strays(e)' \subseteq Strays(e)
        BY <2>3, <2>4, <2>5, <2>6, <1>c DEF Strays, Showing, Looking, Owns, Unseen, Pending
      <3> QED
        BY <3>1, <3>2, <3>3, <3>4, <2>10, CoveredStays
    <2> QED
      BY <1>b, <2>7, <2>8, <2>9, <2>10, <2>11, <2>6
      DEF Control, CopiesAreCovered, FlushersWork, TicketsFollowRows, DeliveredWasShown,
          RowAndTicketAgree, VisibleWasShown, RowsAreOfTheirGeneration, RowIsOfItsGeneration
  <1> QED
    BY <1>1, <1>2, <1>3, <1>4, <1>5, <1>6, <1>7, <1>8, <1>9, <1>10, <1>11, <1>12, <1>13, <1>14, <1>15,
       <1>16, <1>17, <1>18, <1>19, <1>20, <1>21, <1>22, <1>23, <1>24, <1>25, <1>26 DEF Next, FlushStep

-----------------------------------------------------------------------------
(* The invariant. *)

\* The balance says what the copies are explained by.
LEMMA BalanceExplains ==
    ASSUME TypeOK, CopiesAreCovered
    PROVE  CopiesAreExplained
  <1> SUFFICES ASSUME NEW d \in Deliveries PROVE copies[d] <= 1 + faults.pauses + faults.lates + faults.scrolls
    BY DEF CopiesAreExplained
  <1> DEFINE n == copies[d] c == Cardinality(Exposed(d))
  <1>1. c \in Nat
    BY CountsAreFinite, FS_CardinalityType
  <1>2. n \in Nat /\ faults.pauses \in Nat /\ faults.lates \in Nat /\ faults.scrolls \in Nat
    BY HostDeliveryAssumption DEF TypeOK, FaultCount
  <1>3. n + c <= 1 + (faults.pauses + faults.lates + faults.scrolls)
    BY DEF CopiesAreCovered, Covered, Excuses
  <1> HIDE DEF n, c
  <1>4. n <= 1 + faults.pauses + faults.lates + faults.scrolls
    BY <1>1, <1>2, <1>3
  <1> QED
    BY <1>4 DEF n

\* At first nothing is shown and nobody works.
LEMMA InitEstablishes == Init => TypeOK /\ Control
  <1> SUFFICES ASSUME Init PROVE TypeOK /\ Control
    OBVIOUS
  <1>0. /\ Direct \subseteq Deliveries /\ Wakes \subseteq Deliveries /\ SessionOf \in [Deliveries -> Sessions]
        /\ None \notin Deliveries
    BY HostDeliveryAssumption DEF Deliveries
  <1>1. TypeOK
    <2>1. /\ [state |-> "active", gen |-> 0] \in SessionRow /\ NoRow \in DeliveryRow
          /\ [at |-> "idle", on |-> None, blocked |-> {}] \in FlushState
      BY DEF SessionRow, NoRow, DeliveryRow, FlushState, Places
    <2>2. [crashes |-> 0, pauses |-> 0, lates |-> 0, scrolls |-> 0] \in FaultCount
      BY HostDeliveryAssumption DEF FaultCount
    <2>3. /\ session \in [Sessions -> SessionRow] /\ row \in [Deliveries -> DeliveryRow]
          /\ flush \in [Flushers -> FlushState] /\ faults \in FaultCount
      BY <2>1, <2>2 DEF Init
    <2>4. /\ ticket \in [Direct -> TicketStates]
          /\ run \in [Direct -> RunStates]
          /\ ahead \in [Deliveries -> SUBSET Deliveries] /\ notice \in [Wakes -> {"pending", "delivered"}]
          /\ copies \in [Deliveries -> Nat] /\ visible \subseteq Deliveries /\ late \subseteq Deliveries
      BY DEF Init, TicketStates, RunStates
    <2> QED
      BY <2>3, <2>4 DEF TypeOK
  <1>2. /\ \A d \in Deliveries : row[d].status = "absent" /\ row[d].gen = NoGeneration /\ copies[d] = 0
        /\ \A f \in Flushers : flush[f].at = "idle" /\ flush[f].on = None
        /\ \A s \in Sessions : session[s].gen = 0
        /\ \A d \in Direct : ticket[d] = "none" /\ run[d] = "none"
        /\ \A d \in Wakes : notice[d] = "pending"
        /\ visible = {} /\ late = {}
    BY DEF Init, NoRow
  <1>3. faults.pauses = 0 /\ faults.lates = 0 /\ faults.scrolls = 0
    BY DEF Init
  <1>4. DeliveredWasShown /\ RowAndTicketAgree /\ VisibleWasShown
    BY <1>0, <1>2 DEF DeliveredWasShown, RowAndTicketAgree, VisibleWasShown
  <1>5. FlushersWork
    BY <1>2 DEF FlushersWork, FlusherWorks
  <1>6. RowsAreOfTheirGeneration /\ TicketsFollowRows
    BY <1>0, <1>2 DEF RowsAreOfTheirGeneration, RowIsOfItsGeneration, TicketsFollowRows, TicketFollowsRow,
                      NoGeneration
  <1>7. ASSUME NEW d \in Deliveries PROVE Covered(d)
    <2>1. Exposed(d) = {} /\ Strays(d) = {}
      BY <1>0, <1>2 DEF Exposed, Strays, Showing, Looking
    <2>2. Cardinality(Exposed(d)) = 0 /\ Cardinality(Strays(d)) = 0
      BY <2>1, FS_EmptySet
    <2>3. copies[d] = 0 /\ Excuses = 0
      BY <1>2, <1>3 DEF Excuses
    <2> QED
      BY <2>2, <2>3 DEF Covered
  <1> QED
    BY <1>1, <1>4, <1>5, <1>6, <1>7 DEF Control, CopiesAreCovered

\* A step that changes nothing changes nothing here.
LEMMA StutterKeeps ==
    ASSUME TypeOK, Control, UNCHANGED vars
    PROVE  TypeOK' /\ Control'
  <1>1. TypeOK'
    BY DEF TypeOK, vars
  <1>2. /\ DeliveredWasShown' /\ RowAndTicketAgree' /\ FlushersWork' /\ RowsAreOfTheirGeneration'
        /\ TicketsFollowRows' /\ VisibleWasShown'
    BY DEF Control, vars, DeliveredWasShown, RowAndTicketAgree, FlushersWork, FlusherWorks, Taken,
           RowsAreOfTheirGeneration, RowIsOfItsGeneration, TicketsFollowRows, TicketFollowsRow, VisibleWasShown
  <1>3. ASSUME NEW d \in Deliveries PROVE Covered(d)'
    <2>1. Covered(d)
      BY DEF Control, CopiesAreCovered
    <2>2. copies'[d] = copies[d] /\ Excuses' >= Excuses
      BY ExcusesAreNat DEF vars, Excuses, TypeOK
    <2>3. Exposed(d)' \subseteq Exposed(d)
      BY DEF vars, Exposed, Showing, Looking, Owns, Pending
    <2>4. Unseen(d)' => Unseen(d) /\ Strays(d)' \subseteq Strays(d)
      BY DEF vars, Unseen, Strays, Showing, Looking, Owns, Pending
    <2> QED
      BY <1>1, <2>1, <2>2, <2>3, <2>4, CoveredStays
  <1> QED
    BY <1>1, <1>2, <1>3 DEF Control, CopiesAreCovered

\* The types and the control are the invariant.
LEMMA InvIsControl == DeliveryInv <=> TypeOK /\ Control
  BY BalanceExplains DEF DeliveryInv, Control

\* Whatever flush processes, native runs, crashes, lapsed claims, late injections
\* and revocations do: what counts as delivered was shown, row and Ticket end
\* together, and every further copy has its cause (flush_deliveries(),
\* settle_delivery(), stageDashboardDirectResult(), settleDashboardNativeDelivery()).
THEOREM DeliveryIsSafe == Spec => []DeliveryInv
  <1>1. Init => DeliveryInv
    BY InitEstablishes, InvIsControl
  <1>2. DeliveryInv /\ [Next]_vars => DeliveryInv'
    <2>1. ASSUME DeliveryInv, [Next]_vars PROVE TypeOK' /\ Control'
      BY <2>1, ActionKeeps, StutterKeeps, InvIsControl
    <2>2. TypeOK' /\ Control' => DeliveryInv'
      BY InvIsControl, PTL
    <2> QED
      BY <2>1, <2>2
  <1> QED
    BY <1>1, <1>2, PTL DEF Spec

\* A settled row, a completed Ticket and a completion.json marked delivered each
\* have their message in the transcript (settle_delivery(), _write_completion()).
COROLLARY DeliveredIsShown == Spec => []DeliveredWasShown
  <1>1. DeliveryInv => DeliveredWasShown
    BY DEF DeliveryInv
  <1> QED
    BY <1>1, DeliveryIsSafe, PTL

\* A result has one copy more than the suspended holders, the late injections and
\* the scrolled markers, at most (flush_deliveries(): claim, history, inject).
COROLLARY CopiesHaveCauses == Spec => []CopiesAreExplained
  <1>1. DeliveryInv => CopiesAreExplained
    BY DEF DeliveryInv
  <1> QED
    BY <1>1, DeliveryIsSafe, PTL

-----------------------------------------------------------------------------
(* What a step may never do. *)

\* A pending row ends settled in its generation, or deleted after it.
LEMMA PendingEnds ==
    ASSUME TypeOK, Control, Next, NEW d \in Deliveries, Pending(d), row'[d].status # "pending"
    PROVE  \/ row'[d].status = "delivered" /\ Current(d)
           \/ row'[d].status = "absent" /\ (row'[d].gen # session'[SessionOf[d]].gen)
  <1> DEFINE Goal == \/ row'[d].status = "delivered" /\ Current(d)
                     \/ row'[d].status = "absent" /\ (row'[d].gen # session'[SessionOf[d]].gen)
  <1>a. /\ row \in [Deliveries -> DeliveryRow] /\ flush \in [Flushers -> FlushState]
        /\ session \in [Sessions -> SessionRow]
    BY DEF TypeOK
  <1>b. FlushersWork /\ RowsAreOfTheirGeneration /\ TicketsFollowRows
    BY DEF Control
  <1>c. Direct \subseteq Deliveries /\ Wakes \subseteq Deliveries /\ SessionOf \in [Deliveries -> Sessions]
    BY HostDeliveryAssumption DEF Deliveries
  <1>d. row'[d] # row[d] /\ row[d].status = "pending"
    BY DEF Pending
  <1> HIDE DEF Goal
  <1>1. ASSUME NEW e \in Deliveries, NEW h \in Flushers \cup {Native, None}, NEW l \in {"none", "live", "lapsed"},
               Insertable(e), Insert(e, h, l)
        PROVE  Goal
    <2>1. Enters(e, h, l)
      BY <1>1, InsertEnters
    <2>2. e # d
      BY <1>1, <1>d DEF Insertable
    <2> QED
      BY <1>d, <2>1, <2>2 DEF Enters
  <1>2. ASSUME NEW e \in Deliveries, NEW h, NEW l, Takes(e, h, l)
        PROVE  Goal
    BY <1>d, <1>2 DEF Takes, Pending
  <1>3. ASSUME NEW e \in Direct, SettleNative(e)
        PROVE  Goal
    <2>1. Dequeue({e}, "delivered") /\ ticket[e] = "accepted" /\ Pending(e)
      BY <1>d, <1>3 DEF SettleNative
    <2>2. Leaves({e}, "delivered")
      BY <1>c, <2>1, DequeueLeaves
    <2>3. e = d /\ row'[d].status = "delivered"
      BY <1>d, <2>2 DEF Leaves
    <2>4. Current(d)
      <3>1. TicketFollowsRow(d) /\ RowIsOfItsGeneration(d)
        BY <1>b, <1>3, <2>3 DEF TicketsFollowRows, RowsAreOfTheirGeneration
      <3> QED
        BY <1>d, <2>1, <2>3, <3>1 DEF TicketFollowsRow, RowIsOfItsGeneration, Current, Active
    <2> QED
      BY <2>3, <2>4 DEF Goal
  <1>4. ASSUME NEW s \in Sessions, NEW state \in {"active", "deleting"}, Revoke(s, state)
        PROVE  Goal
    <2> DEFINE D == {e \in Wakes : SessionOf[e] = s /\ Pending(e)}
    <2>1. D \subseteq Deliveries /\ \A e \in D : SessionOf[e] = s
      BY <1>c
    <2>2. Dequeue(D, "absent")
      BY <1>4 DEF Revoke
    <2> HIDE DEF D
    <2>3. Leaves(D, "absent")
      BY <2>1, <2>2, DequeueLeaves
    <2>4. d \in D /\ row'[d].status = "absent" /\ row'[d].gen = row[d].gen /\ SessionOf[d] = s
      BY <1>d, <2>1, <2>3 DEF Leaves
    <2>5. session'[s].gen = session[s].gen + 1 /\ \A t \in Sessions \ {s} : session'[t] = session[t]
      BY <1>4, <1>a DEF Revoke, SessionRow
    <2>6. row[d].gen # session'[SessionOf[d]].gen
      BY <1>b, <2>4, <2>5, GenerationPasses
    <2> QED
      BY <2>4, <2>6 DEF Goal
  <1>5. ASSUME NEW f \in Flushers, Suppress(f)
        PROVE  Goal
    <2> DEFINE D == {flush[f].on} \cap {e \in Deliveries : Pending(e)}
    <2>1. D \subseteq Deliveries /\ \A e \in D : e = flush[f].on
      OBVIOUS
    <2>2. Dequeue(D, "absent") /\ session' = session /\ flush[f].at = "suppress"
      BY <1>5 DEF Suppress, At
    <2> HIDE DEF D
    <2>3. Leaves(D, "absent")
      BY <2>1, <2>2, DequeueLeaves
    <2>4. d = flush[f].on /\ row'[d].status = "absent" /\ row'[d].gen = row[d].gen
      BY <1>d, <2>1, <2>3 DEF Leaves
    <2>5. row[d].gen # session[SessionOf[d]].gen
      BY <1>b, <2>2, <2>4 DEF FlushersWork, FlusherWorks
    <2> QED
      BY <2>2, <2>4, <2>5 DEF Goal
  <1>6. ASSUME NEW f \in Flushers, flush[f].on \in Deliveries, Current(flush[f].on), Dequeue({flush[f].on}, "delivered")
        PROVE  Goal
    <2>1. Leaves({flush[f].on}, "delivered")
      BY <1>6, DequeueLeaves
    <2>2. d = flush[f].on /\ row'[d].status = "delivered"
      BY <1>d, <1>6, <2>1 DEF Leaves
    <2> QED
      BY <1>6, <2>2 DEF Goal
  <1>7. ASSUME NEW f \in Flushers, Settle(f) \/ SettleWake(f)
        PROVE  Goal
    <2>1. Mine(f) /\ Current(flush[f].on) /\ Dequeue({flush[f].on}, "delivered")
      BY <1>7, <1>d DEF Settle, SettleWake
    <2>2. flush[f].on \in Deliveries
      <3>1. FlusherWorks(f) /\ flush[f] \in FlushState
        BY <1>a, <1>b DEF FlushersWork
      <3>2. flush[f].at \in {"settle", "settle-again"}
        BY <1>7 DEF Settle, SettleWake, At
      <3> QED
        BY <3>1, <3>2 DEF FlusherWorks, FlushState
    <2> QED
      BY <1>6, <2>1, <2>2
  <1>8. ASSUME NEW f \in Flushers, MarkFailed(f)
        PROVE  Goal
    <2>1. Release(flush[f].on, TRUE)
      BY <1>8, <1>d DEF MarkFailed
    <2>2. flush[f].on \in Deliveries
      <3>1. FlusherWorks(f) /\ flush[f] \in FlushState
        BY <1>a, <1>b DEF FlushersWork
      <3>2. flush[f].at = "failed"
        BY <1>8 DEF MarkFailed, At
      <3> QED
        BY <3>1, <3>2 DEF FlusherWorks, FlushState
    <2>3. Takes(flush[f].on, None, "none")
      BY <1>a, <2>1, <2>2, ReleaseTakes
    <2> QED
      BY <1>2, <2>2, <2>3
  <1>9. ASSUME NEW e \in Deliveries, Lapse(e) \/ Cool(e)
        PROVE  Goal
    <2>1. Takes(e, row[e].holder, "lapsed") \/ Takes(e, row[e].holder, row[e].lease)
      BY <1>9, <1>a, LapseTakes, CoolTakes DEF Lapse, Cool
    <2> QED
      BY <1>2, <2>1
  <1>10. ASSUME NEW f \in Flushers, ClaimNext(f)
         PROVE  Goal
    <2>1. PICK e \in Deliveries : Claims(e, f)
      BY <1>10 DEF ClaimNext, Claims
    <2>2. Takes(e, f, "live")
      BY <1>a, <2>1, ClaimTakes
    <2> QED
      BY <1>2, <2>2
  <1>11. ASSUME NEW e \in Deliveries, Stage(e) \/ QueueRecovered(e) \/ QueueWake(e)
         PROVE  Goal
    <2>1. Insertable(e) /\ (Insert(e, Native, "live") \/ Insert(e, None, "none"))
      BY <1>11, <1>d DEF Stage, QueueRecovered, QueueWake
    <2> QED
      BY <1>1, <2>1
  <1>12. \/ \E e \in Direct : SettleNative(e) \/ Stage(e) \/ QueueRecovered(e)
         \/ \E e \in Wakes : QueueWake(e)
         \/ \E s \in Sessions : \E state \in {"active", "deleting"} : Revoke(s, state)
         \/ \E f \in Flushers : ClaimNext(f) \/ Suppress(f) \/ Settle(f) \/ SettleWake(f) \/ MarkFailed(f)
         \/ \E e \in Deliveries : Lapse(e) \/ Cool(e)
         \/ row' = row
    BY DEF Next, FlushStep, Submit, AppendReply, EndRun, FollowLifecycle, Kick, EndFlush, CheckAuthority,
           ReadHistory, Inject, WriteCompletion, Crash, InjectLate, Scroll, CrashGateway
  <1>13. Goal
    BY <1>c, <1>d, <1>3, <1>4, <1>5, <1>7, <1>8, <1>9, <1>10, <1>11, <1>12
  <1> QED
    BY <1>13 DEF Goal

\* Nothing settles after the generation of its session has changed
\* (docs/releases/v0.9.0.md:28, settle_delivery(), settleDashboardNativeDelivery()).
THEOREM SettlementsAreCurrent == Spec => SettlesInItsGeneration
  <1>1. DeliveryInv /\ [Next]_vars => [\A d \in Deliveries : Pending(d) /\ row'[d].status = "delivered" => Current(d)]_vars
    <2> SUFFICES ASSUME DeliveryInv, Next, NEW d \in Deliveries, Pending(d), row'[d].status = "delivered"
                 PROVE  Current(d)
      OBVIOUS
    <2> QED
      BY PendingEnds, InvIsControl
  <1> QED
    BY <1>1, DeliveryIsSafe, PTL DEF Spec, SettlesInItsGeneration

\* A pending result leaves the table undelivered only without authority
\* (suppress_delivery(), revokeSession()).
THEOREM ValidResultsStay == Spec => NoValidResultIsLost
  <1>1. DeliveryInv /\ [Next]_vars => [\A d \in Deliveries : Pending(d) /\ row'[d].status = "absent" => ~Authoritative(d)']_vars
    <2> SUFFICES ASSUME DeliveryInv, Next, NEW d \in Deliveries, Pending(d), row'[d].status = "absent"
                 PROVE  ~Authoritative(d)'
      OBVIOUS
    <2>1. row'[d].gen # session'[SessionOf[d]].gen
      BY PendingEnds, InvIsControl
    <2> QED
      BY <2>1 DEF Authoritative, Current
  <1> QED
    BY <1>1, DeliveryIsSafe, PTL DEF Spec, NoValidResultIsLost

\* The Host shows a result for the first time only in its turn
\* (docs/releases/v0.9.0.md:27, claim_next_delivery()).
THEOREM TurnsAreKept == Spec => HostKeepsOrder
  <1>1. DeliveryInv /\ [Next]_vars =>
          [\A d \in Deliveries : copies[d] = 0 /\ copies'[d] = 1 /\ run' = run => ahead[d] = {}]_vars
    <2> SUFFICES ASSUME DeliveryInv, Next, NEW d \in Deliveries, copies[d] = 0, copies'[d] = 1, run' = run
                 PROVE  ahead[d] = {}
      OBVIOUS
    <2>a. /\ copies \in [Deliveries -> Nat] /\ run \in [Direct -> RunStates]
          /\ flush \in [Flushers -> FlushState] /\ FlushersWork /\ None \notin Deliveries
      BY InvIsControl, HostDeliveryAssumption DEF TypeOK, Control
    <2>1. ASSUME NEW e, Show(e), Taken(e) PROVE ahead[d] = {}
      <3>1. copies' = [copies EXCEPT ![e] = @ + 1]
        BY <2>1 DEF Show
      <3>2. e = d
        BY <2>a, <3>1
      <3> QED
        BY <2>1, <3>2 DEF Taken
    <2>2. ASSUME NEW e \in Direct, AppendReply(e) PROVE ahead[d] = {}
      BY <2>2, <2>a DEF AppendReply
    <2>3. ASSUME NEW f \in Flushers, Inject(f) PROVE ahead[d] = {}
      <3>1. Show(flush[f].on)
        BY <2>3 DEF Inject
      <3>2. Taken(flush[f].on)
        <4>1. FlusherWorks(f)
          BY <2>a DEF FlushersWork
        <4>2. flush[f].at = "inject"
          BY <2>3 DEF Inject, At
        <4> QED
          BY <4>1, <4>2 DEF FlusherWorks
      <3> QED
        BY <2>1, <3>1, <3>2
    <2>4. ASSUME NEW e \in Deliveries, InjectLate(e) PROVE ahead[d] = {}
      BY <2>1, <2>4, <2>a DEF InjectLate, FlushersWork
    <2>5. \/ \E e \in Direct : AppendReply(e)
          \/ \E f \in Flushers : Inject(f)
          \/ \E e \in Deliveries : InjectLate(e)
          \/ copies' = copies
      BY DEF Next, FlushStep, Submit, Stage, SettleNative, EndRun, QueueRecovered, QueueWake, Revoke,
             FollowLifecycle, Kick, ClaimNext, EndFlush, CheckAuthority, Suppress, ReadHistory, Settle,
             WriteCompletion, SettleWake, MarkFailed, Crash, Lapse, Cool, Scroll, CrashGateway
    <2> QED
      BY <2>2, <2>3, <2>4, <2>5
  <1> QED
    BY <1>1, DeliveryIsSafe, PTL DEF Spec, HostKeepsOrder
=============================================================================
