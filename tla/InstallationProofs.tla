------------------------- MODULE InstallationProofs -------------------------
(***************************************************************************)
(* What is proved of the two programs that change an installation, for any *)
(* number of commands, releases, crashes and failed steps: the state       *)
(* invariants and the action properties of HostLifecycle, and then those   *)
(* of NamespaceOwnership.                                                  *)
(*                                                                         *)
(* A command of the one and an installer run of the other are the list of  *)
(* steps they still have to take, so the argument has two halves.  The     *)
(* first is about lists: what the programs and the rollbacks have in       *)
(* common, and that a suffix of a list keeps it.  The second is about      *)
(* steps.  For HostLifecycle each action is summed up by what it does to   *)
(* the list and to the rest of the state, and each part of HostInv is      *)
(* shown to be preserved from these summaries; for NamespaceOwnership each *)
(* action is shown to preserve every part of OwnershipFits, which says     *)
(* what each mode of a run may rely on.                                    *)
(***************************************************************************)
EXTENDS HostLifecycle, NamespaceOwnership, SequenceTheorems, FiniteSetTheorems, TLAPS

-----------------------------------------------------------------------------
(* Lists of steps. *)

(* Where a stands, there is a b that still lies ahead.                      *)
Follows(q, a, b) == \A i \in 1..Len(q) : q[i] = a => \E j \in i..Len(q) : q[j] = b

(* Every a comes before every b.                                           *)
Before(q, a, b) == \A i, j \in 1..Len(q) : q[i] = a /\ q[j] = b => i < j

Once(q, a) == \A i, j \in 1..Len(q) : q[i] = a /\ q[j] = a => i = j
Within(q, S) == \A i \in 1..Len(q) : q[i] \in S

(* What stands directly behind a step, and directly before one.            *)
NextIs(q, a, b) == \A i \in 1..Len(q) : q[i] = a => i < Len(q) /\ q[i + 1] = b
LastWas(q, a, b) == \A i \in 1..Len(q) : i > 1 /\ q[i] = b => q[i - 1] = a

(* A suffix of a list is a list, starts with the step it was cut at, and   *)
(* goes on with the next suffix.                                           *)
LEMMA RestIs ==
  ASSUME NEW S, NEW q \in Seq(S), NEW n \in 1..Len(q)
  PROVE  /\ Rest(q, n) \in Seq(S)
         /\ Len(Rest(q, n)) = Len(q) - n + 1
         /\ \A i \in 1..(Len(q) - n + 1) : Rest(q, n)[i] = q[n + i - 1]
         /\ Rest(q, n) # <<>>
         /\ Head(Rest(q, n)) = q[n]
<1>1. n \in Int /\ Len(q) \in Int /\ n <= Len(q) /\ \A i \in n..Len(q) : q[i] \in S
  OBVIOUS
<1>2. /\ Rest(q, n) \in Seq(S)
      /\ Len(Rest(q, n)) = Len(q) - n + 1
      /\ \A i \in 1..(Len(q) - n + 1) : Rest(q, n)[i] = q[n + i - 1]
  BY <1>1, SubSeqProperties DEF Rest
<1>3. Head(Rest(q, n)) = q[n]
  BY <1>1, HeadTailOfSubSeq DEF Rest
<1>4. Rest(q, n) # <<>>
  BY <1>1, <1>2
<1> QED
  BY <1>2, <1>3, <1>4

LEMMA RestTail ==
  ASSUME NEW S, NEW q \in Seq(S), NEW n \in 1..Len(q)
  PROVE  /\ n < Len(q) => Tail(Rest(q, n)) = Rest(q, n + 1)
         /\ n = Len(q) => Tail(Rest(q, n)) = <<>>
  BY DEF Rest

LEMMA RestWhole ==
  ASSUME NEW S, NEW q \in Seq(S)
  PROVE  Rest(q, 1) = q
  BY DEF Rest

(* A place in a suffix is a place in the list.                             *)
LEMMA RestPlace ==
  ASSUME NEW S, NEW q \in Seq(S), NEW n \in 1..Len(q), NEW i \in 1..Len(Rest(q, n))
  PROVE  n + i - 1 \in 1..Len(q) /\ Rest(q, n)[i] = q[n + i - 1]
<1>1. Len(Rest(q, n)) = Len(q) - n + 1 /\ Len(q) \in Nat
  BY RestIs
<1>2. i \in 1..(Len(q) - n + 1)
  BY <1>1
<1>3. Rest(q, n)[i] = q[n + i - 1]
  BY <1>2, RestIs
<1> QED
  BY <1>1, <1>2, <1>3

(* A suffix keeps the order of a list.                                     *)
LEMMA RestKeeps ==
  ASSUME NEW S, NEW q \in Seq(S), NEW n \in 1..Len(q), NEW a, NEW b
  PROVE  /\ Follows(q, a, b) => Follows(Rest(q, n), a, b)
         /\ Before(q, a, b) => Before(Rest(q, n), a, b)
         /\ Once(q, a) => Once(Rest(q, n), a)
         /\ NextIs(q, a, b) => NextIs(Rest(q, n), a, b)
         /\ LastWas(q, a, b) => LastWas(Rest(q, n), a, b)
<1> DEFINE r == Rest(q, n)
           l == Len(q)
           m == Len(r)
<1>1. l \in Nat /\ n \in Nat /\ m \in Nat /\ m = l - n + 1 /\ n >= 1
  BY RestIs
<1>2. \A i \in 1..m : n + i - 1 \in 1..l /\ r[i] = q[n + i - 1]
  BY RestPlace
<1>3. \A k \in n..l : k - n + 1 \in 1..m /\ r[k - n + 1] = q[k]
  <2> TAKE k \in n..l
  <2>1. k - n + 1 \in 1..m /\ n + (k - n + 1) - 1 = k
    BY <1>1
  <2> QED
    BY <1>2, <2>1
<1>4. ASSUME Follows(q, a, b) PROVE Follows(r, a, b)
  <2> SUFFICES ASSUME NEW i \in 1..m, r[i] = a PROVE \E j \in i..m : r[j] = b
    BY DEF Follows
  <2>1. q[n + i - 1] = a /\ n + i - 1 \in 1..l
    BY <1>2
  <2>2. PICK k \in (n + i - 1)..l : q[k] = b
    BY <2>1, <1>4 DEF Follows
  <2> HIDE DEF r, l, m
  <2>3. k \in n..l /\ k - n + 1 \in i..m
    BY <1>1, <2>2
  <2>4. r[k - n + 1] = b
    BY <1>3, <2>2, <2>3
  <2> QED
    BY <2>3, <2>4
<1>5. ASSUME Before(q, a, b) PROVE Before(r, a, b)
  <2> SUFFICES ASSUME NEW i \in 1..m, NEW j \in 1..m, r[i] = a, r[j] = b PROVE i < j
    BY DEF Before
  <2>1. /\ q[n + i - 1] = a /\ n + i - 1 \in 1..l
        /\ q[n + j - 1] = b /\ n + j - 1 \in 1..l
    BY <1>2
  <2>2. n + i - 1 < n + j - 1
    BY <2>1, <1>5 DEF Before
  <2> HIDE DEF r, l, m
  <2> QED
    BY <1>1, <2>2
<1>6. ASSUME Once(q, a) PROVE Once(r, a)
  <2> SUFFICES ASSUME NEW i \in 1..m, NEW j \in 1..m, r[i] = a, r[j] = a PROVE i = j
    BY DEF Once
  <2>1. /\ q[n + i - 1] = a /\ n + i - 1 \in 1..l
        /\ q[n + j - 1] = a /\ n + j - 1 \in 1..l
    BY <1>2
  <2>2. n + i - 1 = n + j - 1
    BY <2>1, <1>6 DEF Once
  <2> HIDE DEF r, l, m
  <2> QED
    BY <1>1, <2>2
<1>7. ASSUME NextIs(q, a, b) PROVE NextIs(r, a, b)
  <2> SUFFICES ASSUME NEW i \in 1..m, r[i] = a PROVE i < m /\ r[i + 1] = b
    BY DEF NextIs
  <2>1. q[n + i - 1] = a /\ n + i - 1 \in 1..l
    BY <1>2
  <2>2. n + i - 1 < l /\ q[(n + i - 1) + 1] = b
    BY <2>1, <1>7 DEF NextIs
  <2> HIDE DEF r, l, m
  <2>3. i < m /\ n + i \in n..l /\ (n + i) - n + 1 = i + 1 /\ (n + i - 1) + 1 = n + i
    BY <1>1, <2>2
  <2> QED
    BY <1>3, <2>2, <2>3
<1>8. ASSUME LastWas(q, a, b) PROVE LastWas(r, a, b)
  <2> SUFFICES ASSUME NEW i \in 1..m, i > 1, r[i] = b PROVE r[i - 1] = a
    BY DEF LastWas
  <2>1. q[n + i - 1] = b /\ n + i - 1 \in 1..l
    BY <1>2
  <2>2. n + i - 1 > 1
    BY <1>1, <2>1
  <2>3. q[(n + i - 1) - 1] = a
    BY <2>1, <2>2, <1>8 DEF LastWas
  <2> HIDE DEF r, l, m
  <2>4. n + i - 2 \in n..l /\ (n + i - 2) - n + 1 = i - 1 /\ (n + i - 1) - 1 = n + i - 2
    BY <1>1, <2>1
  <2> QED
    BY <1>3, <2>3, <2>4
<1> QED
  BY <1>4, <1>5, <1>6, <1>7, <1>8

LEMMA RestWithin ==
  ASSUME NEW S, NEW q \in Seq(S), NEW n \in 1..Len(q), NEW T, Within(q, T)
  PROVE  Within(Rest(q, n), T)
  BY RestPlace DEF Within

(* What the step at the head of a list says of the list.                   *)
LEMMA HeadSays ==
  ASSUME NEW S, NEW q \in Seq(S), q # <<>>
  PROVE  /\ \A a, b : Follows(q, a, b) /\ Head(q) = a => Has(q, b)
         /\ \A a, b : Before(q, a, b) /\ Head(q) = b => ~Has(q, a)
         /\ \A a, b : NextIs(q, a, b) /\ Head(q) = a => Tail(q) # <<>> /\ Head(Tail(q)) = b
         /\ \A a, b : LastWas(q, a, b) /\ Tail(q) # <<>> /\ Head(Tail(q)) = b => Head(q) = a
         /\ \A a : Once(q, a) /\ Head(q) = a => ~Has(Tail(q), a)
         /\ \A T : Within(q, T) => Head(q) \in T
         /\ Has(q, Head(q))
<1>1. 1 \in 1..Len(q) /\ q[1] = Head(q) /\ Len(q) \in Nat
  OBVIOUS
<1>2. /\ Tail(q) \in Seq(S) /\ Len(Tail(q)) = Len(q) - 1
      /\ \A i \in 1..Len(Tail(q)) : Tail(q)[i] = q[i + 1] /\ i + 1 \in 1..Len(q)
  BY HeadTailProperties
<1>3. Tail(q) # <<>> => 1 \in 1..Len(Tail(q)) /\ Head(Tail(q)) = q[2] /\ 2 \in 1..Len(q)
  BY <1>2
<1>4. ASSUME NEW a, NEW b, Follows(q, a, b), Head(q) = a PROVE Has(q, b)
  BY <1>1, <1>4 DEF Follows, Has
<1>5. ASSUME NEW a, NEW b, Before(q, a, b), Head(q) = b PROVE ~Has(q, a)
  <2> SUFFICES ASSUME NEW i \in 1..Len(q), q[i] = a PROVE FALSE
    BY DEF Has
  <2>1. i < 1
    BY <1>1, <1>5 DEF Before
  <2> QED
    BY <2>1
<1>6. ASSUME NEW a, NEW b, NextIs(q, a, b), Head(q) = a PROVE Tail(q) # <<>> /\ Head(Tail(q)) = b
  <2>1. 1 < Len(q) /\ q[2] = b
    BY <1>1, <1>6 DEF NextIs
  <2>2. Len(Tail(q)) # 0
    BY <1>1, <1>2, <2>1
  <2>3. Tail(q) # <<>>
    BY <1>2, <2>2, EmptySeq
  <2> QED
    BY <1>3, <2>1, <2>3
<1>7. ASSUME NEW a, NEW b, LastWas(q, a, b), Tail(q) # <<>>, Head(Tail(q)) = b PROVE Head(q) = a
  <2>1. q[2 - 1] = a
    BY <1>3, <1>7 DEF LastWas
  <2> QED
    BY <1>1, <2>1
<1>8. ASSUME NEW a, Once(q, a), Head(q) = a PROVE ~Has(Tail(q), a)
  <2> SUFFICES ASSUME NEW i \in 1..Len(Tail(q)), Tail(q)[i] = a PROVE FALSE
    BY DEF Has
  <2>1. q[i + 1] = a /\ i + 1 \in 1..Len(q)
    BY <1>2
  <2>2. i + 1 = 1
    BY <1>1, <1>8, <2>1 DEF Once
  <2> QED
    BY <2>2
<1>9. \A T : Within(q, T) => Head(q) \in T
  BY <1>1 DEF Within
<1>10. Has(q, Head(q))
  BY <1>1 DEF Has
<1> QED
  BY <1>4, <1>5, <1>6, <1>7, <1>8, <1>9, <1>10

(* A step taken leaves behind itself and nothing else.                     *)
LEMMA TailHas ==
  ASSUME NEW S, NEW q \in Seq(S), q # <<>>
  PROVE  /\ \A a : Has(Tail(q), a) => Has(q, a)
         /\ \A a : Has(q, a) => Head(q) = a \/ Has(Tail(q), a)
         /\ Tail(q) \in Seq(S)
<1>1. /\ Tail(q) \in Seq(S) /\ Len(Tail(q)) = Len(q) - 1 /\ Len(q) \in Nat
      /\ \A i \in 1..Len(Tail(q)) : Tail(q)[i] = q[i + 1] /\ i + 1 \in 1..Len(q)
  BY HeadTailProperties
<1>2. ASSUME NEW a, Has(Tail(q), a) PROVE Has(q, a)
  BY <1>1, <1>2 DEF Has
<1>3. ASSUME NEW a, Has(q, a) PROVE Head(q) = a \/ Has(Tail(q), a)
  <2>1. PICK i \in 1..Len(q) : q[i] = a
    BY <1>3 DEF Has
  <2>2. CASE i = 1
    BY <2>1, <2>2
  <2>3. CASE i # 1
    <3>1. i - 1 \in 1..Len(Tail(q)) /\ (i - 1) + 1 = i
      BY <1>1, <2>3
    <3> QED
      BY <1>1, <2>1, <3>1 DEF Has
  <2> QED
    BY <2>2, <2>3
<1> QED
  BY <1>1, <1>2, <1>3

LEMMA TailLastWas ==
  ASSUME NEW S, NEW q \in Seq(S), q # <<>>, NEW a, NEW b, LastWas(q, a, b)
  PROVE  LastWas(Tail(q), a, b)
<1>1. /\ Len(Tail(q)) = Len(q) - 1 /\ Len(q) \in Nat
      /\ \A i \in 1..Len(Tail(q)) : Tail(q)[i] = q[i + 1] /\ i + 1 \in 1..Len(q)
  BY HeadTailProperties
<1> SUFFICES ASSUME NEW i \in 1..Len(Tail(q)), i > 1, Tail(q)[i] = b PROVE Tail(q)[i - 1] = a
  BY DEF LastWas
<1>2. q[i + 1] = b /\ i + 1 \in 1..Len(q) /\ i + 1 > 1
  BY <1>1
<1>3. q[(i + 1) - 1] = a
  BY <1>2 DEF LastWas
<1>4. i - 1 \in 1..Len(Tail(q)) /\ (i - 1) + 1 = i /\ (i + 1) - 1 = i
  BY <1>1
<1> QED
  BY <1>1, <1>3, <1>4

LEMMA EmptyHas == \A a : ~Has(<<>>, a)
  BY DEF Has

-----------------------------------------------------------------------------
(* What the programs and the rollbacks have in common. *)

EnableNames == {"capture", "fence", "lease", "pluginOff", "configure", "policyOn", "adapterOn",
                "pluginOn", "commit", "markRestart", "bounce", "ensureUp", "verify", "readMarker",
                "heal", "release"}
EnableUndoNames == {"adapterOff", "pluginOff", "cancel", "policyRestore", "bounce", "stateRollback",
                    "release", "restoreValue", "dropSnapshot"}
DisableNames == {"restoreValue", "dropSnapshot", "adapterOff", "policyOff", "pluginOff", "cancel",
                 "bounce", "commitOff", "boundary"}
DisableUndoNames == {"policyRestore", "pluginOn", "adapterOn", "ensureUp", "capture", "fence"}
StopNames == {"admit", "commitStop", "stopGateway"}
UndoNames == EnableUndoNames \cup DisableUndoNames \cup {"policyOff", "commitOff"}
FirstNames == {"capture", "restoreValue", "admit", "adapterOff", "pluginOff", "policyRestore", "adapterOn",
               "pluginOn"}

(* A pulse that is skipped is skipped whole, the fence goes up with the    *)
(* value captured, a snapshot is dropped with the value restored, and what *)
(* a commit rests on comes before it.                                      *)
AnyList(q) ==
  /\ NextIs(q, "readMarker", "heal")
  /\ LastWas(q, "capture", "fence")
  /\ LastWas(q, "restoreValue", "dropSnapshot")
  /\ Before(q, "policyOn", "commit") /\ Before(q, "adapterOn", "commit") /\ Before(q, "admit", "commit")
  /\ Before(q, "admit", "commitStop")
  /\ Within(q, StepNames \ {"commitStop"}) \/ Within(q, StopNames)

(* What enable does it does once, and what fails before finds it ahead.    *)
EnableList(q) ==
  /\ Within(q, EnableNames)
  /\ \A a \in {"policyOn", "adapterOn", "pluginOn", "commit", "fence"} : Once(q, a)
  /\ \A a \in {"capture", "fence", "lease", "pluginOff", "configure", "policyOn"} :
       Follows(q, a, "adapterOn")
  /\ \A a \in {"capture", "fence", "lease", "pluginOff", "configure", "policyOn", "adapterOn"} :
       Follows(q, a, "pluginOn") /\ Follows(q, a, "commit")
  /\ \A a \in {"capture", "fence", "lease", "pluginOff"} : Follows(q, a, "policyOn")
  /\ Follows(q, "capture", "fence")

EnableUndoList(q) == Within(q, EnableUndoNames) /\ Before(q, "pluginOff", "bounce")

DisableList(q) ==
  /\ Within(q, DisableNames)
  /\ \A a \in {"restoreValue", "dropSnapshot"} : Follows(q, a, "adapterOff") /\ Follows(q, a, "policyOff")
  /\ Follows(q, "adapterOff", "policyOff")
  /\ Once(q, "adapterOff") /\ Once(q, "policyOff")
  /\ Before(q, "pluginOff", "bounce") /\ Before(q, "pluginOff", "boundary")
  /\ Before(q, "commitOff", "boundary")

DisableUndoList(q) ==
  /\ Within(q, DisableUndoNames)
  /\ Before(q, "policyRestore", "capture") /\ Before(q, "adapterOn", "capture")

(* Every suffix of such a list is such a list.                             *)
LEMMA RestAny ==
  ASSUME NEW S, NEW q \in Seq(S), NEW n \in 1..Len(q), AnyList(q)
  PROVE  AnyList(Rest(q, n))
  BY RestKeeps, RestWithin DEF AnyList

LEMMA RestEnable ==
  ASSUME NEW S, NEW q \in Seq(S), NEW n \in 1..Len(q), EnableList(q)
  PROVE  EnableList(Rest(q, n))
  BY RestKeeps, RestWithin DEF EnableList

LEMMA RestEnableUndo ==
  ASSUME NEW S, NEW q \in Seq(S), NEW n \in 1..Len(q), EnableUndoList(q)
  PROVE  EnableUndoList(Rest(q, n))
  BY RestKeeps, RestWithin DEF EnableUndoList

LEMMA RestDisable ==
  ASSUME NEW S, NEW q \in Seq(S), NEW n \in 1..Len(q), DisableList(q)
  PROVE  DisableList(Rest(q, n))
  BY RestKeeps, RestWithin DEF DisableList

LEMMA RestDisableUndo ==
  ASSUME NEW S, NEW q \in Seq(S), NEW n \in 1..Len(q), DisableUndoList(q)
  PROVE  DisableUndoList(Rest(q, n))
  BY RestKeeps, RestWithin DEF DisableUndoList

LEMMA EnableProgram == EnableSteps \in Seq(StepNames) /\ AnyList(EnableSteps) /\ EnableList(EnableSteps)
<1>1. EnableSteps \in Seq(StepNames)
  BY DEF EnableSteps, EnableCore, Pulse, StepNames
<1>2. AnyList(EnableSteps)
  BY DEF EnableSteps, EnableCore, Pulse, AnyList, NextIs, LastWas, Before, Within, StepNames, StopNames
<1>3. Within(EnableSteps, EnableNames)
  BY DEF EnableSteps, EnableCore, Pulse, Within, EnableNames
<1>4. \A a \in {"policyOn", "adapterOn", "pluginOn", "commit", "fence"} : Once(EnableSteps, a)
  BY DEF EnableSteps, EnableCore, Pulse, Once
<1>5. \A a \in {"capture", "fence", "lease", "pluginOff", "configure", "policyOn"} :
        Follows(EnableSteps, a, "adapterOn")
  BY DEF EnableSteps, EnableCore, Pulse, Follows
<1>6. \A a \in {"capture", "fence", "lease", "pluginOff", "configure", "policyOn", "adapterOn"} :
        Follows(EnableSteps, a, "pluginOn")
  BY DEF EnableSteps, EnableCore, Pulse, Follows
<1>7. \A a \in {"capture", "fence", "lease", "pluginOff", "configure", "policyOn", "adapterOn"} :
        Follows(EnableSteps, a, "commit")
  BY DEF EnableSteps, EnableCore, Pulse, Follows
<1>8. \A a \in {"capture", "fence", "lease", "pluginOff"} : Follows(EnableSteps, a, "policyOn")
  BY DEF EnableSteps, EnableCore, Pulse, Follows
<1>9. Follows(EnableSteps, "capture", "fence")
  BY DEF EnableSteps, EnableCore, Pulse, Follows
<1> QED
  BY <1>1, <1>2, <1>3, <1>4, <1>5, <1>6, <1>7, <1>8, <1>9 DEF EnableList

LEMMA DisableProgram == DisableSteps \in Seq(StepNames) /\ AnyList(DisableSteps) /\ DisableList(DisableSteps)
<1>1. DisableSteps \in Seq(StepNames)
  BY DEF DisableSteps, DisableCore, StepNames
<1>2. AnyList(DisableSteps)
  BY DEF DisableSteps, DisableCore, AnyList, NextIs, LastWas, Before, Within, StepNames, StopNames
<1>3. Within(DisableSteps, DisableNames)
  BY DEF DisableSteps, DisableCore, Within, DisableNames
<1>4. \A a \in {"restoreValue", "dropSnapshot"} :
        Follows(DisableSteps, a, "adapterOff") /\ Follows(DisableSteps, a, "policyOff")
  BY DEF DisableSteps, DisableCore, Follows
<1>5. Follows(DisableSteps, "adapterOff", "policyOff")
  BY DEF DisableSteps, DisableCore, Follows
<1>6. Once(DisableSteps, "adapterOff") /\ Once(DisableSteps, "policyOff")
  BY DEF DisableSteps, DisableCore, Once
<1>7. /\ Before(DisableSteps, "pluginOff", "bounce") /\ Before(DisableSteps, "pluginOff", "boundary")
      /\ Before(DisableSteps, "commitOff", "boundary")
  BY DEF DisableSteps, DisableCore, Before
<1> QED
  BY <1>1, <1>2, <1>3, <1>4, <1>5, <1>6, <1>7 DEF DisableList

LEMMA OtherPrograms ==
  \A q \in {StartSteps, <<"capture", "fence">> \o StartSteps, RestartSteps,
            <<"capture", "fence">> \o RestartSteps, StopSteps, ResetSteps} :
    q \in Seq(StepNames) /\ AnyList(q)
<1>1. StartSteps \in Seq(StepNames) /\ AnyList(StartSteps)
  BY DEF StartSteps, Pulse, StepNames, AnyList, NextIs, LastWas, Before, Within, StopNames
<1>2. LET q == <<"capture", "fence">> \o StartSteps IN q \in Seq(StepNames) /\ AnyList(q)
  BY DEF StartSteps, Pulse, StepNames, AnyList, NextIs, LastWas, Before, Within, StopNames
<1>3. RestartSteps \in Seq(StepNames) /\ AnyList(RestartSteps)
  BY DEF RestartSteps, Pulse, StepNames, AnyList, NextIs, LastWas, Before, Within, StopNames
<1>4. LET q == <<"capture", "fence">> \o RestartSteps IN q \in Seq(StepNames) /\ AnyList(q)
  BY DEF RestartSteps, Pulse, StepNames, AnyList, NextIs, LastWas, Before, Within, StopNames
<1>5. StopSteps \in Seq(StepNames) /\ AnyList(StopSteps)
  BY DEF StopSteps, StepNames, AnyList, NextIs, LastWas, Before, Within, StopNames
<1>6. ResetSteps \in Seq(StepNames)
  BY DEF ResetSteps, DisableCore, EnableCore, Pulse, StepNames
<1>7. AnyList(ResetSteps)
  BY DEF ResetSteps, DisableCore, EnableCore, Pulse, AnyList, NextIs, LastWas, Before, Within, StepNames, StopNames
<1> QED
  BY <1>1, <1>2, <1>3, <1>4, <1>5, <1>6, <1>7

(* The rollbacks, list by list. *)
UndoOf(q) == q \in Seq(StepNames) /\ AnyList(q) /\ Within(q, UndoNames) /\ (q # <<>> => Head(q) \in FirstNames)

RolledBack(adapter, bounce) ==
  adapter \o <<"pluginOff", "cancel", "policyRestore">> \o bounce \o <<"stateRollback", "release">>
AfterPluginOff == RolledBack(<<>>, <<>>)
AfterPolicyOn == RolledBack(<<>>, <<"bounce">>)
AfterAdapterOn == RolledBack(<<"adapterOff">>, <<"bounce">>)
Registering == {"adapterOn", "pluginOn", "commit", "markRestart", "bounce", "ensureUp", "verify"}

LEMMA EnableUndoForms ==
  ASSUME NEW step
  PROVE  EnableUndo(step) = IF step = "pluginOff" THEN AfterPluginOff
                            ELSE IF step \in Registering THEN AfterAdapterOn ELSE AfterPolicyOn
<1> DEFINE A == IF step \in Registering THEN <<"adapterOff">> ELSE <<>>
           B == IF step = "pluginOff" THEN <<>> ELSE <<"bounce">>
<1>1. EnableUndo(step) = RolledBack(A, B)
  BY ONLY DEF EnableUndo, RolledBack, Registering
<1>2. /\ step = "pluginOff" => A = <<>> /\ B = <<>>
      /\ step # "pluginOff" /\ step \in Registering => A = <<"adapterOff">> /\ B = <<"bounce">>
      /\ step # "pluginOff" /\ step \notin Registering => A = <<>> /\ B = <<"bounce">>
  BY DEF Registering
<1> HIDE DEF A, B
<1> QED
  BY ONLY <1>1, <1>2 DEF AfterPluginOff, AfterPolicyOn, AfterAdapterOn

LEMMA UndoOfEnable ==
  ASSUME NEW step
  PROVE  LET q == EnableUndo(step) \o <<"restoreValue", "dropSnapshot">>
         IN  /\ UndoOf(q) /\ EnableUndoList(q)
             /\ \A a \in {"pluginOff", "policyRestore", "stateRollback", "restoreValue"} : Has(q, a)
             /\ step # "pluginOff" => Has(q, "bounce")
             /\ step \in Registering => Has(q, "adapterOff")
<1> DEFINE p == <<"restoreValue", "dropSnapshot">>
           Fine(q) == \A a \in {"pluginOff", "policyRestore", "stateRollback", "restoreValue"} : Has(q, a)
<1> USE DEF AfterPluginOff, AfterPolicyOn, AfterAdapterOn, RolledBack
<1>1. UndoOf(AfterPluginOff \o p) /\ UndoOf(AfterPolicyOn \o p) /\ UndoOf(AfterAdapterOn \o p)
  <2> USE DEF UndoOf, NextIs, LastWas, Before, Within, StepNames, UndoNames, EnableUndoNames, DisableUndoNames,
              FirstNames, StopNames
  <2>1. AnyList(AfterPluginOff \o p) /\ AnyList(AfterPolicyOn \o p)
    BY DEF AnyList
  <2>2. AnyList(AfterAdapterOn \o p)
    BY DEF AnyList
  <2>3. UndoOf(AfterPluginOff \o p) /\ UndoOf(AfterPolicyOn \o p)
    BY <2>1
  <2>4. UndoOf(AfterAdapterOn \o p)
    BY <2>2
  <2> HIDE DEF UndoOf
  <2> QED
    BY <2>3, <2>4
<1>2. EnableUndoList(AfterPluginOff \o p) /\ EnableUndoList(AfterPolicyOn \o p) /\ EnableUndoList(AfterAdapterOn \o p)
  BY DEF EnableUndoList, Before, Within, EnableUndoNames
<1>3. /\ Fine(AfterPluginOff \o p) /\ Fine(AfterPolicyOn \o p) /\ Fine(AfterAdapterOn \o p)
      /\ Has(AfterPolicyOn \o p, "bounce")
      /\ Has(AfterAdapterOn \o p, "bounce") /\ Has(AfterAdapterOn \o p, "adapterOff")
  BY DEF Has
<1>4. /\ step = "pluginOff" => EnableUndo(step) \o p = AfterPluginOff \o p /\ step \notin Registering
      /\ step # "pluginOff" /\ step \in Registering => EnableUndo(step) \o p = AfterAdapterOn \o p
      /\ step # "pluginOff" /\ step \notin Registering => EnableUndo(step) \o p = AfterPolicyOn \o p
  BY ONLY EnableUndoForms DEF Registering
<1> HIDE DEF p, AfterPluginOff, AfterPolicyOn, AfterAdapterOn, RolledBack
<1> QED
  BY ONLY <1>1, <1>2, <1>3, <1>4 DEF p

LEMMA UndoOfDisable ==
  ASSUME NEW step
  PROVE  LET q == DisableUndo(step) \o <<"capture", "fence">>
         IN  /\ UndoOf(q) /\ DisableUndoList(q)
             /\ step # "adapterOff" => Has(q, "policyRestore")
             /\ op.host.mode # "passthrough" => Has(q, "adapterOn")
<1> DEFINE p == <<"capture", "fence">>
           Plugin == step \notin {"adapterOff", "policyOff"}
           Running == op.host.desired = "running"
           Passthrough == op.host.mode = "passthrough"
           A == IF step = "adapterOff" THEN <<>> ELSE <<"policyRestore">>
           B == IF Plugin THEN <<"pluginOn">> ELSE <<>>
           C == IF Running THEN <<"ensureUp">> ELSE <<>>
           Fine(q) == UndoOf(q) /\ DisableUndoList(q)
<1>1. DisableUndo(step) \o p = IF Passthrough THEN (A \o <<>>) \o p
                               ELSE (A \o (B \o <<"adapterOn">> \o C)) \o p
  <2>1. CASE Passthrough
    BY ONLY <2>1 DEF DisableUndo
  <2>2. CASE ~Passthrough
    BY ONLY <2>2 DEF DisableUndo
  <2> QED
    BY ONLY <2>1, <2>2
<1>2. /\ A \in {<<>>, <<"policyRestore">>} /\ (step # "adapterOff" => A = <<"policyRestore">>)
      /\ B \in {<<>>, <<"pluginOn">>} /\ C \in {<<>>, <<"ensureUp">>}
  OBVIOUS
<1> HIDE DEF A, B, C, Passthrough
<1> USE DEF UndoOf, AnyList, DisableUndoList, NextIs, LastWas, Before, Within, Has, StepNames, UndoNames,
            EnableUndoNames, DisableUndoNames, FirstNames, StopNames
<1> DEFINE bare(x) == (x \o <<>>) \o p
           q(x, y, z) == (x \o (y \o <<"adapterOn">> \o z)) \o p
<1>3. /\ Fine(bare(<<>>)) /\ Fine(bare(<<"policyRestore">>))
      /\ Has(bare(<<"policyRestore">>), "policyRestore")
  OBVIOUS
<1>4. \A y \in {<<>>, <<"pluginOn">>} : \A z \in {<<>>, <<"ensureUp">>} :
            /\ Fine(q(<<>>, y, z)) /\ Has(q(<<>>, y, z), "adapterOn")
            /\ Fine(q(<<"policyRestore">>, y, z)) /\ Has(q(<<"policyRestore">>, y, z), "adapterOn")
            /\ Has(q(<<"policyRestore">>, y, z), "policyRestore")
  <2> DEFINE Good(y, z) == /\ Fine(q(<<>>, y, z)) /\ Has(q(<<>>, y, z), "adapterOn")
                           /\ Fine(q(<<"policyRestore">>, y, z)) /\ Has(q(<<"policyRestore">>, y, z), "adapterOn")
                           /\ Has(q(<<"policyRestore">>, y, z), "policyRestore")
  <2>1. Good(<<>>, <<>>)
    OBVIOUS
  <2>2. Good(<<"pluginOn">>, <<>>)
    OBVIOUS
  <2>3. Good(<<>>, <<"ensureUp">>)
    OBVIOUS
  <2>4. Good(<<"pluginOn">>, <<"ensureUp">>)
    OBVIOUS
  <2>5. \A y \in {<<>>, <<"pluginOn">>} : \A z \in {<<>>, <<"ensureUp">>} : Good(y, z)
    <3> HIDE DEF Good
    <3> QED
      BY ONLY <2>1, <2>2, <2>3, <2>4
  <2> QED
    BY ONLY <2>5
<1> HIDE DEF UndoOf, DisableUndoList, Has
<1>5. op.host.mode # "passthrough" => ~Passthrough
  BY DEF Passthrough
<1>6. DisableUndo(step) \o p = IF Passthrough THEN bare(A) ELSE q(A, B, C)
  BY ONLY <1>1
<1> HIDE DEF bare, q, Fine
<1>7. Fine(DisableUndo(step) \o p) /\ (step # "adapterOff" => Has(DisableUndo(step) \o p, "policyRestore"))
      /\ (~Passthrough => Has(DisableUndo(step) \o p, "adapterOn"))
  BY ONLY <1>2, <1>3, <1>4, <1>6
<1> QED
  BY ONLY <1>5, <1>7 DEF Fine

LEMMA UndoOfReset ==
  ASSUME NEW step
  PROVE  /\ UndoOf(EnableUndo(step) \o DisableCore) /\ UndoOf(DisableCore)
         /\ UndoOf(<<"restoreValue", "dropSnapshot">>) /\ UndoOf(<<>>)
<1> USE DEF UndoOf, AnyList, NextIs, LastWas, Before, Within, StepNames, UndoNames,
            EnableUndoNames, DisableUndoNames, FirstNames, StopNames
<1>1. UndoOf(DisableCore) /\ UndoOf(<<"restoreValue", "dropSnapshot">>) /\ UndoOf(<<>>)
  BY DEF DisableCore
<1>2. UndoOf(AfterPluginOff \o DisableCore)
  BY DEF AfterPluginOff, RolledBack, DisableCore
<1>3. UndoOf(AfterPolicyOn \o DisableCore)
  BY DEF AfterPolicyOn, RolledBack, DisableCore
<1>4. UndoOf(AfterAdapterOn \o DisableCore)
  BY DEF AfterAdapterOn, RolledBack, DisableCore
<1> HIDE DEF UndoOf
<1> QED
  BY ONLY <1>1, <1>2, <1>3, <1>4, EnableUndoForms

(* Every rollback only takes back, and which it is.                        *)
LEMMA UndoIs ==
  ASSUME NEW step
  PROVE  UndoOf(Undo(step))
<1> DEFINE a == EnableUndo(step) \o <<"restoreValue", "dropSnapshot">>
           b == DisableUndo(step) \o <<"capture", "fence">>
           c == EnableUndo(step) \o DisableCore
           p == <<"restoreValue", "dropSnapshot">>
<1>1. Undo(step) \in {a, b, c, p, DisableCore, <<>>}
  BY DEF Undo
<1>2. UndoOf(a) /\ UndoOf(b) /\ UndoOf(c) /\ UndoOf(p) /\ UndoOf(DisableCore) /\ UndoOf(<<>>)
  BY UndoOfEnable, UndoOfDisable, UndoOfReset
<1> HIDE DEF a, b, c, p
<1> QED
  BY <1>1, <1>2

LEMMA EnableUndoIs ==
  ASSUME NEW step, op.cmd = "enable"
  PROVE  /\ EnableUndoList(Undo(step))
         /\ step \in EnableNames \ {"capture", "fence", "readMarker", "heal", "release"} =>
              /\ Has(Undo(step), "restoreValue")
              /\ step # "lease" =>
                   /\ \A a \in {"pluginOff", "policyRestore", "stateRollback"} : Has(Undo(step), a)
                   /\ step # "pluginOff" => Has(Undo(step), "bounce")
                   /\ step \notin {"pluginOff", "configure", "policyOn"} => Has(Undo(step), "adapterOff")
<1> DEFINE a == EnableUndo(step) \o <<"restoreValue", "dropSnapshot">>
           p == <<"restoreValue", "dropSnapshot">>
<1>1. InEnable(step) <=> step \in {"pluginOff", "configure", "policyOn", "adapterOn", "pluginOn", "commit",
                                   "markRestart", "bounce", "ensureUp", "verify"}
  BY DEF InEnable, EnableCore
<1>2. Undo(step) = IF InEnable(step) THEN a ELSE IF step = "lease" THEN p ELSE <<>>
  BY <1>1 DEF Undo
<1>3. EnableUndoList(<<>>) /\ EnableUndoList(p) /\ Has(p, "restoreValue")
  BY DEF EnableUndoList, Within, Before, EnableUndoNames, Has
<1>4. /\ EnableUndoList(a)
      /\ \A x \in {"pluginOff", "policyRestore", "stateRollback", "restoreValue"} : Has(a, x)
      /\ step # "pluginOff" => Has(a, "bounce")
      /\ step \in Registering => Has(a, "adapterOff")
  BY UndoOfEnable
<1> HIDE DEF a, p
<1>5. CASE InEnable(step)
  BY <1>1, <1>2, <1>4, <1>5 DEF EnableNames, Registering
<1>6. CASE ~InEnable(step)
  BY <1>1, <1>2, <1>3, <1>6 DEF EnableNames
<1> QED
  BY <1>5, <1>6

LEMMA DisableUndoIs ==
  ASSUME NEW step, op.cmd = "disable"
  PROVE  /\ DisableUndoList(Undo(step))
         /\ step \in DisableNames \ {"restoreValue", "dropSnapshot", "boundary"} =>
              /\ step # "adapterOff" => Has(Undo(step), "policyRestore")
              /\ op.host.mode # "passthrough" => Has(Undo(step), "adapterOn")
<1> DEFINE b == DisableUndo(step) \o <<"capture", "fence">>
<1>1. InDisable(step) <=> step \in {"adapterOff", "policyOff", "pluginOff", "cancel", "bounce", "commitOff"}
  BY DEF InDisable, DisableCore
<1>2. Undo(step) = IF InDisable(step) THEN b ELSE <<>>
  BY <1>1 DEF Undo
<1>3. DisableUndoList(<<>>)
  BY DEF DisableUndoList, Within, Before
<1>4. /\ DisableUndoList(b)
      /\ step # "adapterOff" => Has(b, "policyRestore")
      /\ op.host.mode # "passthrough" => Has(b, "adapterOn")
  BY UndoOfDisable
<1> HIDE DEF b
<1> QED
  BY <1>1, <1>2, <1>3, <1>4 DEF DisableNames

-----------------------------------------------------------------------------
(* Where a command is. *)

Line == todo["op"]

LEMMA ListsAreSequences ==
  ASSUME TypeOK
  PROVE  /\ Line \in Seq(StepNames) /\ todo["tick"] \in Seq(StepNames)
         /\ Line # <<>> => Head(Line) \in StepNames
  BY DEF TypeOK, Line, Who

LEMMA ProgramIs ==
  ASSUME NEW cmd, NEW q \in Programs(cmd)
  PROVE  /\ q \in Seq(StepNames) /\ AnyList(q)
         /\ cmd = "enable" => EnableList(q)
         /\ cmd = "disable" => DisableList(q)
         /\ cmd = "stop" => q = StopSteps
  BY EnableProgram, DisableProgram, OtherPrograms DEF Programs

(* A command that runs is at a place of one of its lists.                  *)
LEMMA PlaceIs ==
  ASSUME TypeOK, PlaceFits, Busy("op")
  PROVE  /\ AnyList(Line)
         /\ op.undoing => Within(Line, UndoNames)
         /\ op.cmd = "enable" => IF op.undoing THEN EnableUndoList(Line) ELSE EnableList(Line)
         /\ op.cmd = "disable" => IF op.undoing THEN DisableUndoList(Line) ELSE DisableList(Line)
         /\ op.cmd = "stop" /\ ~op.undoing => Within(Line, StopNames)
<1>1. CASE op.undoing
  <2>0. PICK step \in StepNames : \E n \in 1..Len(Undo(step)) : Line = Rest(Undo(step), n)
    BY <1>1 DEF PlaceFits, Line
  <2>1. PICK n \in 1..Len(Undo(step)) : Line = Rest(Undo(step), n)
    BY <2>0
  <2>2. UndoOf(Undo(step))
    BY UndoIs
  <2>3. Undo(step) \in Seq(StepNames) /\ AnyList(Undo(step)) /\ Within(Undo(step), UndoNames)
    BY <2>2 DEF UndoOf
  <2>4. AnyList(Line) /\ Within(Line, UndoNames)
    BY ONLY <2>1, <2>3, RestAny, RestWithin
  <2>5. op.cmd = "enable" => EnableUndoList(Line)
    BY ONLY <2>1, <2>3, EnableUndoIs, RestEnableUndo
  <2>6. op.cmd = "disable" => DisableUndoList(Line)
    BY ONLY <2>1, <2>3, DisableUndoIs, RestDisableUndo
  <2> QED
    BY <1>1, <2>4, <2>5, <2>6
<1>2. CASE ~op.undoing
  <2>0. PICK q \in Programs(op.cmd) : \E n \in 1..Len(q) : Line = Rest(q, n)
    BY <1>2 DEF PlaceFits, Line
  <2>1. PICK n \in 1..Len(q) : Line = Rest(q, n)
    BY <2>0
  <2>2. /\ q \in Seq(StepNames) /\ AnyList(q)
        /\ op.cmd = "enable" => EnableList(q)
        /\ op.cmd = "disable" => DisableList(q)
        /\ op.cmd = "stop" => q = StopSteps
    BY <2>1, ProgramIs
  <2>3. AnyList(Line)
    BY ONLY <2>1, <2>2, RestAny
  <2>4. op.cmd = "enable" => EnableList(Line)
    BY ONLY <2>1, <2>2, RestEnable
  <2>5. op.cmd = "disable" => DisableList(Line)
    BY ONLY <2>1, <2>2, RestDisable
  <2>6. Within(StopSteps, StopNames)
    BY DEF StopSteps, StopNames, Within
  <2>7. op.cmd = "stop" => Within(Line, StopNames)
    BY ONLY <2>1, <2>2, <2>6, RestWithin
  <2> QED
    BY <1>2, <2>3, <2>4, <2>5, <2>7
<1> QED
  BY <1>1, <1>2

(* The list of a command goes on: what lies ahead lay ahead before, and    *)
(* what is not ahead any more is the step taken or a pulse skipped.        *)
Goes ==
  /\ Line # <<>>
  /\ Line' = Tail(Line) \/ (Head(Line) = "readMarker" /\ Line' = Tail(Tail(Line)))

LEMMA GoesBy ==
  ASSUME TypeOK, PlaceFits, Goes
  PROVE  /\ \A a : Has(Line', a) => Has(Line, a)
         /\ \A a : Has(Line, a) /\ a \notin {Head(Line), "heal"} => Has(Line', a)
         /\ \A a : Once(Line, a) /\ Head(Line) = a => ~Has(Line', a)
         /\ \A a, b : LastWas(Line, a, b) /\ Line' # <<>> /\ Head(Line') = b => a \in {Head(Line), "heal"}
         /\ Line' \in Seq(StepNames)
<1>1. Line \in Seq(StepNames) /\ Line # <<>> /\ Busy("op")
  BY ListsAreSequences DEF Goes, Line, Busy
<1>2. NextIs(Line, "readMarker", "heal")
  BY <1>1, PlaceIs DEF AnyList
<1>3. /\ \A a : Has(Tail(Line), a) => Has(Line, a)
      /\ \A a : Has(Line, a) => Head(Line) = a \/ Has(Tail(Line), a)
      /\ Tail(Line) \in Seq(StepNames)
  BY ONLY <1>1, TailHas
<1>4. /\ \A a : Once(Line, a) /\ Head(Line) = a => ~Has(Tail(Line), a)
      /\ Head(Line) = "readMarker" => Tail(Line) # <<>> /\ Head(Tail(Line)) = "heal"
      /\ \A a, b : LastWas(Line, a, b) /\ Tail(Line) # <<>> /\ Head(Tail(Line)) = b => Head(Line) = a
      /\ \A a, b : LastWas(Line, a, b) => LastWas(Tail(Line), a, b)
  BY ONLY <1>1, <1>2, HeadSays, TailLastWas
<1>5. CASE Line' = Tail(Line)
  BY ONLY <1>3, <1>4, <1>5
<1>6. CASE Head(Line) = "readMarker" /\ Line' = Tail(Tail(Line))
  <2>1. /\ \A a : Has(Tail(Tail(Line)), a) => Has(Tail(Line), a)
        /\ \A a : Has(Tail(Line), a) => Head(Tail(Line)) = a \/ Has(Tail(Tail(Line)), a)
        /\ Tail(Tail(Line)) \in Seq(StepNames)
        /\ \A a, b : LastWas(Tail(Line), a, b) /\ Tail(Tail(Line)) # <<>> /\ Head(Tail(Tail(Line))) = b
             => Head(Tail(Line)) = a
    BY ONLY <1>3, <1>4, <1>6, TailHas, HeadSays
  <2> QED
    BY ONLY <1>3, <1>4, <1>6, <2>1
<1> QED
  BY <1>5, <1>6 DEF Goes

(* A place of a list is followed by another.                               *)
LEMMA PlaceGoes ==
  ASSUME NEW q \in Seq(StepNames), NEW n \in 1..Len(q), NextIs(q, "readMarker", "heal"), NEW r,
         \/ r = Tail(Rest(q, n))
         \/ Head(Rest(q, n)) = "readMarker" /\ r = Tail(Tail(Rest(q, n))),
         r # <<>>
  PROVE  \E m \in 1..Len(q) : r = Rest(q, m)
<1>1. Len(q) \in Nat /\ n \in Nat /\ n <= Len(q) /\ n >= 1
  OBVIOUS
<1>2. CASE r = Tail(Rest(q, n))
  <2>1. n < Len(q) /\ r = Rest(q, n + 1)
    BY ONLY <1>1, <1>2, r # <<>>, RestTail, q \in Seq(StepNames), n \in 1..Len(q)
  <2>2. n + 1 \in 1..Len(q)
    BY <1>1, <2>1
  <2> QED
    BY ONLY <2>1, <2>2
<1>3. CASE Head(Rest(q, n)) = "readMarker" /\ r = Tail(Tail(Rest(q, n)))
  <2>1. q[n] = "readMarker"
    BY <1>3, RestIs
  <2>2. n < Len(q)
    BY <2>1 DEF NextIs
  <2>3. n + 1 \in 1..Len(q) /\ (n + 1 < Len(q) => (n + 1) + 1 \in 1..Len(q)) /\ (n + 1 < Len(q) \/ n + 1 = Len(q))
    BY <1>1, <2>2
  <2>4. Tail(Rest(q, n)) = Rest(q, n + 1)
    BY ONLY <2>2, RestTail, q \in Seq(StepNames), n \in 1..Len(q)
  <2>5. n + 1 < Len(q) /\ r = Rest(q, (n + 1) + 1)
    BY ONLY <1>3, <2>3, <2>4, r # <<>>, RestTail, q \in Seq(StepNames)
  <2> QED
    BY ONLY <2>3, <2>5
<1> QED
  BY <1>2, <1>3

-----------------------------------------------------------------------------
(* What an action does: to the command and to its list, ... *)

(* what a command was given, and what it remembers through its steps.      *)
SameCommand(o, p) == /\ p.cmd = o.cmd /\ p.host = o.host /\ p.surf = o.surf
                     /\ p.live = o.live /\ p.value = o.value
SameCourse(o, p) == p.undoing = o.undoing /\ p.dirty = o.dirty /\ p.raced = o.raced
SameRecord(o, p) == p.withdrawn = o.withdrawn /\ p.wiped = o.wiped

Begins(cmd) ==
  /\ Line = <<>> /\ Line' = Steps(cmd) /\ todo'["tick"] = todo["tick"]
  /\ op'.cmd = cmd /\ op'.host = host /\ op'.surf = surf /\ op'.live = gw.live /\ op'.value = watch.value
  /\ op'.result = "none" /\ ~op'.undoing /\ ~op'.dirty
  /\ op'.raced = (todo["tick"] # <<>>) /\ SameRecord(op, op')
  /\ host' = host /\ surf' = surf /\ watch' = watch /\ gw' = gw

(* ... to controller.json, ...                                             *)
HostTurns(s) ==
  /\ s = "commit" => host'.mode = "managed"
  /\ s = "commitStop" => host'.mode = "maintenance"
  /\ s \in {"commitOff", "stateRollback", "wipe"} => host'.mode = "passthrough"
  /\ s \notin {"commit", "commitStop", "commitOff", "stateRollback", "wipe"} => host' = host

(* ... to the surfaces, ...                                                *)
SurfTurns(s, new) ==
  /\ s = "pluginOff" => ~new.plugin
  /\ s \notin {"pluginOn", "pluginOff"} => new.plugin = surf.plugin
  /\ s = "policyOn" => new.policy
  /\ s = "policyOff" => ~new.policy
  /\ s = "policyRestore" => new.policy = op.surf.policy
  /\ s \notin {"policyOn", "policyOff", "policyRestore"} => new.policy = surf.policy
  /\ s = "adapterOn" => new.adapter
  /\ s = "adapterOff" => ~new.adapter
  /\ s \notin {"adapterOn", "adapterOff"} => new.adapter = surf.adapter

Keeps == \A k \in {"adapter", "policy"} : Kept(k) => Kept(k)'

(* ... to the watchdog, ...                                                *)
WatchTurns(s) ==
  /\ s \notin {"fence", "restoreValue"} => watch'.value = watch.value
  /\ s \notin {"capture", "fence", "dropSnapshot", "wipe"} => watch'.snap = watch.snap
  /\ s = "capture" => watch'.snap = Captured
  /\ s = "fence" => watch'.value = "managed" /\ watch'.snap.original = watch.snap.original
  /\ s = "restoreValue" =>
       watch'.value = IF watch.snap = NoSnap \/ watch.value # "managed" THEN watch.value ELSE watch.snap.original
  /\ s \in {"dropSnapshot", "wipe"} => watch'.snap = NoSnap

(* ... and to the Gateway.                                                 *)
GwTurns(s) ==
  /\ s \in {"bounce", "boundary"} => (gw'.live => surf.plugin)
  /\ s \in {"ensureUp", "heal"} => (gw'.live => gw.live \/ surf.plugin)
  /\ s \notin {"bounce", "boundary", "ensureUp", "heal"} => (gw'.live => gw.live)

(* The command takes a step.                                               *)
Advances ==
  /\ Goes /\ todo'["tick"] = todo["tick"]
  /\ SameCommand(op, op') /\ SameCourse(op, op')
  /\ op'.result = IF Line' = <<>> THEN Result(op) ELSE op.result
  /\ op.wiped => op'.wiped
  /\ Head(Line) = "wipe" => op'.wiped
  /\ Head(Line) = "admit" => host.mode # "passthrough"
  /\ HostTurns(Head(Line)) /\ SurfTurns(Head(Line), surf') /\ Keeps /\ WatchTurns(Head(Line)) /\ GwTurns(Head(Line))

(* A step of the command fails, or refuses, and the rollback takes over.   *)
Turns ==
  /\ Line # <<>> /\ todo'["tick"] = todo["tick"]
  /\ SameCommand(op, op') /\ op'.undoing /\ op'.raced = op.raced /\ SameRecord(op, op')
  /\ op.dirty => op'.dirty
  /\ op'.result = IF Line' = <<>> THEN "failed" ELSE op.result
  /\ ~op.undoing => Line' = Undo(Head(Line)) \/ (Head(Line) \in {"capture", "admit"} /\ Line' = <<>>)
  /\ op.undoing /\ Within(Line, UndoNames) =>
       (op'.dirty \/ Head(Line) = "capture") /\ Line' \in {<<>>, Tail(Line)}
  /\ op.undoing /\ Head(Line) \in {"capture", "restoreValue"} => Line' = <<>>
  /\ Head(Line) \notin {"readMarker", "heal", "release"}
  /\ host' = host /\ watch'.value = watch.value
  /\ watch'.snap = watch.snap \/ (watch.snap.applied /\ watch'.snap = [watch.snap EXCEPT !.applied = FALSE])
  /\ surf'.plugin = surf.plugin /\ surf'.policy = surf.policy
  /\ surf'.adapter = surf.adapter \/ (Head(Line) = "adapterOn" /\ surf'.adapter)
  /\ Keeps /\ (gw'.live => gw.live)

(* The process of the command dies.                                        *)
Stops ==
  /\ Line # <<>> /\ Line' = <<>> /\ todo'["tick"] \in {todo["tick"], <<>>}
  /\ op'.cmd = op.cmd /\ op'.result = "crashed" /\ op'.raced = op.raced /\ SameRecord(op, op')
  /\ host' = host /\ surf' = surf /\ watch' = watch

(* The tick or the environment acts beside the command.                    *)
Passes ==
  /\ Line' = Line
  /\ SameCommand(op, op') /\ op'.result = op.result /\ op'.undoing = op.undoing /\ op'.dirty = op.dirty
  /\ SameRecord(op, op') /\ (op.raced => op'.raced)
  /\ todo'["tick"] # <<>> => todo["tick"] # <<>> \/ (surf.adapter /\ (Line # <<>> => op'.raced))
  /\ Has(todo'["tick"], "pluginOn") => Has(todo["tick"], "pluginOn") \/ host.mode = "managed"
  /\ Within(todo'["tick"], TickNames) /\ NextIs(todo'["tick"], "readMarker", "heal")
  /\ host.mode = "maintenance" /\ Within(todo["tick"], {"inspect", "gate"})
       => Within(todo'["tick"], {"inspect", "gate"})
  /\ host' = host /\ watch'.snap = watch.snap /\ watch'.value \in {watch.value, "user"}
  /\ surf'.policy = surf.policy /\ surf'.adapter = surf.adapter
  /\ surf'.plugin => surf.plugin \/ Has(todo["tick"], "pluginOn")
  /\ gw'.live => gw.live \/ (surf.plugin /\ (todo["tick"] # <<>> \/ Line = <<>>))

-----------------------------------------------------------------------------
(* Updates of the record of a command. *)

LEMMA ResultUpdate ==
  ASSUME NEW o \in Operation, NEW r \in {"none", "ok", "failed", "crashed"}
  PROVE  LET p == [o EXCEPT !.result = r]
         IN  /\ p \in Operation /\ p.result = r
             /\ SameCommand(o, p) /\ SameCourse(o, p) /\ SameRecord(o, p)
  BY DEF Operation, SameCommand, SameCourse, SameRecord

LEMMA UndoingUpdate ==
  ASSUME NEW o \in Operation
  PROVE  LET p == [o EXCEPT !.undoing = TRUE]
         IN  /\ p \in Operation /\ p.result = o.result /\ p.undoing /\ p.dirty = o.dirty
             /\ SameCommand(o, p) /\ p.raced = o.raced /\ SameRecord(o, p)
  BY DEF Operation, SameCommand, SameRecord

LEMMA DirtyUpdate ==
  ASSUME NEW o \in Operation
  PROVE  LET p == [o EXCEPT !.undoing = TRUE, !.dirty = @ \/ o.undoing]
         IN  /\ p \in Operation /\ p.result = o.result /\ p.undoing /\ p.dirty = (o.dirty \/ o.undoing)
             /\ SameCommand(o, p) /\ p.raced = o.raced /\ SameRecord(o, p)
  BY DEF Operation, SameCommand, SameRecord

LEMMA WithdrawnUpdate ==
  ASSUME NEW o \in Operation, NEW W \in SUBSET {"plugin", "policy", "adapter"}
  PROVE  LET p == [o EXCEPT !.withdrawn = W]
         IN  /\ p \in Operation /\ p.result = o.result /\ p.withdrawn = W /\ p.wiped = o.wiped
             /\ SameCommand(o, p) /\ SameCourse(o, p)
  BY DEF Operation, SameCommand, SameCourse

LEMMA WipedUpdate ==
  ASSUME NEW o \in Operation
  PROVE  LET p == [o EXCEPT !.wiped = TRUE]
         IN  /\ p \in Operation /\ p.result = o.result /\ p.withdrawn = o.withdrawn /\ p.wiped
             /\ SameCommand(o, p) /\ SameCourse(o, p)
  BY DEF Operation, SameCommand, SameCourse

LEMMA RacedUpdate ==
  ASSUME NEW o \in Operation, NEW b \in BOOLEAN
  PROVE  LET p == [o EXCEPT !.raced = @ \/ b]
         IN  /\ p \in Operation /\ p.result = o.result /\ p.raced = (o.raced \/ b)
             /\ SameCommand(o, p) /\ p.undoing = o.undoing /\ p.dirty = o.dirty /\ SameRecord(o, p)
  BY DEF Operation, SameCommand, SameRecord

LEMMA DriftedUpdate ==
  ASSUME NEW o \in Operation
  PROVE  LET p == [o EXCEPT !.drifted = TRUE]
         IN  /\ p \in Operation /\ p.result = o.result
             /\ SameCommand(o, p) /\ SameCourse(o, p) /\ SameRecord(o, p)
  BY DEF Operation, SameCommand, SameCourse, SameRecord

(* A command that goes on is the command, but for its result.              *)
LEMMA ContinuesBy ==
  ASSUME TypeOK, NEW rest \in Seq(StepNames), NEW o \in Operation, OpContinues(rest, o)
  PROVE  /\ todo' \in [Who -> Seq(StepNames)] /\ Line' = rest /\ todo'["tick"] = todo["tick"]
         /\ op' \in Operation /\ SameCommand(o, op') /\ SameCourse(o, op') /\ SameRecord(o, op')
         /\ op'.result = IF rest = <<>> THEN Result(o) ELSE o.result
<1>1. todo' \in [Who -> Seq(StepNames)] /\ Line' = rest /\ todo'["tick"] = todo["tick"]
  BY DEF TypeOK, OpContinues, Who, Line
<1>2. Result(o) \in {"none", "ok", "failed", "crashed"}
  BY DEF Result
<1>3. CASE rest = <<>>
  <2>1. op' = [o EXCEPT !.result = Result(o)]
    BY <1>3 DEF OpContinues
  <2> QED
    BY ONLY <1>1, <1>2, <1>3, <2>1, ResultUpdate, o \in Operation
<1>4. CASE rest # <<>>
  <2>1. op' = o
    BY <1>4 DEF OpContinues
  <2> QED
    BY <1>1, <1>4, <2>1 DEF SameCommand, SameCourse, SameRecord
<1> QED
  BY <1>3, <1>4

-----------------------------------------------------------------------------
(* The steps of a command. *)

LEMMA AdvancesBy ==
  ASSUME TypeOK, PlaceFits, Line # <<>>, NEW rest, NEW o \in Operation, OpContinues(rest, o),
         rest = Tail(Line) \/ (Head(Line) = "readMarker" /\ rest = Tail(Tail(Line))),
         SameCommand(op, o), SameCourse(op, o), o.result = op.result
  PROVE  /\ Goes /\ todo'["tick"] = todo["tick"] /\ todo' \in [Who -> Seq(StepNames)]
         /\ SameCommand(op, op') /\ SameCourse(op, op') /\ SameRecord(o, op') /\ op' \in Operation
         /\ op'.result = IF Line' = <<>> THEN Result(op) ELSE op.result
<1>1. Line \in Seq(StepNames) /\ Busy("op")
  BY ListsAreSequences DEF Line, Busy
<1>2. NextIs(Line, "readMarker", "heal")
  BY <1>1, PlaceIs DEF AnyList
<1>3. Tail(Line) \in Seq(StepNames) /\ (Head(Line) = "readMarker" => Tail(Line) # <<>>)
  BY ONLY <1>1, <1>2, Line # <<>>, HeadSays, TailHas
<1>4. Head(Line) = "readMarker" => Tail(Tail(Line)) \in Seq(StepNames)
  BY ONLY <1>3, TailHas
<1>5. rest \in Seq(StepNames)
  BY <1>3, <1>4
<1>6. /\ todo' \in [Who -> Seq(StepNames)] /\ Line' = rest /\ todo'["tick"] = todo["tick"]
      /\ op' \in Operation /\ SameCommand(o, op') /\ SameCourse(o, op') /\ SameRecord(o, op')
      /\ op'.result = IF rest = <<>> THEN Result(o) ELSE o.result
  BY <1>5, ContinuesBy
<1>7. Result(o) = Result(op)
  BY DEF Result, SameCourse
<1>8. SameCommand(op, op') /\ SameCourse(op, op')
  BY <1>6 DEF SameCommand, SameCourse
<1>9. Goes
  BY <1>6 DEF Goes
<1> QED
  BY <1>6, <1>7, <1>8, <1>9

(* A step that touches neither surfaces nor what is withdrawn keeps both.  *)
LEMMA KeepsBy ==
  ASSUME UNCHANGED surf, op'.withdrawn = op.withdrawn
  PROVE  Keeps
  BY DEF Keeps, Kept

SurfaceSteps == {"pluginOn", "pluginOff", "configure", "policyOn", "policyOff", "policyRestore", "adapterOn", "adapterOff"}

LEMMA SwitchKeeps ==
  ASSUME TypeOK, NEW step, NEW new \in Surface, Switch("op", step, new)
  PROVE  \E W \in SUBSET {"plugin", "policy", "adapter"} :
           /\ OpContinues(Tail(Line), [op EXCEPT !.withdrawn = W])
           /\ \A k \in {"adapter", "policy"} : Kept(k) => new[k] \/ k \in W
<1> DEFINE W == {k \in DOMAIN surf : ~new[k] /\ (surf[k] \/ k \in op.withdrawn)}
<1>1. DOMAIN surf = {"plugin", "policy", "adapter"}
  BY DEF TypeOK, Surface
<1>2. W \in SUBSET {"plugin", "policy", "adapter"}
  BY <1>1
<1>3. OpContinues(Tail(Line), [op EXCEPT !.withdrawn = W])
  BY DEF Switch, OpAdvances, Line
<1>4. \A k \in {"adapter", "policy"} : Kept(k) => new[k] \/ k \in W
  BY <1>1 DEF Kept
<1> QED
  BY <1>2, <1>3, <1>4

LEMMA SwitchAdvances ==
  ASSUME TypeOK, PlaceFits, NEW step \in SurfaceSteps, NEW new \in Surface, Switch("op", step, new),
         SurfTurns(step, new)
  PROVE  Advances /\ TypeOK'
<1>1. Line # <<>> /\ Head(Line) = step
  BY DEF Switch, At, Line
<1>2. surf' = new /\ UNCHANGED <<host, watch, gw, marker, lease, seen, budget>>
  BY DEF Switch
<1>3. PICK W \in SUBSET {"plugin", "policy", "adapter"} :
        /\ OpContinues(Tail(Line), [op EXCEPT !.withdrawn = W])
        /\ \A k \in {"adapter", "policy"} : Kept(k) => new[k] \/ k \in W
  BY SwitchKeeps
<1> DEFINE o == [op EXCEPT !.withdrawn = W]
<1>4. op \in Operation
  BY DEF TypeOK
<1>5. /\ o \in Operation /\ o.result = op.result /\ o.withdrawn = W /\ o.wiped = op.wiped
      /\ SameCommand(op, o) /\ SameCourse(op, o)
  BY ONLY <1>4, WithdrawnUpdate, W \in SUBSET {"plugin", "policy", "adapter"}
<1>6. OpContinues(Tail(Line), o)
  BY <1>3
<1> HIDE DEF o
<1>7. /\ Goes /\ todo'["tick"] = todo["tick"] /\ todo' \in [Who -> Seq(StepNames)]
      /\ SameCommand(op, op') /\ SameCourse(op, op') /\ SameRecord(o, op') /\ op' \in Operation
      /\ op'.result = IF Line' = <<>> THEN Result(op) ELSE op.result
  BY <1>1, <1>5, <1>6, AdvancesBy
<1>8. Keeps
  BY <1>2, <1>3, <1>5, <1>7 DEF Keeps, Kept, SameRecord
<1>9. op.wiped => op'.wiped
  BY <1>5, <1>7 DEF SameRecord
<1>10. HostTurns(step) /\ WatchTurns(step) /\ GwTurns(step)
  BY <1>2 DEF SurfaceSteps, HostTurns, WatchTurns, GwTurns
<1>11. Advances
  BY <1>1, <1>2, <1>7, <1>8, <1>9, <1>10 DEF Advances, SurfaceSteps
<1>12. TypeOK'
  BY <1>2, <1>7 DEF TypeOK
<1> QED
  BY <1>11, <1>12

LEMMA SurfacesAdvance ==
  ASSUME TypeOK, PlaceFits, Surfaces("op")
  PROVE  Advances /\ TypeOK'
<1>1. surf \in Surface /\ op.surf \in Surface
  BY DEF TypeOK, Operation
<1>2. CASE PluginOn("op")
  <2>1. [surf EXCEPT !.plugin = TRUE] \in Surface /\ SurfTurns("pluginOn", [surf EXCEPT !.plugin = TRUE])
    BY <1>1 DEF Surface, SurfTurns
  <2> QED
    BY <1>2, <2>1, SwitchAdvances DEF PluginOn, SurfaceSteps
<1>3. CASE PluginOff("op")
  <2>1. [surf EXCEPT !.plugin = FALSE] \in Surface /\ SurfTurns("pluginOff", [surf EXCEPT !.plugin = FALSE])
    BY <1>1 DEF Surface, SurfTurns
  <2> QED
    BY <1>3, <2>1, SwitchAdvances DEF PluginOff, SurfaceSteps
<1>4. CASE Configure("op")
  <2>1. surf \in Surface /\ SurfTurns("configure", surf)
    BY <1>1 DEF SurfTurns
  <2> QED
    BY <1>4, <2>1, SwitchAdvances DEF Configure, SurfaceSteps
<1>5. CASE PolicyOn("op")
  <2>1. [surf EXCEPT !.policy = TRUE] \in Surface /\ SurfTurns("policyOn", [surf EXCEPT !.policy = TRUE])
    BY <1>1 DEF Surface, SurfTurns
  <2> QED
    BY <1>5, <2>1, SwitchAdvances DEF PolicyOn, SurfaceSteps
<1>6. CASE PolicyOff("op")
  <2>1. [surf EXCEPT !.policy = FALSE] \in Surface /\ SurfTurns("policyOff", [surf EXCEPT !.policy = FALSE])
    BY <1>1 DEF Surface, SurfTurns
  <2> QED
    BY <1>6, <2>1, SwitchAdvances DEF PolicyOff, SurfaceSteps
<1>7. CASE PolicyRestore("op")
  <2> DEFINE new == [surf EXCEPT !.policy = op.surf.policy]
  <2>1. new \in Surface /\ SurfTurns("policyRestore", new)
    BY <1>1 DEF Surface, SurfTurns
  <2> QED
    BY <1>7, <2>1, SwitchAdvances DEF PolicyRestore, SurfaceSteps
<1>8. CASE AdapterOn("op")
  <2>1. [surf EXCEPT !.adapter = TRUE] \in Surface /\ SurfTurns("adapterOn", [surf EXCEPT !.adapter = TRUE])
    BY <1>1 DEF Surface, SurfTurns
  <2> QED
    BY <1>8, <2>1, SwitchAdvances DEF AdapterOn, SurfaceSteps
<1>9. CASE AdapterOff("op")
  <2>1. [surf EXCEPT !.adapter = FALSE] \in Surface /\ SurfTurns("adapterOff", [surf EXCEPT !.adapter = FALSE])
    BY <1>1 DEF Surface, SurfTurns
  <2> QED
    BY <1>9, <2>1, SwitchAdvances DEF AdapterOff, SurfaceSteps
<1> QED
  BY <1>2, <1>3, <1>4, <1>5, <1>6, <1>7, <1>8, <1>9 DEF Surfaces

(* A step that only goes on, whatever else it writes.                      *)
LEMMA PlainBy ==
  ASSUME TypeOK, PlaceFits, NEW step, At("op", step), NEW rest, OpContinues(rest, op), UNCHANGED surf,
         rest = Tail(Line) \/ (step = "readMarker" /\ rest = Tail(Tail(Line)))
  PROVE  /\ Line # <<>> /\ Head(Line) = step
         /\ Goes /\ todo'["tick"] = todo["tick"] /\ todo' \in [Who -> Seq(StepNames)]
         /\ SameCommand(op, op') /\ SameCourse(op, op') /\ op' \in Operation
         /\ op'.result = IF Line' = <<>> THEN Result(op) ELSE op.result
         /\ Keeps /\ (op.wiped => op'.wiped) /\ surf' \in Surface
<1>1. Line # <<>> /\ Head(Line) = step
  BY DEF At, Line
<1>2. op \in Operation /\ SameCommand(op, op) /\ SameCourse(op, op) /\ surf \in Surface
  BY DEF TypeOK, SameCommand, SameCourse
<1>3. /\ Goes /\ todo'["tick"] = todo["tick"] /\ todo' \in [Who -> Seq(StepNames)]
      /\ SameCommand(op, op') /\ SameCourse(op, op') /\ SameRecord(op, op') /\ op' \in Operation
      /\ op'.result = IF Line' = <<>> THEN Result(op) ELSE op.result
  BY <1>1, <1>2, AdvancesBy
<1>4. Keeps
  BY <1>3, KeepsBy DEF SameRecord
<1>5. op.wiped => op'.wiped
  BY <1>3 DEF SameRecord
<1> QED
  BY <1>1, <1>2, <1>3, <1>4, <1>5

LEMMA AdvanceIs ==
  ASSUME NEW w \in Who, Advance(w)
  PROVE  /\ w = "op" => OpContinues(Tail(Line), op)
         /\ w = "tick" => TickContinues(Tail(todo["tick"]))
  BY DEF Advance, Continue, Line, Who

LEMMA SameSurface ==
  ASSUME UNCHANGED surf, NEW step, step \notin SurfaceSteps \ {"configure"}
  PROVE  SurfTurns(step, surf')
  BY DEF SurfTurns, SurfaceSteps

LEMMA BootsBy ==
  ASSUME TypeOK
  PROVE  /\ Boot \in [up : BOOLEAN, live : BOOLEAN] /\ (Boot.live => Boot.up /\ surf.plugin)
         /\ EnsuredUp \in [up : BOOLEAN, live : BOOLEAN] /\ (EnsuredUp.live => EnsuredUp.up)
         /\ EnsuredUp.live => gw.live \/ surf.plugin
         /\ Down \in [up : BOOLEAN, live : BOOLEAN] /\ ~Down.live /\ ~Down.up
  BY DEF TypeOK, Boot, EnsuredUp, Down, Authorized, RawMode, Surface, Controller

(* The steps on the watchdog, and the others that write no surface.        *)
Plain(step) ==
  /\ At("op", step) /\ step \notin SurfaceSteps \ {"configure"}
  /\ \E rest : /\ OpContinues(rest, op)
               /\ rest = Tail(Line) \/ (step = "readMarker" /\ rest = Tail(Tail(Line)))
  /\ UNCHANGED surf

LEMMA PlainAdvances ==
  ASSUME TypeOK, PlaceFits, NEW step, Plain(step), step # "wipe", step = "admit" => host.mode # "passthrough",
         HostTurns(step), WatchTurns(step), GwTurns(step)
  PROVE  Advances /\ todo' \in [Who -> Seq(StepNames)] /\ op' \in Operation /\ surf' \in Surface
<1>1. PICK rest : /\ OpContinues(rest, op)
                  /\ rest = Tail(Line) \/ (step = "readMarker" /\ rest = Tail(Tail(Line)))
  BY DEF Plain
<1>2. At("op", step) /\ UNCHANGED surf /\ SurfTurns(step, surf')
  BY SameSurface DEF Plain
<1>3. /\ Line # <<>> /\ Head(Line) = step
      /\ Goes /\ todo'["tick"] = todo["tick"] /\ todo' \in [Who -> Seq(StepNames)]
      /\ SameCommand(op, op') /\ SameCourse(op, op') /\ op' \in Operation
      /\ op'.result = IF Line' = <<>> THEN Result(op) ELSE op.result
      /\ Keeps /\ (op.wiped => op'.wiped) /\ surf' \in Surface
  BY <1>1, <1>2, PlainBy
<1> QED
  BY <1>2, <1>3 DEF Advances

LEMMA PlainIs ==
  ASSUME NEW step, At("op", step), Advance("op"), UNCHANGED surf, step \notin SurfaceSteps \ {"configure"}
  PROVE  Plain(step)
<1>1. OpContinues(Tail(Line), op)
  BY AdvanceIs DEF Who
<1> QED
  BY <1>1 DEF Plain

LEMMA FenceAdvances ==
  ASSUME TypeOK, PlaceFits, Fence
  PROVE  Advances /\ TypeOK'
<1>1. /\ At("op", "fence") /\ Advance("op") /\ UNCHANGED <<host, surf, gw, marker, lease, seen, budget>>
      /\ watch' = [value |-> "managed", snap |-> [watch.snap EXCEPT !.applied = TRUE]]
  BY DEF Fence
<1>2. Plain("fence")
  BY <1>1, PlainIs DEF SurfaceSteps
<1>3. watch.snap \in Snapshot
  BY DEF TypeOK
<1>4. [watch.snap EXCEPT !.applied = TRUE] \in Snapshot
      /\ [watch.snap EXCEPT !.applied = TRUE].original = watch.snap.original
  BY <1>3 DEF Snapshot
<1>5. watch' \in [value : Values, snap : Snapshot] /\ WatchTurns("fence")
  BY <1>1, <1>4 DEF Values, WatchTurns
<1>6. HostTurns("fence") /\ GwTurns("fence")
  BY <1>1 DEF HostTurns, GwTurns
<1>7. Advances /\ todo' \in [Who -> Seq(StepNames)] /\ op' \in Operation /\ surf' \in Surface
  BY <1>2, <1>5, <1>6, PlainAdvances
<1> QED
  BY <1>1, <1>5, <1>7 DEF TypeOK

LEMMA RestoreAdvances ==
  ASSUME TypeOK, PlaceFits, WatchFits, RestoreValue
  PROVE  Advances /\ TypeOK'
<1> DEFINE back == IF watch.snap = NoSnap \/ watch.value # "managed" THEN watch.value ELSE watch.snap.original
<1>1. /\ At("op", "restoreValue") /\ Advance("op") /\ UNCHANGED <<host, surf, gw, marker, lease, seen, budget>>
      /\ watch' = [watch EXCEPT !.value = back]
  BY DEF RestoreValue
<1>2. Plain("restoreValue")
  BY <1>1, PlainIs DEF SurfaceSteps
<1>3. watch \in [value : Values, snap : Snapshot] /\ back \in Values
  BY DEF TypeOK, Snapshot, WatchFits
<1> HIDE DEF back
<1>4. watch' \in [value : Values, snap : Snapshot] /\ watch'.value = back /\ watch'.snap = watch.snap
  BY <1>1, <1>3
<1>5. WatchTurns("restoreValue") /\ HostTurns("restoreValue") /\ GwTurns("restoreValue")
  BY <1>1, <1>4 DEF HostTurns, GwTurns, WatchTurns, back
<1>6. Advances /\ todo' \in [Who -> Seq(StepNames)] /\ op' \in Operation /\ surf' \in Surface
  BY <1>2, <1>5, PlainAdvances
<1> QED
  BY <1>1, <1>4, <1>6 DEF TypeOK

LEMMA SnapUpdate ==
  ASSUME TypeOK, NEW snap \in Snapshot, watch' = [watch EXCEPT !.snap = snap]
  PROVE  watch' \in [value : Values, snap : Snapshot] /\ watch'.snap = snap /\ watch'.value = watch.value
  BY DEF TypeOK

LEMMA DropAdvances ==
  ASSUME TypeOK, PlaceFits, DropSnapshot
  PROVE  Advances /\ TypeOK'
<1>1. /\ At("op", "dropSnapshot") /\ Advance("op") /\ UNCHANGED <<host, surf, gw, marker, lease, seen, budget>>
      /\ watch' = [watch EXCEPT !.snap = NoSnap]
  BY DEF DropSnapshot
<1>2. Plain("dropSnapshot")
  BY <1>1, PlainIs DEF SurfaceSteps
<1>3. NoSnap \in Snapshot
  BY DEF NoSnap, Snapshot, Values
<1>4. watch' \in [value : Values, snap : Snapshot] /\ watch'.snap = NoSnap /\ watch'.value = watch.value
  BY <1>1, <1>3, SnapUpdate
<1>5. WatchTurns("dropSnapshot") /\ HostTurns("dropSnapshot") /\ GwTurns("dropSnapshot")
  BY <1>1, <1>4 DEF HostTurns, GwTurns, WatchTurns
<1>6. Advances /\ todo' \in [Who -> Seq(StepNames)] /\ op' \in Operation /\ surf' \in Surface
  BY <1>2, <1>5, PlainAdvances
<1> QED
  BY <1>1, <1>4, <1>6 DEF TypeOK

Moved == watch.snap.applied /\ watch.value # "managed"

LEMMA CaptureAdvances ==
  ASSUME TypeOK, PlaceFits, Capture, ~Moved
  PROVE  Advances /\ TypeOK'
<1>1. /\ At("op", "capture") /\ Advance("op") /\ UNCHANGED <<host, surf, gw, marker, lease, seen, budget>>
      /\ watch' = [watch EXCEPT !.snap = Captured]
  BY DEF Capture, Moved
<1>2. Plain("capture")
  BY <1>1, PlainIs DEF SurfaceSteps
<1>3. Captured \in Snapshot
  BY DEF TypeOK, Captured, Snapshot, Values
<1>4. watch' \in [value : Values, snap : Snapshot] /\ watch'.snap = Captured /\ watch'.value = watch.value
  BY <1>1, <1>3, SnapUpdate
<1>5. WatchTurns("capture") /\ HostTurns("capture") /\ GwTurns("capture")
  BY <1>1, <1>4 DEF HostTurns, GwTurns, WatchTurns
<1>6. Advances /\ todo' \in [Who -> Seq(StepNames)] /\ op' \in Operation /\ surf' \in Surface
  BY <1>2, <1>5, PlainAdvances
<1> QED
  BY <1>1, <1>4, <1>6 DEF TypeOK

(* A step that writes only the lease, or nothing but its own end.          *)
LEMMA QuietAdvances ==
  ASSUME TypeOK, PlaceFits, NEW step, At("op", step), Advance("op"), UNCHANGED <<host, surf, watch, gw>>,
         step \in {"lease", "release", "admit", "verify"}, step = "admit" => host.mode # "passthrough",
         marker' = marker, seen' = seen, budget' = budget, lease' \in {"free", "held", "stale"}
  PROVE  Advances /\ TypeOK'
<1>1. Plain(step)
  BY PlainIs DEF SurfaceSteps
<1>2. WatchTurns(step) /\ HostTurns(step) /\ GwTurns(step)
  BY DEF HostTurns, GwTurns, WatchTurns
<1>3. Advances /\ todo' \in [Who -> Seq(StepNames)] /\ op' \in Operation /\ surf' \in Surface
  BY <1>1, <1>2, PlainAdvances
<1> QED
  BY <1>3 DEF TypeOK

LEMMA LeaseAdvances ==
  ASSUME TypeOK, PlaceFits,
         \/ Acquire \/ Release
         \/ Admit /\ host.mode # "passthrough"
         \/ Verify /\ gw.up
  PROVE  Advances /\ TypeOK'
<1>1. CASE Acquire
  BY <1>1, QuietAdvances DEF Acquire
<1>2. CASE Release
  BY <1>2, QuietAdvances DEF Release
<1>3. CASE Admit /\ host.mode # "passthrough"
  BY <1>3, QuietAdvances DEF Admit, TypeOK
<1>4. CASE Verify /\ gw.up
  BY <1>4, QuietAdvances DEF Verify, TypeOK
<1> QED
  BY <1>1, <1>2, <1>3, <1>4

LEMMA CommitAdvances ==
  ASSUME TypeOK, PlaceFits, Transitions
  PROVE  Advances /\ TypeOK'
<1> DEFINE Turned(step, new) == Commit(step, new) /\ new \in Controller /\ (host' = new => HostTurns(step))
                               /\ step \in {"commit", "commitStop", "commitOff", "stateRollback"}
           off == IF host.mode = "passthrough" THEN host ELSE Transitioned("passthrough", "running")
<1>1. host \in Controller
  BY DEF TypeOK
<1>2. \A m \in {"managed", "maintenance", "passthrough"} : \A d \in {"running", "stopped"} :
        Transitioned(m, d) \in Controller /\ Transitioned(m, d).mode = m
  BY <1>1 DEF Transitioned, Controller
<1>3. Native \in Controller /\ Native.mode = "passthrough" /\ off \in Controller /\ off.mode = "passthrough"
  BY <1>1, <1>2 DEF Native, Controller
<1>4. \E step, new : Turned(step, new)
  BY <1>2, <1>3 DEF Transitions, HostTurns
<1>5. PICK step, new : Turned(step, new)
  BY <1>4
<1>6. /\ At("op", step) /\ host' = new /\ Advance("op")
      /\ UNCHANGED <<surf, watch, gw, marker, lease, seen, budget>> /\ new \in Controller
      /\ HostTurns(step) /\ step \in {"commit", "commitStop", "commitOff", "stateRollback"}
  BY <1>5 DEF Commit
<1>7. Plain(step) /\ WatchTurns(step) /\ GwTurns(step)
  BY <1>6, PlainIs DEF SurfaceSteps, WatchTurns, GwTurns
<1>8. Advances /\ todo' \in [Who -> Seq(StepNames)] /\ op' \in Operation /\ surf' \in Surface
  BY <1>6, <1>7, PlainAdvances
<1> QED
  BY <1>6, <1>8 DEF TypeOK

LEMMA WipeAdvances ==
  ASSUME TypeOK, PlaceFits, Wipe
  PROVE  Advances /\ TypeOK'
<1> DEFINE o == [op EXCEPT !.wiped = TRUE]
<1>1. /\ Line # <<>> /\ Head(Line) = "wipe" /\ UNCHANGED <<surf, gw, seen, budget>>
      /\ host' = Native /\ marker' = "none" /\ lease' = "free" /\ watch' = [watch EXCEPT !.snap = NoSnap]
  BY DEF Wipe, At, Line
<1>2. OpContinues(Tail(Line), o)
  BY DEF Wipe, OpAdvances, Line
<1>3. op \in Operation
  BY DEF TypeOK
<1>4. /\ o \in Operation /\ o.result = op.result /\ o.withdrawn = op.withdrawn /\ o.wiped
      /\ SameCommand(op, o) /\ SameCourse(op, o)
  BY ONLY <1>3, WipedUpdate
<1> HIDE DEF o
<1>5. /\ Goes /\ todo'["tick"] = todo["tick"] /\ todo' \in [Who -> Seq(StepNames)]
      /\ SameCommand(op, op') /\ SameCourse(op, op') /\ SameRecord(o, op') /\ op' \in Operation
      /\ op'.result = IF Line' = <<>> THEN Result(op) ELSE op.result
  BY <1>1, <1>2, <1>4, AdvancesBy
<1>6. op'.wiped /\ Keeps
  BY <1>1, <1>4, <1>5, KeepsBy DEF SameRecord
<1>7. NoSnap \in Snapshot /\ Native \in Controller /\ Native.mode = "passthrough"
  BY DEF NoSnap, Snapshot, Values, Native, Controller
<1>8. watch' \in [value : Values, snap : Snapshot] /\ watch'.snap = NoSnap /\ watch'.value = watch.value
  BY <1>1, <1>7, SnapUpdate
<1>9. HostTurns("wipe") /\ WatchTurns("wipe") /\ GwTurns("wipe") /\ SurfTurns("wipe", surf')
  BY <1>1, <1>7, <1>8, SameSurface DEF HostTurns, WatchTurns, GwTurns, SurfaceSteps
<1>10. Advances
  BY <1>1, <1>5, <1>6, <1>9 DEF Advances
<1>11. TypeOK'
  BY <1>1, <1>5, <1>7, <1>8 DEF TypeOK
<1> QED
  BY <1>10, <1>11

(* The steps on the Gateway and its marker. *)
GatewaySteps == {"cancel", "prepare", "stopGateway", "markRestart", "bounce", "boundary", "ensureUp"}
Markers == {"none", "manual", "restart"}
Gateways == [up : BOOLEAN, live : BOOLEAN]

LEMMA LifecycleIs ==
  ASSUME TypeOK, NEW w, Lifecycle(w)
  PROVE  \E step \in GatewaySteps, newGw \in Gateways, newMarker \in Markers :
           /\ Runtime(w, step, newGw, newMarker)
           /\ newGw.live => newGw.up
           /\ step \in {"bounce", "boundary"} => (newGw.live => surf.plugin)
           /\ step = "ensureUp" => (newGw.live => gw.live \/ surf.plugin)
           /\ step \notin {"bounce", "boundary", "ensureUp"} => (newGw.live => gw.live)
<1>1. gw \in Gateways /\ (gw.live => gw.up) /\ marker \in Markers
  BY DEF TypeOK, Gateways, Markers
<1>2. /\ Boot \in Gateways /\ (Boot.live => Boot.up /\ surf.plugin)
      /\ EnsuredUp \in Gateways /\ (EnsuredUp.live => EnsuredUp.up)
      /\ EnsuredUp.live => gw.live \/ surf.plugin
      /\ Down \in Gateways /\ ~Down.live
  BY BootsBy DEF Gateways
<1>3. CASE Cancel(w)
  BY <1>1, <1>3 DEF Cancel, GatewaySteps, Markers
<1>4. CASE Prepare(w)
  BY <1>1, <1>4 DEF Prepare, GatewaySteps, Markers
<1>5. CASE StopGateway(w)
  BY <1>1, <1>2, <1>5 DEF StopGateway, GatewaySteps, Markers
<1>6. CASE MarkRestart(w)
  BY <1>1, <1>6 DEF MarkRestart, GatewaySteps, Markers
<1>7. CASE Bounce(w)
  BY <1>1, <1>2, <1>7 DEF Bounce, GatewaySteps
<1>8. CASE Boundary(w)
  BY <1>1, <1>2, <1>8 DEF Boundary, GatewaySteps
<1>9. CASE EnsureUp(w)
  BY <1>2, <1>9 DEF EnsureUp, GatewaySteps, Markers
<1> QED
  BY <1>3, <1>4, <1>5, <1>6, <1>7, <1>8, <1>9 DEF Lifecycle

LEMMA LifecycleAdvances ==
  ASSUME TypeOK, PlaceFits, Lifecycle("op")
  PROVE  Advances /\ TypeOK'
<1>1. PICK step \in GatewaySteps, newGw \in Gateways, newMarker \in Markers :
        /\ Runtime("op", step, newGw, newMarker)
        /\ newGw.live => newGw.up
        /\ step \in {"bounce", "boundary"} => (newGw.live => surf.plugin)
        /\ step = "ensureUp" => (newGw.live => gw.live \/ surf.plugin)
        /\ step \notin {"bounce", "boundary", "ensureUp"} => (newGw.live => gw.live)
  BY LifecycleIs
<1>2. /\ At("op", step) /\ gw' = newGw /\ marker' = newMarker /\ Advance("op")
      /\ UNCHANGED <<host, surf, watch, lease, seen, budget>>
  BY <1>1 DEF Runtime
<1>3. Plain(step) /\ WatchTurns(step) /\ HostTurns(step)
  BY <1>2, PlainIs DEF SurfaceSteps, WatchTurns, HostTurns, GatewaySteps
<1>4. GwTurns(step)
  BY <1>1, <1>2 DEF GwTurns, GatewaySteps
<1>5. Advances /\ todo' \in [Who -> Seq(StepNames)] /\ op' \in Operation /\ surf' \in Surface
  BY <1>3, <1>4, PlainAdvances DEF GatewaySteps
<1> QED
  BY <1>1, <1>2, <1>5 DEF TypeOK, Gateways, Markers

LEMMA SeenUpdate ==
  ASSUME TypeOK, NEW w \in Who, NEW m \in Markers
  PROVE  [seen EXCEPT ![w] = m] \in [Who -> Markers]
  BY DEF TypeOK, Markers

LEMMA PulseAdvances ==
  ASSUME TypeOK, PlaceFits, ReadMarker("op") \/ Heal("op")
  PROVE  Advances /\ TypeOK'
<1>1. marker \in Markers /\ seen \in [Who -> Markers] /\ "op" \in Who /\ "none" \in Markers
  BY DEF TypeOK, Markers, Who
<1>2. CASE ReadMarker("op")
  <2>1. At("op", "readMarker") /\ UNCHANGED <<host, surf, watch, gw, marker, lease, budget>>
    BY <1>2 DEF ReadMarker
  <2>2. seen' = seen \/ seen' = [seen EXCEPT !["op"] = marker]
    BY <1>2 DEF ReadMarker
  <2>3. Plain("readMarker")
    BY <1>2, <2>1 DEF ReadMarker, Plain, Continue, Line, SurfaceSteps
  <2>4. WatchTurns("readMarker") /\ HostTurns("readMarker") /\ GwTurns("readMarker")
    BY <2>1 DEF WatchTurns, HostTurns, GwTurns
  <2>5. Advances /\ todo' \in [Who -> Seq(StepNames)] /\ op' \in Operation /\ surf' \in Surface
    BY <2>3, <2>4, PlainAdvances
  <2>6. seen' \in [Who -> Markers]
    BY <1>1, <2>2, SeenUpdate
  <2> QED
    BY <2>1, <2>5, <2>6 DEF TypeOK, Markers
<1>3. CASE Heal("op")
  <2>1. /\ At("op", "heal") /\ Advance("op") /\ UNCHANGED <<host, surf, watch, lease, budget>>
        /\ gw' \in {gw, EnsuredUp} /\ marker' \in {"none", marker} /\ seen' = [seen EXCEPT !["op"] = "none"]
    BY <1>3 DEF Heal
  <2>2. gw' \in Gateways /\ (gw'.live => gw'.up) /\ (gw'.live => gw.live \/ surf.plugin)
    BY <2>1, BootsBy DEF TypeOK, Gateways
  <2>3. Plain("heal") /\ WatchTurns("heal") /\ HostTurns("heal") /\ GwTurns("heal")
    BY <2>1, <2>2, PlainIs DEF SurfaceSteps, WatchTurns, HostTurns, GwTurns
  <2>4. Advances /\ todo' \in [Who -> Seq(StepNames)] /\ op' \in Operation /\ surf' \in Surface
    BY <2>3, PlainAdvances
  <2>5. seen' \in [Who -> Markers]
    BY <1>1, <2>1, SeenUpdate
  <2>6. marker' \in Markers
    BY <1>1, <2>1
  <2> QED
    BY <2>1, <2>2, <2>4, <2>5, <2>6 DEF TypeOK, Markers, Gateways
<1> QED
  BY <1>2, <1>3

(* A step that fails or refuses. *)

LEMMA TurnsBy ==
  ASSUME TypeOK, PlaceFits, Line # <<>>, NEW rest, NEW o \in Operation, OpContinues(rest, o),
         SameCommand(op, o), o.undoing, o.raced = op.raced, SameRecord(op, o), op.dirty => o.dirty,
         o.result = op.result, rest \in {<<>>, Tail(Line), Undo(Head(Line))}
  PROVE  /\ Line' = rest /\ todo'["tick"] = todo["tick"] /\ todo' \in [Who -> Seq(StepNames)]
         /\ SameCommand(op, op') /\ op'.undoing /\ op'.raced = op.raced /\ SameRecord(op, op')
         /\ op'.dirty = o.dirty /\ op' \in Operation
         /\ op'.result = IF Line' = <<>> THEN "failed" ELSE op.result
<1>1. Line \in Seq(StepNames) /\ Tail(Line) \in Seq(StepNames)
  BY ListsAreSequences, TailHas
<1>2. Undo(Head(Line)) \in Seq(StepNames) /\ <<>> \in Seq(StepNames)
  BY UndoIs DEF UndoOf
<1>3. rest \in Seq(StepNames)
  BY <1>1, <1>2
<1>4. /\ todo' \in [Who -> Seq(StepNames)] /\ Line' = rest /\ todo'["tick"] = todo["tick"]
      /\ op' \in Operation /\ SameCommand(o, op') /\ SameCourse(o, op') /\ SameRecord(o, op')
      /\ op'.result = IF rest = <<>> THEN Result(o) ELSE o.result
  BY <1>3, ContinuesBy
<1>5. Result(o) = "failed"
  BY DEF Result
<1>6. SameCommand(op, op') /\ SameRecord(op, op')
  BY <1>4 DEF SameCommand, SameRecord
<1> QED
  BY <1>4, <1>5, <1>6 DEF SameCourse

(* A failing step changes little besides.                                  *)
LEMMA PartialIs ==
  ASSUME TypeOK, NEW step, Partial(step)
  PROVE  /\ surf' \in Surface /\ surf'.plugin = surf.plugin /\ surf'.policy = surf.policy
         /\ surf'.adapter = surf.adapter \/ (step = "adapterOn" /\ surf'.adapter)
         /\ gw' \in Gateways /\ (gw'.live => gw'.up) /\ (gw'.live => gw.live)
<1>1. surf \in Surface /\ gw \in Gateways /\ (gw.live => gw.up)
  BY DEF TypeOK, Gateways
<1>2. Down \in Gateways /\ ~Down.live
  BY DEF Down, Gateways
<1>3. CASE UNCHANGED <<gw, surf>>
  BY <1>1, <1>3
<1>4. CASE gw' = Down /\ UNCHANGED surf
  BY <1>1, <1>2, <1>4
<1>5. CASE step = "adapterOn" /\ surf' = [surf EXCEPT !.adapter = TRUE] /\ UNCHANGED gw
  <2>1. surf' \in Surface /\ surf'.plugin = surf.plugin /\ surf'.policy = surf.policy /\ surf'.adapter
    BY <1>1, <1>5 DEF Surface
  <2> QED
    BY <1>1, <1>5, <2>1
<1> QED
  BY <1>3, <1>4, <1>5 DEF Partial

LEMMA BudgetUpdate ==
  ASSUME TypeOK, Fault
  PROVE  budget' \in [commands : Nat, faults : Nat, reboots : Nat] /\ budget'.reboots = budget.reboots
  BY DEF TypeOK, Fault

LEMMA UnswitchedKeeps ==
  ASSUME surf'.policy = surf.policy, surf.adapter => surf'.adapter, op'.withdrawn = op.withdrawn
  PROVE  Keeps
  BY DEF Keeps, Kept

LEMMA OpFailsTurns ==
  ASSUME TypeOK, PlaceFits, OpFails
  PROVE  Turns /\ TypeOK'
<1> DEFINE s == Head(Line)
           rest == IF ~op.undoing THEN Undo(s)
                   ELSE IF s \in {"restoreValue", "capture"} THEN <<>> ELSE Tail(Line)
           o == [op EXCEPT !.undoing = TRUE, !.dirty = @ \/ op.undoing]
<1>1. /\ Line # <<>> /\ s \notin {"readMarker", "heal", "release"} /\ Partial(s) /\ OpContinues(rest, o)
      /\ Fault /\ UNCHANGED <<host, watch, marker, lease, seen>>
  BY DEF OpFails, Busy, Line
<1>2. op \in Operation
  BY DEF TypeOK
<1>3. /\ o \in Operation /\ o.result = op.result /\ o.undoing /\ o.dirty = (op.dirty \/ op.undoing)
      /\ SameCommand(op, o) /\ o.raced = op.raced /\ SameRecord(op, o)
  BY ONLY <1>2, DirtyUpdate
<1>4. rest \in {<<>>, Tail(Line), Undo(s)}
  OBVIOUS
<1>5. /\ surf' \in Surface /\ surf'.plugin = surf.plugin /\ surf'.policy = surf.policy
      /\ surf'.adapter = surf.adapter \/ (s = "adapterOn" /\ surf'.adapter)
      /\ gw' \in Gateways /\ (gw'.live => gw'.up) /\ (gw'.live => gw.live)
  BY <1>1, PartialIs
<1>6. /\ ~op.undoing => rest = Undo(s)
      /\ op.undoing => rest \in {<<>>, Tail(Line)} /\ (s \in {"capture", "restoreValue"} => rest = <<>>)
  OBVIOUS
<1> HIDE DEF o, rest
<1>7. /\ Line' = rest /\ todo'["tick"] = todo["tick"] /\ todo' \in [Who -> Seq(StepNames)]
      /\ SameCommand(op, op') /\ op'.undoing /\ op'.raced = op.raced /\ SameRecord(op, op')
      /\ op'.dirty = o.dirty /\ op' \in Operation
      /\ op'.result = IF Line' = <<>> THEN "failed" ELSE op.result
  BY <1>1, <1>3, <1>4, TurnsBy
<1>8. Keeps
  BY <1>5, <1>7, UnswitchedKeeps DEF SameRecord
<1>9. Turns
  BY <1>1, <1>3, <1>5, <1>6, <1>7, <1>8 DEF Turns
<1>10. budget' \in [commands : Nat, faults : Nat, reboots : Nat]
  BY <1>1, BudgetUpdate
<1>11. TypeOK'
  BY <1>1, <1>5, <1>7, <1>10 DEF TypeOK, Gateways
<1> QED
  BY <1>9, <1>11

(* A step that refuses leaves the state but for the snapshot of a value    *)
(* that has moved.                                                         *)
LEMMA RefusalTurns ==
  ASSUME TypeOK, PlaceFits, NEW step \in {"capture", "lease", "admit", "verify"}, At("op", step), NEW rest,
         OpContinues(rest, [op EXCEPT !.undoing = TRUE]),
         rest = Undo(step) \/ (step \in {"capture", "admit"} /\ rest = <<>>),
         step = "capture" => rest = <<>>,
         UNCHANGED <<host, surf, gw, marker, lease, seen, budget>>,
         \/ watch' = watch
         \/ step = "capture" /\ watch.snap.applied /\ watch' = [watch EXCEPT !.snap = [@ EXCEPT !.applied = FALSE]]
  PROVE  Turns /\ TypeOK'
<1> DEFINE o == [op EXCEPT !.undoing = TRUE]
<1>1. Line # <<>> /\ Head(Line) = step
  BY DEF At, Line
<1>2. op \in Operation /\ OpContinues(rest, o)
  BY DEF TypeOK
<1>3. /\ o \in Operation /\ o.result = op.result /\ o.undoing /\ o.dirty = op.dirty
      /\ SameCommand(op, o) /\ o.raced = op.raced /\ SameRecord(op, o)
  BY ONLY <1>2, UndoingUpdate
<1>4. rest \in {<<>>, Tail(Line), Undo(Head(Line))}
  BY <1>1
<1> HIDE DEF o
<1>5. /\ Line' = rest /\ todo'["tick"] = todo["tick"] /\ todo' \in [Who -> Seq(StepNames)]
      /\ SameCommand(op, op') /\ op'.undoing /\ op'.raced = op.raced /\ SameRecord(op, op')
      /\ op'.dirty = o.dirty /\ op' \in Operation
      /\ op'.result = IF Line' = <<>> THEN "failed" ELSE op.result
  BY <1>1, <1>2, <1>3, <1>4, TurnsBy
<1>6. Keeps
  BY <1>5, UnswitchedKeeps DEF SameRecord
<1>7. watch.snap \in Snapshot
  BY DEF TypeOK
<1>8. [watch.snap EXCEPT !.applied = FALSE] \in Snapshot
  BY <1>7 DEF Snapshot
<1>9. /\ watch' \in [value : Values, snap : Snapshot] /\ watch'.value = watch.value
      /\ watch'.snap = watch.snap \/ (watch.snap.applied /\ watch'.snap = [watch.snap EXCEPT !.applied = FALSE])
  BY <1>7, <1>8, SnapUpdate DEF TypeOK
<1>10. Within(Line, UndoNames) => step = "capture"
  <2>1. Line \in Seq(StepNames)
    BY ListsAreSequences
  <2>2. Within(Line, UndoNames) => step \in UndoNames
    BY ONLY <1>1, <2>1, HeadSays
  <2> QED
    BY <2>2 DEF UndoNames, EnableUndoNames, DisableUndoNames
<1>11. Turns
  <2>1. op.undoing /\ Within(Line, UndoNames) =>
          (op'.dirty \/ Head(Line) = "capture") /\ Line' \in {<<>>, Tail(Line)}
    BY <1>1, <1>5, <1>10
  <2>2. ~op.undoing => Line' = Undo(Head(Line)) \/ (Head(Line) \in {"capture", "admit"} /\ Line' = <<>>)
    BY <1>1, <1>5
  <2>3. Head(Line) \in {"capture", "restoreValue"} => Line' = <<>>
    BY <1>1, <1>5
  <2>4. op.dirty => op'.dirty
    BY <1>3, <1>5
  <2>5. surf'.adapter = surf.adapter /\ surf'.plugin = surf.plugin /\ surf'.policy = surf.policy /\ gw' = gw
    OBVIOUS
  <2> QED
    BY <1>1, <1>5, <1>6, <1>9, <2>1, <2>2, <2>3, <2>4, <2>5 DEF Turns
<1>12. TypeOK'
  BY <1>5, <1>9 DEF TypeOK
<1> QED
  BY <1>11, <1>12

LEMMA RefusalsTurn ==
  ASSUME TypeOK, PlaceFits,
         \/ Capture /\ Moved
         \/ Refused
         \/ Admit /\ host.mode = "passthrough"
         \/ Verify /\ ~gw.up
  PROVE  Turns /\ TypeOK'
<1>1. CASE Capture /\ Moved
  BY <1>1, RefusalTurns DEF Capture, Moved
<1>2. CASE Refused
  BY <1>2, RefusalTurns DEF Refused
<1>3. CASE Admit /\ host.mode = "passthrough"
  BY <1>3, RefusalTurns DEF Admit
<1>4. CASE Verify /\ ~gw.up
  BY <1>4, RefusalTurns DEF Verify
<1> QED
  BY <1>1, <1>2, <1>3, <1>4

(* A command takes a step or turns to its rollback.                        *)
LEMMA OpStepIs ==
  ASSUME TypeOK, PlaceFits, WatchFits, OpStep \/ OpFails
  PROVE  TypeOK' /\ (Advances \/ Turns)
<1>1. CASE Surfaces("op")
  BY <1>1, SurfacesAdvance
<1>2. CASE Lifecycle("op")
  BY <1>2, LifecycleAdvances
<1>3. CASE ReadMarker("op") \/ Heal("op")
  BY <1>3, PulseAdvances
<1>4. CASE Capture
  BY <1>4, CaptureAdvances, RefusalsTurn
<1>5. CASE Fence
  BY <1>5, FenceAdvances
<1>6. CASE RestoreValue
  BY <1>6, RestoreAdvances
<1>7. CASE DropSnapshot
  BY <1>7, DropAdvances
<1>8. CASE Acquire \/ Release
  BY <1>8, LeaseAdvances
<1>9. CASE Refused
  BY <1>9, RefusalsTurn
<1>10. CASE Admit
  BY <1>10, LeaseAdvances, RefusalsTurn
<1>11. CASE Transitions
  BY <1>11, CommitAdvances
<1>12. CASE Wipe
  BY <1>12, WipeAdvances
<1>13. CASE Verify
  BY <1>13, LeaseAdvances, RefusalsTurn
<1>14. CASE OpFails
  BY <1>14, OpFailsTurns
<1> QED
  BY <1>1, <1>2, <1>3, <1>4, <1>5, <1>6, <1>7, <1>8, <1>9, <1>10, <1>11, <1>12, <1>13, <1>14 DEF OpStep, Step

-----------------------------------------------------------------------------
(* The tick and the environment beside a command. *)

Ticks == todo["tick"]

(* What a tick may still have to do.                                       *)
TickList(q) ==
  /\ q \in Seq(StepNames) /\ Within(q, TickNames) /\ NextIs(q, "readMarker", "heal")
  /\ Has(q, "pluginOn") => Has(Ticks, "pluginOn") \/ host.mode = "managed"
  /\ host.mode = "maintenance" /\ Within(Ticks, {"inspect", "gate"}) => Within(q, {"inspect", "gate"})

LEMMA TickIs ==
  ASSUME TypeOK, TickFits
  PROVE  TickList(Ticks)
<1>1. Ticks \in Seq(StepNames)
  BY ListsAreSequences DEF Ticks
<1>2. Within(Ticks, TickNames) /\ NextIs(Ticks, "readMarker", "heal")
  BY DEF TickFits, Ticks, Within, NextIs
<1> QED
  BY <1>1, <1>2 DEF TickList

LEMMA TickEmpty == TickList(<<>>)
  BY DEF TickList, Within, NextIs, Has

LEMMA TickTail ==
  ASSUME NEW q \in Seq(StepNames), q # <<>>, TickList(q)
  PROVE  TickList(Tail(q))
<1>1. Len(q) \in Nat /\ 1 \in 1..Len(q) /\ 1 <= Len(q) /\ Rest(q, 1) = q
  <2>1. Len(q) \in Nat /\ Len(q) # 0
    BY EmptySeq
  <2> QED
    BY <2>1, RestWhole
<1>2. CASE 1 < Len(q)
  <2>1. Tail(q) = Rest(q, 2) /\ 2 \in 1..Len(q)
    BY <1>1, <1>2, RestTail
  <2>2. /\ \A T : Within(q, T) => Within(Tail(q), T)
        /\ NextIs(q, "readMarker", "heal") => NextIs(Tail(q), "readMarker", "heal")
    BY ONLY <2>1, RestKeeps, RestWithin, q \in Seq(StepNames)
  <2>3. Tail(q) \in Seq(StepNames) /\ (Has(Tail(q), "pluginOn") => Has(q, "pluginOn"))
    BY TailHas
  <2> QED
    BY <2>2, <2>3 DEF TickList
<1>3. CASE 1 = Len(q)
  <2>1. Tail(q) = <<>>
    BY <1>1, <1>3, RestTail
  <2> QED
    BY <2>1, TickEmpty
<1> DEFINE l == Len(q)
<1>4. 1 < l \/ 1 = l
  <2>1. l \in Nat /\ 1 <= l
    BY <1>1
  <2> HIDE DEF l
  <2> QED
    BY <2>1
<1> QED
  BY ONLY <1>2, <1>3, <1>4

LEMMA TickContinuesBy ==
  ASSUME TypeOK, NEW rest \in Seq(StepNames), TickContinues(rest)
  PROVE  Line' = Line /\ Ticks' = rest /\ todo' \in [Who -> Seq(StepNames)] /\ op' = op
  BY DEF TypeOK, TickContinues, Line, Ticks, Who

(* A tick that goes on with a list of its own passes.                      *)
LEMMA PassesBy ==
  ASSUME TypeOK, Ticks # <<>>, NEW rest, TickList(rest), TickContinues(rest), UNCHANGED <<host, watch>>,
         surf'.policy = surf.policy, surf'.adapter = surf.adapter,
         surf'.plugin => surf.plugin \/ Has(Ticks, "pluginOn"), gw'.live => gw.live \/ surf.plugin
  PROVE  Passes /\ todo' \in [Who -> Seq(StepNames)] /\ op' \in Operation
<1>1. Line' = Line /\ Ticks' = rest /\ todo' \in [Who -> Seq(StepNames)] /\ op' = op
  BY TickContinuesBy DEF TickList
<1>2. SameCommand(op, op') /\ SameRecord(op, op')
  BY <1>1 DEF SameCommand, SameRecord
<1>3. op' \in Operation
  BY <1>1 DEF TypeOK
<1> QED
  BY <1>1, <1>2, <1>3 DEF Passes, TickList, Ticks

LEMMA TickGoesPasses ==
  ASSUME TypeOK, Ticks # <<>>, NEW rest, TickList(rest), TickGoes(rest)
  PROVE  Passes /\ TypeOK'
<1>1. TickContinues(rest) /\ UNCHANGED <<host, surf, watch, gw, marker, lease, seen, budget>>
  BY DEF TickGoes
<1>2. Passes /\ todo' \in [Who -> Seq(StepNames)] /\ op' \in Operation
  BY <1>1, PassesBy
<1> QED
  BY <1>1, <1>2 DEF TypeOK

(* The lists a tick may choose.                                            *)
LEMMA TickChoices ==
  /\ TickList(<<"gate">>)
  /\ host.mode = "managed" => TickList(<<"pluginOn", "bounce", "recheck", "gate">>)
  /\ host.mode = "managed" => TickList(<<"prepare", "stopGateway", "ensureUp">>)
  /\ host.mode = "managed" => TickList(<<"probe">>)
  /\ ~Within(Ticks, {"inspect", "gate"}) =>
       /\ TickList(<<"markRestart", "bounce">>) /\ TickList(<<"regate">>)
       /\ TickList(Pulse) /\ TickList(<<"ensureUp">> \o Pulse)
<1> USE DEF TickList, Within, NextIs, Has, TickNames, StepNames
<1>1. TickList(<<"gate">>)
  OBVIOUS
<1>2. ASSUME host.mode = "managed" PROVE TickList(<<"pluginOn", "bounce", "recheck", "gate">>)
  BY <1>2
<1>3. ASSUME host.mode = "managed" PROVE TickList(<<"prepare", "stopGateway", "ensureUp">>)
  BY <1>3
<1>4. ASSUME host.mode = "managed" PROVE TickList(<<"probe">>)
  BY <1>4
<1>5. ASSUME ~Within(Ticks, {"inspect", "gate"}) PROVE TickList(<<"markRestart", "bounce">>)
  BY <1>5
<1>6. ASSUME ~Within(Ticks, {"inspect", "gate"}) PROVE TickList(<<"regate">>)
  BY <1>6
<1>7. ASSUME ~Within(Ticks, {"inspect", "gate"}) PROVE TickList(Pulse)
  BY <1>7 DEF Pulse
<1>8. ASSUME ~Within(Ticks, {"inspect", "gate"}) PROVE TickList(<<"ensureUp">> \o Pulse)
  BY <1>8 DEF Pulse
<1> HIDE DEF TickList, Within
<1> QED
  BY <1>1, <1>2, <1>3, <1>4, <1>5, <1>6, <1>7, <1>8

LEMMA TickHead ==
  ASSUME TypeOK, NEW step, At("tick", step)
  PROVE  /\ Ticks # <<>> /\ Head(Ticks) = step /\ Has(Ticks, step) /\ Ticks \in Seq(StepNames)
         /\ step \notin {"inspect", "gate"} => ~Within(Ticks, {"inspect", "gate"})
<1>1. Ticks # <<>> /\ Head(Ticks) = step /\ Ticks \in Seq(StepNames)
  BY ListsAreSequences DEF At, Ticks
<1>2. Has(Ticks, Head(Ticks)) /\ (\A T : Within(Ticks, T) => Head(Ticks) \in T)
  BY ONLY <1>1, HeadSays
<1> QED
  BY <1>1, <1>2

LEMMA InspectPasses ==
  ASSUME TypeOK, TickFits, Inspect \/ Recheck \/ Gate \/ Probe \/ Regate
  PROVE  Passes /\ TypeOK'
<1>1. TickList(<<>>)
  BY TickEmpty
<1>2. CASE Inspect
  <2>1. Ticks # <<>> /\ (Drifted => host.mode = "managed")
    BY <1>2, TickHead DEF Inspect, Drifted, Supervised
  <2> QED
    BY <1>2, <2>1, TickChoices, TickGoesPasses DEF Inspect
<1>3. CASE Recheck
  <2>1. Ticks # <<>>
    BY <1>3, TickHead DEF Recheck
  <2> QED
    BY <1>1, <1>3, <2>1, TickChoices, TickGoesPasses DEF Recheck
<1>4. CASE Gate
  <2>1. Ticks # <<>> /\ (~Quiesced => host.mode = "managed")
    BY <1>4, TickHead DEF Gate, Quiesced, Supervised
  <2> QED
    BY <1>1, <1>4, <2>1, TickChoices, TickGoesPasses DEF Gate
<1>5. CASE Probe
  <2>1. Ticks # <<>> /\ ~Within(Ticks, {"inspect", "gate"})
    BY <1>5, TickHead DEF Probe
  <2> QED
    BY <1>1, <1>5, <2>1, TickChoices, TickGoesPasses DEF Probe
<1>6. CASE Regate
  <2>1. Ticks # <<>> /\ ~Within(Ticks, {"inspect", "gate"})
    BY <1>6, TickHead DEF Regate
  <2> QED
    BY <1>1, <1>6, <2>1, TickChoices, TickGoesPasses DEF Regate
<1> QED
  BY <1>2, <1>3, <1>4, <1>5, <1>6

LEMMA TickSwitches ==
  ASSUME TypeOK, TickFits, Surfaces("tick")
  PROVE  Passes /\ TypeOK'
<1>1. TickList(Ticks)
  BY TickIs
<1>2. \A step : At("tick", step) => step \in TickNames
  BY <1>1, TickHead, HeadSays DEF TickList
<1>3. PluginOn("tick")
  BY <1>2 DEF Surfaces, PluginOff, Configure, PolicyOn, PolicyOff, PolicyRestore, AdapterOn, AdapterOff, Switch,
              TickNames
<1>4. /\ At("tick", "pluginOn") /\ surf' = [surf EXCEPT !.plugin = TRUE] /\ Advance("tick")
      /\ UNCHANGED <<host, watch, gw, marker, lease, seen, budget>>
  BY <1>3 DEF PluginOn, Switch
<1>5. Ticks # <<>> /\ Has(Ticks, "pluginOn") /\ Ticks \in Seq(StepNames)
  BY <1>4, TickHead
<1>6. TickContinues(Tail(Ticks)) /\ TickList(Tail(Ticks))
  BY <1>1, <1>4, <1>5, AdvanceIs, TickTail DEF Who, Ticks
<1>7. surf' \in Surface /\ surf'.policy = surf.policy /\ surf'.adapter = surf.adapter
  BY <1>4 DEF TypeOK, Surface
<1>8. Passes /\ todo' \in [Who -> Seq(StepNames)] /\ op' \in Operation
  BY <1>4, <1>5, <1>6, <1>7, PassesBy
<1> QED
  BY <1>4, <1>7, <1>8 DEF TypeOK

LEMMA TickRuns ==
  ASSUME TypeOK, TickFits, Lifecycle("tick")
  PROVE  Passes /\ TypeOK'
<1>1. PICK step \in GatewaySteps, newGw \in Gateways, newMarker \in Markers :
        /\ Runtime("tick", step, newGw, newMarker)
        /\ newGw.live => newGw.up
        /\ step \in {"bounce", "boundary"} => (newGw.live => surf.plugin)
        /\ step = "ensureUp" => (newGw.live => gw.live \/ surf.plugin)
        /\ step \notin {"bounce", "boundary", "ensureUp"} => (newGw.live => gw.live)
  BY LifecycleIs
<1>2. /\ At("tick", step) /\ gw' = newGw /\ marker' = newMarker /\ Advance("tick")
      /\ UNCHANGED <<host, surf, watch, lease, seen, budget>>
  BY <1>1 DEF Runtime
<1>3. Ticks # <<>> /\ Ticks \in Seq(StepNames) /\ TickList(Ticks)
  BY <1>2, TickHead, TickIs
<1>4. TickContinues(Tail(Ticks)) /\ TickList(Tail(Ticks))
  BY <1>2, <1>3, AdvanceIs, TickTail DEF Who, Ticks
<1>5. gw'.live => gw.live \/ surf.plugin
  BY <1>1, <1>2
<1>6. Passes /\ todo' \in [Who -> Seq(StepNames)] /\ op' \in Operation
  BY <1>2, <1>3, <1>4, <1>5, PassesBy
<1> QED
  BY <1>1, <1>2, <1>6 DEF TypeOK, Gateways, Markers

LEMMA TickPulses ==
  ASSUME TypeOK, TickFits, ReadMarker("tick") \/ Heal("tick")
  PROVE  Passes /\ TypeOK'
<1>1. marker \in Markers /\ seen \in [Who -> Markers] /\ "tick" \in Who /\ "none" \in Markers
  BY DEF TypeOK, Markers, Who
<1>2. TickList(Ticks)
  BY TickIs
<1>3. CASE ReadMarker("tick")
  <2>1. /\ At("tick", "readMarker") /\ UNCHANGED <<host, surf, watch, gw, marker, lease, budget>>
        /\ seen' = seen \/ seen' = [seen EXCEPT !["tick"] = marker]
        /\ TickContinues(Tail(Ticks)) \/ TickContinues(Tail(Tail(Ticks)))
    BY <1>3 DEF ReadMarker, Continue, Ticks
  <2>2. Ticks # <<>> /\ Head(Ticks) = "readMarker" /\ Ticks \in Seq(StepNames)
    BY <2>1, TickHead
  <2>3. NextIs(Ticks, "readMarker", "heal")
    BY <1>2 DEF TickList
  <2>4. Tail(Ticks) # <<>>
    BY ONLY <2>2, <2>3, HeadSays
  <2>5. TickList(Tail(Ticks)) /\ Tail(Ticks) \in Seq(StepNames)
    BY <1>2, <2>2, TickTail DEF TickList
  <2>6. TickList(Tail(Tail(Ticks)))
    BY ONLY <2>4, <2>5, TickTail
  <2>7. Passes /\ todo' \in [Who -> Seq(StepNames)] /\ op' \in Operation
    BY <2>1, <2>2, <2>5, <2>6, PassesBy
  <2>8. seen' \in [Who -> Markers]
    BY <1>1, <2>1, SeenUpdate
  <2> QED
    BY <2>1, <2>7, <2>8 DEF TypeOK, Markers
<1>4. CASE Heal("tick")
  <2>1. /\ At("tick", "heal") /\ Advance("tick") /\ UNCHANGED <<host, surf, watch, lease, budget>>
        /\ gw' \in {gw, EnsuredUp} /\ marker' \in {"none", marker} /\ seen' = [seen EXCEPT !["tick"] = "none"]
    BY <1>4 DEF Heal
  <2>2. Ticks # <<>> /\ Ticks \in Seq(StepNames)
    BY <2>1, TickHead
  <2>3. TickContinues(Tail(Ticks)) /\ TickList(Tail(Ticks))
    BY <1>2, <2>1, <2>2, AdvanceIs, TickTail DEF Who, Ticks
  <2>4. gw' \in Gateways /\ (gw'.live => gw'.up) /\ (gw'.live => gw.live \/ surf.plugin)
    BY <2>1, BootsBy DEF TypeOK, Gateways
  <2>5. Passes /\ todo' \in [Who -> Seq(StepNames)] /\ op' \in Operation
    BY <2>1, <2>2, <2>3, <2>4, PassesBy
  <2>6. seen' \in [Who -> Markers] /\ marker' \in Markers
    BY <1>1, <2>1, SeenUpdate
  <2> QED
    BY <2>1, <2>4, <2>5, <2>6 DEF TypeOK, Markers, Gateways
<1> QED
  BY <1>3, <1>4

LEMMA TickFailsPasses ==
  ASSUME TypeOK, TickFits, TickFails
  PROVE  Passes /\ TypeOK'
<1>1. /\ Ticks # <<>> /\ Partial(Head(Ticks)) /\ TickContinues(<<>>) /\ Fault
      /\ UNCHANGED <<host, watch, marker, lease, seen>>
  BY DEF TickFails, Busy, Ticks
<1>2. TickList(Ticks) /\ TickList(<<>>)
  BY TickIs, TickEmpty
<1>3. Head(Ticks) \in TickNames
  BY <1>1, <1>2, HeadSays DEF TickList
<1>4. /\ surf' \in Surface /\ surf'.plugin = surf.plugin /\ surf'.policy = surf.policy
      /\ surf'.adapter = surf.adapter
      /\ gw' \in Gateways /\ (gw'.live => gw'.up) /\ (gw'.live => gw.live)
  BY <1>1, <1>3, PartialIs DEF TickNames
<1>5. Passes /\ todo' \in [Who -> Seq(StepNames)] /\ op' \in Operation
  BY <1>1, <1>2, <1>4, PassesBy
<1>6. budget' \in [commands : Nat, faults : Nat, reboots : Nat]
  BY <1>1, BudgetUpdate
<1> QED
  BY <1>1, <1>4, <1>5, <1>6 DEF TypeOK, Gateways

LEMMA TickStartPasses ==
  ASSUME TypeOK, TickStart
  PROVE  Passes /\ TypeOK'
<1> DEFINE first == <<"inspect", "gate">>
<1>1. /\ surf.adapter /\ Ticks = <<>> /\ todo' = [todo EXCEPT !["tick"] = first]
      /\ op' = [op EXCEPT !.raced = @ \/ Busy("op")]
      /\ UNCHANGED <<host, surf, watch, gw, marker, lease, seen, budget>>
  BY DEF TickStart, Busy, Ticks
<1>2. /\ first \in Seq(StepNames) /\ Within(first, TickNames) /\ NextIs(first, "readMarker", "heal")
      /\ ~Has(first, "pluginOn") /\ Within(first, {"inspect", "gate"})
  BY DEF StepNames, Within, TickNames, NextIs, Has
<1> HIDE DEF first
<1>3. Line' = Line /\ Ticks' = first /\ todo' \in [Who -> Seq(StepNames)]
  BY <1>1, <1>2 DEF TypeOK, Line, Ticks, Who
<1>4. op \in Operation /\ Busy("op") \in BOOLEAN /\ (Busy("op") <=> Line # <<>>)
  BY DEF TypeOK, Busy, Line
<1>5. /\ op' \in Operation /\ op'.result = op.result /\ op'.raced = (op.raced \/ Busy("op"))
      /\ SameCommand(op, op') /\ op'.undoing = op.undoing /\ op'.dirty = op.dirty /\ SameRecord(op, op')
  BY ONLY <1>1, <1>4, RacedUpdate
<1>6. Passes
  BY <1>1, <1>2, <1>3, <1>4, <1>5 DEF Passes, Ticks
<1> QED
  BY <1>1, <1>3, <1>5, <1>6 DEF TypeOK

(* What leaves both processes where they are.                              *)
LEMMA StillBy ==
  ASSUME TypeOK, TickFits, UNCHANGED <<todo, host>>,
         \/ op' = op
         \/ op' = [op EXCEPT !.drifted = TRUE],
         watch'.snap = watch.snap, watch'.value \in {watch.value, "user"},
         surf'.policy = surf.policy, surf'.adapter = surf.adapter, surf'.plugin => surf.plugin,
         gw'.live => gw.live
  PROVE  Passes /\ todo' \in [Who -> Seq(StepNames)] /\ op' \in Operation
<1>1. Line' = Line /\ Ticks' = Ticks /\ todo' \in [Who -> Seq(StepNames)]
  BY DEF TypeOK, Line, Ticks
<1>2. TickList(Ticks) /\ op \in Operation
  BY TickIs DEF TypeOK
<1>3. /\ op' \in Operation /\ op'.result = op.result
      /\ SameCommand(op, op') /\ SameCourse(op, op') /\ SameRecord(op, op')
  <2>1. CASE op' = op
    BY <1>2, <2>1 DEF SameCommand, SameCourse, SameRecord
  <2>2. CASE op' = [op EXCEPT !.drifted = TRUE]
    BY ONLY <1>2, <2>2, DriftedUpdate
  <2> QED
    BY <2>1, <2>2
<1> QED
  BY <1>1, <1>2, <1>3 DEF Passes, TickList, Ticks, SameCourse

LEMMA EnvironmentPasses ==
  ASSUME TypeOK, TickFits, LeaseExpires \/ Meddle
  PROVE  Passes /\ TypeOK'
<1>1. watch \in [value : Values, snap : Snapshot] /\ surf \in Surface /\ gw \in Gateways
  BY DEF TypeOK, Gateways
<1>2. CASE LeaseExpires
  <2>1. Passes /\ todo' \in [Who -> Seq(StepNames)] /\ op' \in Operation
    BY <1>2, StillBy DEF LeaseExpires
  <2> QED
    BY <1>2, <2>1 DEF LeaseExpires, TypeOK
<1>3. CASE Meddle
  <2>1. Fault /\ UNCHANGED <<host, marker, lease, todo, seen>>
    BY <1>3 DEF Meddle
  <2>2. budget' \in [commands : Nat, faults : Nat, reboots : Nat]
    BY <2>1, BudgetUpdate
  <2>3. CASE gw' = Down /\ UNCHANGED <<surf, watch, op>>
    <3>1. ~gw'.live /\ gw' \in Gateways
      BY <2>3, BootsBy DEF Gateways
    <3>2. Passes /\ todo' \in [Who -> Seq(StepNames)] /\ op' \in Operation
      BY <1>1, <2>1, <2>3, <3>1, StillBy
    <3> QED
      BY <2>1, <2>2, <2>3, <3>1, <3>2 DEF TypeOK, Gateways
  <2>4. CASE watch' = [watch EXCEPT !.value = "user"] /\ UNCHANGED <<gw, surf, op>>
    <3>1. watch' \in [value : Values, snap : Snapshot] /\ watch'.snap = watch.snap /\ watch'.value = "user"
      BY <1>1, <2>4 DEF Values
    <3>2. Passes /\ todo' \in [Who -> Seq(StepNames)] /\ op' \in Operation
      BY <2>1, <2>4, <3>1, StillBy
    <3> QED
      BY <2>1, <2>2, <2>4, <3>1, <3>2 DEF TypeOK
  <2>5. CASE surf' = [surf EXCEPT !.plugin = FALSE] /\ op' = [op EXCEPT !.drifted = TRUE] /\ UNCHANGED <<gw, watch>>
    <3>1. surf' \in Surface /\ surf'.policy = surf.policy /\ surf'.adapter = surf.adapter /\ ~surf'.plugin
      BY <1>1, <2>5 DEF Surface
    <3>2. Passes /\ todo' \in [Who -> Seq(StepNames)] /\ op' \in Operation
      BY <2>1, <2>5, <3>1, StillBy
    <3> QED
      BY <2>1, <2>2, <2>5, <3>1, <3>2 DEF TypeOK
  <2> QED
    BY <1>3, <2>3, <2>4, <2>5 DEF Meddle
<1> QED
  BY <1>2, <1>3

(* A death of a process, a restart of the machine. *)

LEMMA KilledIs ==
  ASSUME TypeOK, TickFits, NEW w \in Who, Killed(w)
  PROVE  TypeOK' /\ (Passes \/ Stops)
<1>1. /\ Busy(w) /\ todo' = [todo EXCEPT ![w] = <<>>] /\ Fault /\ UNCHANGED <<host, surf, watch, gw, marker, lease, seen>>
      /\ op' = IF w = "op" THEN [op EXCEPT !.result = "crashed"] ELSE op
  BY DEF Killed
<1>2. budget' \in [commands : Nat, faults : Nat, reboots : Nat]
  BY <1>1, BudgetUpdate
<1>3. op \in Operation /\ todo \in [Who -> Seq(StepNames)] /\ <<>> \in Seq(StepNames)
  BY DEF TypeOK
<1>4. CASE w = "op"
  <2>1. Line # <<>> /\ Line' = <<>> /\ Ticks' = Ticks /\ todo' \in [Who -> Seq(StepNames)]
    BY <1>1, <1>3, <1>4 DEF Line, Ticks, Who, Busy
  <2>2. op' = [op EXCEPT !.result = "crashed"]
    BY <1>1, <1>4
  <2>3. op' \in Operation /\ op'.result = "crashed" /\ SameCommand(op, op') /\ SameRecord(op, op') /\ op'.raced = op.raced
    BY ONLY <1>3, <2>2, ResultUpdate DEF SameCourse
  <2>4. Stops
    BY <1>1, <2>1, <2>3 DEF Stops, Ticks, SameCommand
  <2> QED
    BY <1>1, <1>2, <2>1, <2>3, <2>4 DEF TypeOK
<1>5. CASE w = "tick"
  <2>1. Ticks # <<>> /\ TickContinues(<<>>)
    BY <1>1, <1>5 DEF TickContinues, Busy, Ticks
  <2>2. Passes /\ todo' \in [Who -> Seq(StepNames)] /\ op' \in Operation
    BY <1>1, <2>1, TickEmpty, PassesBy
  <2> QED
    BY <1>1, <1>2, <2>2 DEF TypeOK
<1> QED
  BY <1>4, <1>5 DEF Who

LEMMA RebootIs ==
  ASSUME TypeOK, TickFits, Reboot
  PROVE  TypeOK' /\ (Passes \/ Stops)
<1>1. /\ todo' = [w \in Who |-> <<>>] /\ UNCHANGED <<host, surf, watch, marker, lease, seen>>
      /\ gw' \in {Down, Boot} /\ budget' = [budget EXCEPT !.faults = @ + 1, !.reboots = @ + 1]
      /\ op' = IF Line # <<>> THEN [op EXCEPT !.result = "crashed"] ELSE op
  BY DEF Reboot, Busy, Line
<1>2. budget' \in [commands : Nat, faults : Nat, reboots : Nat]
  <2>1. budget \in [commands : Nat, faults : Nat, reboots : Nat]
    BY DEF TypeOK
  <2>2. budget.faults + 1 \in Nat /\ budget.reboots + 1 \in Nat
    BY <2>1
  <2> QED
    BY ONLY <1>1, <2>1, <2>2
<1>3. op \in Operation /\ <<>> \in Seq(StepNames)
  BY DEF TypeOK
<1>4. todo' \in [Who -> Seq(StepNames)] /\ Line' = <<>> /\ Ticks' = <<>>
  BY <1>1, <1>3 DEF Line, Ticks, Who
<1>5. gw' \in Gateways /\ (gw'.live => gw'.up) /\ (gw'.live => surf.plugin)
  BY <1>1, BootsBy DEF Gateways
<1>6. CASE Line # <<>>
  <2>1. op' = [op EXCEPT !.result = "crashed"]
    BY <1>1, <1>6
  <2>2. op' \in Operation /\ op'.result = "crashed" /\ SameCommand(op, op') /\ SameRecord(op, op') /\ op'.raced = op.raced
    BY ONLY <1>3, <2>1, ResultUpdate DEF SameCourse
  <2>3. Stops
    BY <1>1, <1>4, <1>6, <2>2 DEF Stops, Ticks, SameCommand
  <2> QED
    BY <1>1, <1>2, <1>4, <1>5, <2>2, <2>3 DEF TypeOK, Gateways
<1>7. CASE Line = <<>>
  <2>1. op' = op
    BY <1>1, <1>7
  <2>2. SameCommand(op, op') /\ SameRecord(op, op') /\ op' \in Operation
    BY <1>3, <2>1 DEF SameCommand, SameRecord
  <2>3. TickList(<<>>)
    BY TickEmpty
  <2>4. Passes
    BY <1>1, <1>4, <1>5, <1>7, <2>1, <2>2, <2>3 DEF Passes, TickList, Ticks
  <2> QED
    BY <1>1, <1>2, <1>4, <1>5, <2>2, <2>4 DEF TypeOK, Gateways
<1> QED
  BY <1>6, <1>7

(* A command is given. *)

LEMMA StepsAre ==
  ASSUME NEW cmd \in {"enable", "disable", "start", "stop", "restart", "reset"}
  PROVE  Steps(cmd) \in Programs(cmd) /\ Steps(cmd) # <<>> /\ Steps(cmd) \in Seq(StepNames)
         /\ Head(Steps(cmd)) \in FirstNames
<1>1. /\ EnableSteps # <<>> /\ Head(EnableSteps) \in FirstNames
      /\ DisableSteps # <<>> /\ Head(DisableSteps) \in FirstNames
  BY DEF EnableSteps, EnableCore, Pulse, FirstNames, DisableSteps, DisableCore
<1>2. /\ StartSteps # <<>> /\ Head(StartSteps) \in FirstNames
      /\ RestartSteps # <<>> /\ Head(RestartSteps) \in FirstNames
      /\ StopSteps # <<>> /\ Head(StopSteps) \in FirstNames
      /\ ResetSteps # <<>> /\ Head(ResetSteps) \in FirstNames
  BY DEF StartSteps, RestartSteps, StopSteps, ResetSteps, DisableCore, EnableCore, Pulse, FirstNames
<1>3. LET q == <<"capture", "fence">> \o StartSteps
          p == <<"capture", "fence">> \o RestartSteps
      IN  q # <<>> /\ Head(q) \in FirstNames /\ p # <<>> /\ Head(p) \in FirstNames
  BY DEF StartSteps, RestartSteps, Pulse, FirstNames
<1>4. <<>> \o StartSteps = StartSteps /\ <<>> \o RestartSteps = RestartSteps
  BY DEF StartSteps, RestartSteps, Pulse
<1>5. \A q \in Programs(cmd) : q # <<>> /\ Head(q) \in FirstNames
  BY <1>1, <1>2, <1>3 DEF Programs
<1>6. Steps(cmd) \in Programs(cmd)
  BY <1>4 DEF Steps, Programs, Fenced
<1> QED
  BY <1>5, <1>6, ProgramIs

LEMMA NoOpUpdate ==
  ASSUME TypeOK, NEW cmd \in Commands
  PROVE  LET p == [NoOp EXCEPT !.cmd = cmd, !.host = host, !.surf = surf, !.live = gw.live, !.value = watch.value,
                               !.raced = Busy("tick"), !.withdrawn = op.withdrawn, !.wiped = op.wiped]
         IN  /\ p \in Operation /\ p.cmd = cmd /\ p.host = host /\ p.surf = surf /\ p.live = gw.live
             /\ p.value = watch.value /\ p.result = "none" /\ ~p.undoing /\ ~p.dirty /\ p.raced = Busy("tick")
             /\ SameRecord(op, p)
<1>1. /\ host \in Controller /\ surf \in Surface /\ gw.live \in BOOLEAN /\ watch.value \in Values
      /\ Busy("tick") \in BOOLEAN /\ op.withdrawn \in SUBSET {"plugin", "policy", "adapter"} /\ op.wiped \in BOOLEAN
  BY DEF TypeOK, Busy, Operation
<1> QED
  BY <1>1 DEF NoOp, Operation, SameRecord

LEMMA IssueIs ==
  ASSUME TypeOK, NEW cmd \in Commands, Issue(cmd)
  PROVE  Begins(cmd) /\ TypeOK'
<1>1. cmd \in {"enable", "disable", "start", "stop", "restart", "reset"}
  BY LifecycleAssumption
<1>2. Steps(cmd) \in Seq(StepNames)
  BY <1>1, StepsAre
<1>3. /\ Line = <<>> /\ todo' = [todo EXCEPT !["op"] = Steps(cmd)]
      /\ budget' = [budget EXCEPT !.commands = @ + 1]
      /\ UNCHANGED <<host, surf, watch, gw, marker, lease, seen>>
  BY DEF Issue, Busy, Line
<1>4. todo' \in [Who -> Seq(StepNames)] /\ Line' = Steps(cmd) /\ Ticks' = Ticks
  BY <1>2, <1>3 DEF TypeOK, Line, Ticks, Who
<1>5. /\ op' \in Operation /\ op'.cmd = cmd /\ op'.host = host /\ op'.surf = surf /\ op'.live = gw.live
      /\ op'.value = watch.value /\ op'.result = "none" /\ ~op'.undoing /\ ~op'.dirty /\ op'.raced = Busy("tick")
      /\ SameRecord(op, op')
  BY NoOpUpdate DEF Issue
<1>6. budget' \in [commands : Nat, faults : Nat, reboots : Nat]
  BY <1>3 DEF TypeOK
<1>7. Begins(cmd)
  BY <1>3, <1>4, <1>5 DEF Begins, Ticks, Busy
<1> QED
  BY <1>3, <1>4, <1>5, <1>6, <1>7 DEF TypeOK

(* Every step is one of five.                                              *)
LEMMA StepIs ==
  ASSUME TypeOK, PlaceFits, WatchFits, TickFits, Next
  PROVE  TypeOK' /\ ((\E cmd \in Commands : Begins(cmd)) \/ Advances \/ Turns \/ Stops \/ Passes)
<1>1. CASE \E cmd \in Commands : Issue(cmd)
  BY <1>1, IssueIs
<1>2. CASE OpStep \/ OpFails
  BY <1>2, OpStepIs
<1>3. CASE TickStart
  BY <1>3, TickStartPasses
<1>4. CASE TickStep
  BY <1>4, TickSwitches, TickRuns, TickPulses, InspectPasses DEF TickStep, Step
<1>5. CASE TickFails
  BY <1>5, TickFailsPasses
<1>6. CASE LeaseExpires \/ Meddle
  BY <1>6, EnvironmentPasses
<1>7. CASE Reboot
  BY <1>7, RebootIs
<1>8. CASE \E w \in Who : Killed(w)
  BY <1>8, KilledIs
<1> QED
  BY <1>1, <1>2, <1>3, <1>4, <1>5, <1>6, <1>7, <1>8 DEF Next

-----------------------------------------------------------------------------
(* Each part of the invariant is kept by each of the five kinds of step.   *)

Moves == (\E cmd \in Commands : Begins(cmd)) \/ Advances \/ Turns \/ Stops \/ Passes

LEMMA BusyIs == (Busy("op") <=> Line # <<>>) /\ (Busy("tick") <=> Ticks # <<>>)
  BY DEF Busy, Line, Ticks

LEMMA UndoKept ==
  ASSUME SameCommand(op, op'), NEW step
  PROVE  Undo(step)' = Undo(step)
  BY DEF SameCommand, Undo, DisableUndo

LEMMA WholeIsPlace ==
  ASSUME NEW q \in Seq(StepNames), q # <<>>
  PROVE  \E n \in 1..Len(q) : q = Rest(q, n)
<1>1. 1 \in 1..Len(q) /\ Rest(q, 1) = q
  BY RestWhole
<1> QED
  BY <1>1

LEMMA PlaceKept ==
  ASSUME TypeOK, PlaceFits, Moves
  PROVE  PlaceFits'
<1> DEFINE Lists == IF op.undoing THEN {Undo(step) : step \in StepNames} ELSE Programs(op.cmd)
           Place(q, r) == \E n \in 1..Len(q) : r = Rest(q, n)
<1> SUFFICES ASSUME Line' # <<>>
             PROVE  \E q \in (IF op'.undoing THEN {Undo(step)' : step \in StepNames} ELSE Programs(op'.cmd)) :
                      Place(q, Line')
  BY DEF PlaceFits, Busy, Line
<1>1. CASE \E cmd \in Commands : Begins(cmd)
  <2>1. PICK cmd \in Commands : Begins(cmd)
    BY <1>1
  <2>2. cmd \in {"enable", "disable", "start", "stop", "restart", "reset"}
    BY LifecycleAssumption
  <2>3. Steps(cmd) \in Programs(cmd) /\ Steps(cmd) # <<>> /\ Steps(cmd) \in Seq(StepNames)
    BY <2>2, StepsAre
  <2>4. Place(Steps(cmd), Steps(cmd))
    BY ONLY <2>3, WholeIsPlace
  <2> QED
    BY <2>1, <2>3, <2>4 DEF Begins
<1>2. ASSUME Line # <<>>, SameCommand(op, op'), op'.undoing = op.undoing,
             Line' = Line \/ Line' = Tail(Line) \/ (Head(Line) = "readMarker" /\ Line' = Tail(Tail(Line)))
      PROVE  \E q \in (IF op'.undoing THEN {Undo(step)' : step \in StepNames} ELSE Programs(op'.cmd)) :
               Place(q, Line')
  <2>1. PICK q \in Lists : Place(q, Line)
    BY <1>2 DEF PlaceFits, Busy, Line
  <2>2. PICK n \in 1..Len(q) : Line = Rest(q, n)
    BY <2>1
  <2>3. q \in Seq(StepNames) /\ AnyList(q)
    BY <2>1, ProgramIs, UndoIs DEF UndoOf
  <2>4. NextIs(q, "readMarker", "heal")
    BY <2>3 DEF AnyList
  <2>5. Line' # Line => Place(q, Line')
    <3> SUFFICES ASSUME Line' # Line PROVE \E m \in 1..Len(q) : Line' = Rest(q, m)
      OBVIOUS
    <3>1. \/ Line' = Tail(Rest(q, n))
          \/ Head(Rest(q, n)) = "readMarker" /\ Line' = Tail(Tail(Rest(q, n)))
      BY <1>2, <2>2
    <3>2. PICK r : r = Line'
      OBVIOUS
    <3>3. \E m \in 1..Len(q) : r = Rest(q, m)
      BY ONLY <2>3, <2>4, <3>1, <3>2, n \in 1..Len(q), Line' # <<>>, PlaceGoes
    <3> QED
      BY ONLY <3>2, <3>3
  <2>6. Place(q, Line')
    BY <2>1, <2>5
  <2>7. \A step \in StepNames : Undo(step)' = Undo(step)
    BY <1>2, UndoKept
  <2>8. op'.cmd = op.cmd
    BY <1>2 DEF SameCommand
  <2> HIDE DEF Place
  <2>9. CASE op.undoing
    <3>1. PICK step \in StepNames : q = Undo(step)
      BY <2>1, <2>9
    <3>2. q \in {Undo(t)' : t \in StepNames}
      BY <2>7, <3>1
    <3> QED
      BY <1>2, <2>6, <2>9, <3>2
  <2>10. CASE ~op.undoing
    BY <1>2, <2>1, <2>6, <2>8, <2>10
  <2> QED
    BY <2>9, <2>10
<1> HIDE DEF Place
<1>3. CASE Advances
  BY <1>2, <1>3 DEF Advances, Goes, SameCourse
<1>4. CASE Turns
  <2>1. Line # <<>> /\ SameCommand(op, op') /\ op'.undoing
    BY <1>4 DEF Turns
  <2>2. CASE op.undoing
    <3>1. Within(Line, UndoNames)
      BY <2>1, <2>2, PlaceIs, BusyIs
    <3>2. Line' = Tail(Line)
      BY <1>4, <2>2, <3>1 DEF Turns
    <3> QED
      BY <1>2, <2>1, <2>2, <3>2
  <2>3. CASE ~op.undoing
    <3> DEFINE s == Head(Line)
    <3>1. Line' = Undo(s) /\ s \in StepNames
      BY <1>4, <2>1, <2>3, ListsAreSequences DEF Turns
    <3>2. Undo(s) \in Seq(StepNames)
      BY UndoIs DEF UndoOf
    <3>3. Place(Undo(s), Line')
      BY <3>1, <3>2, WholeIsPlace DEF Place
    <3>4. Undo(s) \in {Undo(t)' : t \in StepNames}
      <4> HIDE DEF s
      <4>1. \A t \in StepNames : Undo(t)' = Undo(t)
        BY <2>1, UndoKept
      <4> QED
        BY <3>1, <4>1
    <3> QED
      BY <2>1, <3>3, <3>4
  <2> QED
    BY <2>2, <2>3
<1>5. CASE Stops
  BY <1>5 DEF Stops
<1>6. CASE Passes
  BY <1>2, <1>6 DEF Passes
<1> QED
  BY <1>1, <1>3, <1>4, <1>5, <1>6 DEF Moves

LEMMA ResultKept ==
  ASSUME TypeOK, ResultFits, Moves
  PROVE  ResultFits'
<1> USE DEF ResultFits, Busy, Line
<1>1. CASE \E cmd \in Commands : Begins(cmd)
  <2>1. PICK cmd \in Commands : Begins(cmd)
    BY <1>1
  <2>2. cmd \in {"enable", "disable", "start", "stop", "restart", "reset"}
    BY LifecycleAssumption
  <2>3. Steps(cmd) # <<>> /\ cmd # "none"
    BY <2>2, StepsAre
  <2> QED
    BY <2>1, <2>3 DEF Begins
<1>2. CASE Advances
  BY <1>2 DEF Advances, Goes, SameCommand, SameCourse, Result
<1>3. CASE Turns
  BY <1>3 DEF Turns, SameCommand
<1>4. CASE Stops
  BY <1>4 DEF Stops
<1>5. CASE Passes
  BY <1>5 DEF Passes, SameCommand
<1> QED
  BY <1>1, <1>2, <1>3, <1>4, <1>5 DEF Moves

(* The value of the user. *)
ValueFits == WatchFits /\ NativeValueIsKept

LEMMA WatchIs ==
  ASSUME TypeOK
  PROVE  /\ watch.value \in Values /\ watch.snap.original \in Values \cup {"none"} /\ watch.snap.applied \in BOOLEAN
         /\ NoSnap.original = "none" /\ ~NoSnap.applied
         /\ Captured.original = IF watch.snap = NoSnap THEN watch.value ELSE watch.snap.original
         /\ [watch.snap EXCEPT !.applied = FALSE].original = watch.snap.original
  BY DEF TypeOK, Snapshot, NoSnap, Captured

LEMMA WatchKept ==
  ASSUME TypeOK, PlaceFits, ValueFits, Moves
  PROVE  ValueFits'
<1> DEFINE Standing(step) == Line # <<>> /\ Head(Line) = step
           Snap == /\ watch.snap.original = "managed" => op.wiped
                   /\ watch.snap.original = "none" => watch.snap = NoSnap
                   /\ watch.value = "managed" /\ ~op.wiped => watch.snap.original \notin {"none", "managed"}
           Here == /\ Standing("fence") => watch.snap.original # "none"
                   /\ Standing("dropSnapshot") => watch.value # "managed" \/ op.wiped
<1>1. ValueFits <=> Snap /\ Here
  BY DEF ValueFits, WatchFits, NativeValueIsKept, At, Line
<1>2. ValueFits' <=> Snap' /\ Here'
  BY DEF ValueFits, WatchFits, NativeValueIsKept, At, Line
<1>3. Snap /\ Here
  BY <1>1
<1>4. /\ watch.value \in Values /\ watch.snap.original \in Values \cup {"none"} /\ watch.snap.applied \in BOOLEAN
      /\ NoSnap.original = "none" /\ ~NoSnap.applied
      /\ Captured.original = IF watch.snap = NoSnap THEN watch.value ELSE watch.snap.original
      /\ [watch.snap EXCEPT !.applied = FALSE].original = watch.snap.original
  BY WatchIs
<1>5. "none" \notin Values /\ "managed" \in Values /\ "user" \in Values
  BY DEF Values
<1>6. CASE \E cmd \in Commands : Begins(cmd)
  <2>1. PICK cmd \in Commands : Begins(cmd)
    BY <1>6
  <2>2. cmd \in {"enable", "disable", "start", "stop", "restart", "reset"}
    BY LifecycleAssumption
  <2>3. Head(Steps(cmd)) \in FirstNames
    BY <2>2, StepsAre
  <2>4. ~Standing("fence")' /\ ~Standing("dropSnapshot")'
    BY <2>1, <2>3 DEF Begins, FirstNames
  <2> QED
    BY <1>2, <1>3, <2>1, <2>4 DEF Begins, SameRecord
<1>7. CASE Advances
  <2> DEFINE s == Head(Line)
  <2>1. Goes /\ WatchTurns(s) /\ (op.wiped => op'.wiped) /\ (s = "wipe" => op'.wiped) /\ Line # <<>>
    BY <1>7 DEF Advances, Goes
  <2>2. AnyList(Line)
    BY <2>1, PlaceIs, BusyIs
  <2>3. Standing("fence")' => s = "capture"
    BY <2>1, <2>2, GoesBy, PlaceIs, BusyIs DEF AnyList
  <2>4. Standing("dropSnapshot")' => s = "restoreValue"
    BY <2>1, <2>2, GoesBy, PlaceIs, BusyIs DEF AnyList
  <2> HIDE DEF s
  <2>5. CASE s = "capture"
    BY <1>2, <1>3, <1>4, <1>5, <2>1, <2>3, <2>4, <2>5 DEF WatchTurns
  <2>6. CASE s = "fence"
    <3>1. watch.snap.original # "none"
      BY <1>3, <2>1, <2>6 DEF s
    <3> QED
      BY <1>2, <1>3, <1>4, <1>5, <2>1, <2>3, <2>4, <2>6, <3>1 DEF WatchTurns
  <2>7. CASE s = "restoreValue"
    BY <1>2, <1>3, <1>4, <1>5, <2>1, <2>3, <2>4, <2>7 DEF WatchTurns
  <2>8. CASE s = "dropSnapshot"
    <3>1. watch.value # "managed" \/ op.wiped
      BY <1>3, <2>1, <2>8 DEF s
    <3> QED
      BY <1>2, <1>3, <1>4, <1>5, <2>1, <2>3, <2>4, <2>8, <3>1 DEF WatchTurns
  <2>9. CASE s = "wipe"
    BY <1>2, <1>3, <1>4, <1>5, <2>1, <2>3, <2>4, <2>9 DEF WatchTurns
  <2>10. CASE s \notin {"capture", "fence", "restoreValue", "dropSnapshot", "wipe"}
    BY <1>2, <1>3, <2>1, <2>3, <2>4, <2>10 DEF WatchTurns
  <2> QED
    BY <2>5, <2>6, <2>7, <2>8, <2>9, <2>10
<1>8. CASE Turns
  <2> DEFINE s == Head(Line)
  <2>1. /\ Line # <<>> /\ SameRecord(op, op') /\ watch'.value = watch.value
        /\ watch'.snap = watch.snap \/ (watch.snap.applied /\ watch'.snap = [watch.snap EXCEPT !.applied = FALSE])
        /\ ~op.undoing => Line' \in {Undo(s), <<>>}
        /\ op.undoing /\ Within(Line, UndoNames) => Line' \in {<<>>, Tail(Line)}
        /\ op.undoing /\ s \in {"capture", "restoreValue"} => Line' = <<>>
    BY <1>8 DEF Turns
  <2>2. /\ AnyList(Line) /\ (op.undoing => Within(Line, UndoNames)) /\ Line \in Seq(StepNames)
    BY <2>1, PlaceIs, BusyIs, ListsAreSequences
  <2>3. UndoOf(Undo(s))
    BY UndoIs
  <2>4. ~op.undoing /\ Line' # <<>> => Head(Line') \in FirstNames
    BY <2>1, <2>3 DEF UndoOf
  <2>5. /\ Tail(Line) # <<>> /\ Head(Tail(Line)) = "fence" => s = "capture"
        /\ Tail(Line) # <<>> /\ Head(Tail(Line)) = "dropSnapshot" => s = "restoreValue"
    BY <2>1, <2>2, HeadSays DEF AnyList
  <2>6. ~Standing("fence")' /\ ~Standing("dropSnapshot")'
    <3> HIDE DEF s
    <3> QED
      BY <2>1, <2>2, <2>4, <2>5 DEF FirstNames
  <2>7. CASE watch'.snap = watch.snap
    BY <1>2, <1>3, <2>1, <2>6, <2>7 DEF SameRecord
  <2>8. CASE watch.snap.applied /\ watch'.snap = [watch.snap EXCEPT !.applied = FALSE]
    <3>1. watch.snap # NoSnap /\ watch'.snap.original = watch.snap.original
      BY <1>4, <2>8
    <3> QED
      BY <1>2, <1>3, <2>1, <2>6, <3>1 DEF SameRecord
  <2> QED
    BY <2>1, <2>7, <2>8
<1>9. CASE Stops
  BY <1>2, <1>3, <1>9 DEF Stops, SameRecord
<1>10. CASE Passes
  BY <1>2, <1>3, <1>10 DEF Passes, SameRecord
<1> QED
  BY <1>6, <1>7, <1>8, <1>9, <1>10 DEF Moves

(* What a commit rests on. *)
Switching(k) == IF k = "adapter" THEN "adapterOn" ELSE "policyOn"

LEMMA ProgramCommits ==
  ASSUME NEW cmd, NEW q \in Programs(cmd)
  PROVE  /\ Has(q, "commit") => Has(q, "admit") \/ (Has(q, "adapterOn") /\ Has(q, "policyOn"))
         /\ Has(q, "commitStop") => Has(q, "admit")
<1> USE DEF Has
<1>1. Has(EnableSteps, "adapterOn") /\ Has(EnableSteps, "policyOn")
      /\ Within(EnableSteps, StepNames \ {"commitStop"})
  BY DEF EnableSteps, EnableCore, Pulse, Within, StepNames
<1>2. Within(DisableSteps, StepNames \ {"commit", "commitStop"})
  BY DEF DisableSteps, DisableCore, Within, StepNames
<1>3. Has(StartSteps, "admit") /\ Has(<<"capture", "fence">> \o StartSteps, "admit")
  BY DEF StartSteps, Pulse
<1>4. Has(RestartSteps, "admit") /\ Has(<<"capture", "fence">> \o RestartSteps, "admit")
  BY DEF RestartSteps, Pulse
<1>5. Has(StopSteps, "admit")
  BY DEF StopSteps
<1>6. Has(ResetSteps, "adapterOn") /\ Has(ResetSteps, "policyOn")
  BY DEF ResetSteps, DisableCore, EnableCore, Pulse
<1>7. Within(ResetSteps, StepNames \ {"commitStop"})
  BY DEF ResetSteps, DisableCore, EnableCore, Pulse, Within, StepNames
<1> HIDE DEF Has
<1>8. \A p, x : Within(p, StepNames \ {"commitStop"}) => ~Has(p, "commitStop")
  BY DEF Within, Has
<1>9. \A p : Within(p, StepNames \ {"commit", "commitStop"}) => ~Has(p, "commit") /\ ~Has(p, "commitStop")
  BY DEF Within, Has
<1> QED
  BY <1>1, <1>2, <1>3, <1>4, <1>5, <1>6, <1>7, <1>8, <1>9 DEF Programs

LEMMA UndoCommits ==
  ASSUME NEW q, Within(q, UndoNames)
  PROVE  ~Has(q, "commit") /\ ~Has(q, "commitStop")
  BY DEF Within, Has, UndoNames, EnableUndoNames, DisableUndoNames

LEMMA StopCommits ==
  ASSUME NEW q, Within(q, StepNames \ {"commitStop"}) \/ Within(q, StopNames), Has(q, "commitStop")
  PROVE  Within(q, StopNames)
  BY DEF Within, Has

LEMMA CommitKept ==
  ASSUME TypeOK, PlaceFits, CommitFits, Moves
  PROVE  CommitFits'
<1> DEFINE Needs(k) == /\ host.mode # "passthrough" => Kept(k)
                       /\ Has(Line, "commit") => Kept(k) \/ Has(Line, "admit") \/ Has(Line, Switching(k))
           Stopping == Has(Line, "commitStop") => Has(Line, "admit") \/ host.mode # "passthrough"
<1>1. CommitFits <=> Needs("adapter") /\ Needs("policy") /\ Stopping
  BY DEF CommitFits, Ahead, Line, Switching
<1>2. CommitFits' <=> Needs("adapter")' /\ Needs("policy")' /\ Stopping'
  BY DEF CommitFits, Ahead, Line, Switching
<1>3. \A k \in {"adapter", "policy"} : Needs(k)
  BY <1>1
<1>4. CASE \E cmd \in Commands : Begins(cmd)
  <2>1. PICK cmd \in Commands : Begins(cmd)
    BY <1>4
  <2>2. cmd \in {"enable", "disable", "start", "stop", "restart", "reset"}
    BY LifecycleAssumption
  <2>3. Steps(cmd) \in Programs(cmd)
    BY <2>2, StepsAre
  <2>4. /\ Has(Line', "commit") => Has(Line', "admit") \/ (Has(Line', "adapterOn") /\ Has(Line', "policyOn"))
        /\ Has(Line', "commitStop") => Has(Line', "admit")
    BY <2>1, <2>3, ProgramCommits DEF Begins
  <2>5. \A k \in {"adapter", "policy"} : Kept(k)' <=> Kept(k)
    BY <2>1 DEF Begins, SameRecord, Kept
  <2>6. host' = host
    BY <2>1 DEF Begins
  <2> QED
    BY <1>2, <1>3, <2>4, <2>5, <2>6 DEF Switching
<1>5. CASE Advances
  <2> DEFINE s == Head(Line)
  <2>1. Goes /\ Line # <<>> /\ HostTurns(s) /\ SurfTurns(s, surf') /\ Keeps
        /\ (s = "admit" => host.mode # "passthrough")
    BY <1>5 DEF Advances, Goes
  <2>2. AnyList(Line) /\ Line \in Seq(StepNames)
    BY <2>1, PlaceIs, BusyIs, ListsAreSequences
  <2>3. /\ \A a : Has(Line', a) => Has(Line, a)
        /\ \A a : Has(Line, a) /\ a \notin {s, "heal"} => Has(Line', a)
    BY <2>1, GoesBy
  <2>4. /\ s = "commit" => ~Has(Line, "policyOn") /\ ~Has(Line, "adapterOn") /\ ~Has(Line, "admit")
        /\ s = "commitStop" => ~Has(Line, "admit")
        /\ Has(Line, s)
    BY <2>1, <2>2, HeadSays DEF AnyList
  <2>5. Has(Line, "commitStop") => s \in StopNames
    BY <2>1, <2>2, HeadSays, StopCommits DEF AnyList
  <2> HIDE DEF s
  <2>6. \A k \in {"adapter", "policy"} : Kept(k) => Kept(k)'
    BY <2>1 DEF Keeps
  <2>7. host'.mode # "passthrough" => host.mode # "passthrough" \/ s \in {"commit", "commitStop"}
    BY <2>1 DEF HostTurns
  <2>8. Stopping'
    BY <1>1, <2>1, <2>3, <2>4, <2>5 DEF HostTurns, StopNames
  <2>9. ASSUME NEW k \in {"adapter", "policy"} PROVE Needs(k)'
    <3>1. s = Switching(k) => Kept(k)'
      BY <2>1 DEF SurfTurns, Kept, Switching
    <3>2. Switching(k) # "heal" /\ Switching(k) # "commit" /\ Switching(k) \in {"adapterOn", "policyOn"}
      BY DEF Switching
    <3>3. host'.mode # "passthrough" => Kept(k)'
      BY <1>1, <1>3, <2>4, <2>6, <2>7, <3>2
    <3>4. Has(Line', "commit") => Kept(k)' \/ Has(Line', "admit") \/ Has(Line', Switching(k))
      BY <1>3, <2>1, <2>3, <2>6, <3>1, <3>2
    <3> QED
      BY <3>3, <3>4 DEF Switching
  <2> QED
    BY <1>2, <2>8, <2>9
<1>6. CASE Turns
  <2> DEFINE s == Head(Line)
  <2>1. /\ Line # <<>> /\ SameRecord(op, op') /\ Keeps /\ host' = host
        /\ ~op.undoing => Line' \in {Undo(s), <<>>}
        /\ op.undoing /\ Within(Line, UndoNames) => Line' \in {<<>>, Tail(Line)}
    BY <1>6 DEF Turns
  <2>2. (op.undoing => Within(Line, UndoNames)) /\ Line \in Seq(StepNames)
    BY <2>1, PlaceIs, BusyIs, ListsAreSequences
  <2>3. UndoOf(Undo(s))
    BY UndoIs
  <2>4. \A a : Has(Tail(Line), a) => Has(Line, a)
    BY <2>1, <2>2, TailHas
  <2>5. ~Has(Line', "commit") /\ ~Has(Line', "commitStop")
    BY <2>1, <2>2, <2>3, <2>4, UndoCommits, EmptyHas DEF UndoOf
  <2> QED
    BY <1>2, <1>3, <2>1, <2>5 DEF Keeps
<1>7. CASE Stops
  <2>1. ~Has(Line', "commit") /\ ~Has(Line', "commitStop")
    BY <1>7, EmptyHas DEF Stops
  <2>2. \A k \in {"adapter", "policy"} : Kept(k)' <=> Kept(k)
    BY <1>7 DEF Stops, SameRecord, Kept
  <2> QED
    BY <1>2, <1>3, <1>7, <2>1, <2>2 DEF Stops
<1>8. CASE Passes
  <2>1. \A k \in {"adapter", "policy"} : Kept(k)' <=> Kept(k)
    BY <1>8 DEF Passes, SameRecord, Kept
  <2> QED
    BY <1>1, <1>2, <1>3, <1>8, <2>1 DEF Passes, Switching
<1> QED
  BY <1>4, <1>5, <1>6, <1>7, <1>8 DEF Moves

(* The tick beside a command. *)

LEMMA TickKept ==
  ASSUME TypeOK, TickFits, Moves
  PROVE  TickFits'
<1> DEFINE Beside == /\ Line # <<>> /\ ~op.raced => Ticks = <<>>
                     /\ Has(Ticks, "pluginOn") => op.raced \/ host.mode = "managed"
           Whole == Within(Ticks, TickNames) /\ NextIs(Ticks, "readMarker", "heal")
<1>1. TickFits <=> Beside /\ Whole
  BY BusyIs DEF TickFits, Ticks, Within, NextIs, Line, Busy
<1>2. TickFits' <=> Beside' /\ Whole'
  BY DEF TickFits, Ticks, Within, NextIs, Line, Busy
<1>3. Has(Ticks, "pluginOn") => Ticks # <<>>
  BY EmptyHas
<1>4. CASE Ticks' = Ticks
  <2>1. Whole'
    BY <1>1, <1>4
  <2>2. CASE \E cmd \in Commands : Begins(cmd)
    BY <1>1, <1>2, <1>3, <1>4, <2>1, <2>2 DEF Begins, Ticks
  <2>3. CASE Advances
    BY <1>1, <1>2, <1>3, <1>4, <2>1, <2>3 DEF Advances, Goes, SameCourse
  <2>4. CASE Turns
    BY <1>1, <1>2, <1>3, <1>4, <2>1, <2>4 DEF Turns
  <2>5. CASE Stops
    BY <1>1, <1>2, <1>3, <1>4, <2>1, <2>5 DEF Stops
  <2>6. CASE Passes
    BY <1>1, <1>2, <1>3, <1>4, <2>1, <2>6 DEF Passes
  <2> QED
    BY <2>2, <2>3, <2>4, <2>5, <2>6 DEF Moves
<1>5. CASE Ticks' = <<>>
  <2>1. Whole'
    BY <1>5 DEF Within, NextIs
  <2> QED
    BY <1>2, <1>5, <2>1, EmptyHas
<1>6. CASE Passes
  <2>1. Whole'
    BY <1>6 DEF Passes, Ticks
  <2>2. Ticks' # <<>> => Ticks # <<>> \/ (Line # <<>> => op'.raced)
    BY <1>6 DEF Passes, Ticks
  <2>3. Has(Ticks', "pluginOn") => Has(Ticks, "pluginOn") \/ host.mode = "managed"
    BY <1>6 DEF Passes, Ticks
  <2> QED
    BY <1>1, <1>2, <1>6, <2>1, <2>2, <2>3 DEF Passes
<1> QED
  BY <1>4, <1>5, <1>6 DEF Moves, Begins, Advances, Turns, Stops, Ticks

(* What a step says of a command that is not a new one: that it has no     *)
(* result before its list ends, and that no tick runs beside it unraced.   *)
LEMMA RunningIs ==
  ASSUME ResultFits, TickFits, Line # <<>>
  PROVE  op.result = "none" /\ op.cmd # "none" /\ (~op.raced => Ticks = <<>>)
  BY BusyIs DEF ResultFits, TickFits

(* After a stop the tick finds nothing to do. *)

LEMMA StopKept ==
  ASSUME TypeOK, PlaceFits, ResultFits, TickFits, StopFits, Moves
  PROVE  StopFits'
<1> DEFINE Stopping == op.cmd = "stop" /\ ~op.undoing /\ ~op.raced /\ op.result \in {"none", "ok"}
           Stopped == /\ host.mode = "maintenance" \/ Has(Line, "commitStop")
                      /\ op.result = "ok" => Within(Ticks, {"inspect", "gate"})
<1>1. StopFits <=> (Stopping => Stopped)
  BY DEF StopFits, Ahead, Line, Ticks, Within
<1>2. StopFits' <=> (Stopping' => Stopped')
  BY DEF StopFits, Ahead, Line, Ticks, Within
<1>3. SUFFICES ASSUME Stopping' PROVE Stopped'
  BY <1>2
<1>4. CASE \E cmd \in Commands : Begins(cmd)
  <2>1. PICK cmd \in Commands : Begins(cmd)
    BY <1>4
  <2>2. Has(StopSteps, "commitStop")
    BY DEF StopSteps, Has
  <2>3. Line' = StopSteps /\ op'.result = "none"
    BY <1>3, <2>1 DEF Begins, Steps
  <2> QED
    BY <2>2, <2>3
<1>5. CASE Advances
  <2> DEFINE s == Head(Line)
  <2>1. Goes /\ Line # <<>> /\ HostTurns(s) /\ Ticks' = Ticks
    BY <1>5 DEF Advances, Goes, Ticks
  <2>2. op.result = "none" /\ op.cmd = "stop" /\ ~op.undoing /\ ~op.raced /\ Ticks = <<>>
    BY <1>3, <1>5, <2>1, RunningIs DEF Advances, SameCommand, SameCourse
  <2>3. Stopped
    BY <1>1, <2>2
  <2>4. \A a : Has(Line, a) /\ a \notin {s, "heal"} => Has(Line', a)
    BY <2>1, GoesBy
  <2>5. s \in StopNames
    BY <2>1, <2>2, PlaceIs, BusyIs, ListsAreSequences, HeadSays
  <2>6. Within(<<>>, {"inspect", "gate"})
    BY DEF Within
  <2> HIDE DEF s
  <2>7. CASE s = "commitStop"
    BY <2>1, <2>2, <2>6, <2>7 DEF HostTurns
  <2>8. CASE s # "commitStop"
    BY <2>1, <2>2, <2>3, <2>4, <2>5, <2>6, <2>8 DEF HostTurns, StopNames
  <2> QED
    BY <2>7, <2>8
<1>6. CASE Turns
  BY <1>3, <1>6 DEF Turns
<1>7. CASE Stops
  BY <1>3, <1>7 DEF Stops
<1>8. CASE Passes
  <2>1. Stopping
    BY <1>3, <1>8 DEF Passes, SameCommand
  <2>2. Stopped
    BY <1>1, <2>1
  <2>3. op.result = "ok" => Line = <<>>
    BY BusyIs DEF ResultFits
  <2>4. op.result = "ok" => host.mode = "maintenance"
    BY <2>2, <2>3, EmptyHas
  <2>5. /\ Line' = Line /\ host' = host /\ op'.result = op.result
        /\ host.mode = "maintenance" /\ Within(Ticks, {"inspect", "gate"}) => Within(Ticks', {"inspect", "gate"})
    BY <1>8 DEF Passes, Ticks
  <2> QED
    BY <2>2, <2>4, <2>5
<1> QED
  BY <1>4, <1>5, <1>6, <1>7, <1>8 DEF Moves

(* A disable takes away what lies behind it. *)

LEMMA DisableKept ==
  ASSUME TypeOK, PlaceFits, ResultFits, TickFits, ValueFits, DisableFits, Moves
  PROVE  DisableFits'
<1> DEFINE Disabling == op.cmd = "disable" /\ op.result \in {"none", "ok"} /\ ~op.undoing
           Off == host.mode = "passthrough" \/ Has(Line, "commitOff")
           Gone == /\ surf.adapter => Has(Line, "adapterOff")
                   /\ surf.policy => Has(Line, "policyOff")
                   /\ surf.plugin => Has(Line, "pluginOff")
                   /\ gw.live => Has(Line, "bounce")
                   /\ watch.value = "managed" => op.wiped \/ Has(Line, "restoreValue")
           Quiet == op.result = "ok" => Ticks = <<>>
<1>1. DisableFits <=> (Disabling => Off /\ (~op.raced => Gone /\ Quiet))
  BY BusyIs DEF DisableFits, Ahead, Line
<1>2. DisableFits' <=> (Disabling' => Off' /\ (~op'.raced => Gone' /\ Quiet'))
  BY DEF DisableFits, Ahead, Line, Ticks, Busy
<1>3. SUFFICES ASSUME Disabling' PROVE Off' /\ (~op'.raced => Gone' /\ Quiet')
  BY <1>2
<1>4. CASE \E cmd \in Commands : Begins(cmd)
  <2>1. PICK cmd \in Commands : Begins(cmd)
    BY <1>4
  <2>2. \A a \in {"commitOff", "adapterOff", "policyOff", "pluginOff", "bounce", "restoreValue"} : Has(DisableSteps, a)
    BY DEF DisableSteps, DisableCore, Has
  <2>3. Line' = DisableSteps /\ op'.result = "none"
    BY <1>3, <2>1 DEF Begins, Steps
  <2> QED
    BY <2>2, <2>3
<1>5. CASE Advances
  <2> DEFINE s == Head(Line)
  <2>1. /\ Goes /\ Line # <<>> /\ HostTurns(s) /\ SurfTurns(s, surf') /\ WatchTurns(s) /\ GwTurns(s)
        /\ (op.wiped => op'.wiped) /\ op'.raced = op.raced /\ Ticks' = Ticks
    BY <1>5 DEF Advances, Goes, Ticks, SameCourse
  <2>2. op.result = "none" /\ op.cmd = "disable" /\ ~op.undoing /\ (~op.raced => Ticks = <<>>)
    BY <1>3, <1>5, <2>1, RunningIs DEF Advances, SameCommand, SameCourse
  <2>3. Off /\ (~op.raced => Gone)
    BY <1>1, <2>2
  <2>4. \A a : Has(Line, a) /\ a \notin {s, "heal"} => Has(Line', a)
    BY <2>1, GoesBy
  <2>5. DisableList(Line) /\ Line \in Seq(StepNames)
    BY <2>1, <2>2, PlaceIs, BusyIs, ListsAreSequences
  <2>6. s \in DisableNames /\ (s \in {"bounce", "boundary"} => ~Has(Line, "pluginOff"))
    BY <2>1, <2>5, HeadSays DEF DisableList
  <2> HIDE DEF s
  <2>7. Off'
    BY <2>1, <2>3, <2>4, <2>6 DEF HostTurns, DisableNames
  <2>8. ASSUME ~op.raced PROVE Gone'
    <3>1. Gone
      BY <2>3, <2>8
    <3>2. /\ surf'.adapter => Has(Line', "adapterOff")
          /\ surf'.policy => Has(Line', "policyOff")
          /\ surf'.plugin => Has(Line', "pluginOff")
      BY <2>1, <2>4, <2>6, <3>1 DEF SurfTurns, DisableNames
    <3>3. gw'.live => Has(Line', "bounce")
      BY <2>1, <2>4, <2>6, <3>1 DEF GwTurns, DisableNames
    <3>4. watch'.value = "managed" => op'.wiped \/ Has(Line', "restoreValue")
      <4>1. watch.value = "managed" /\ ~op.wiped => watch.snap # NoSnap /\ watch.snap.original # "managed"
        BY WatchIs DEF ValueFits, NativeValueIsKept
      <4>2. CASE s = "restoreValue"
        BY <2>1, <4>1, <4>2 DEF WatchTurns
      <4>3. CASE s # "restoreValue"
        BY <2>1, <2>4, <2>6, <3>1, <4>3 DEF WatchTurns, DisableNames
      <4> QED
        BY <4>2, <4>3
    <3> QED
      BY <3>2, <3>3, <3>4
  <2> QED
    BY <2>1, <2>2, <2>7, <2>8
<1>6. CASE Turns
  BY <1>3, <1>6 DEF Turns
<1>7. CASE Stops
  BY <1>3, <1>7 DEF Stops
<1>8. CASE Passes
  <2>1. /\ Disabling /\ Line' = Line /\ op'.result = op.result /\ op'.wiped = op.wiped /\ (op.raced => op'.raced)
        /\ Ticks' # <<>> => Ticks # <<>> \/ (surf.adapter /\ (Line # <<>> => op'.raced))
        /\ host' = host /\ watch'.value \in {watch.value, "user"}
        /\ surf'.policy = surf.policy /\ surf'.adapter = surf.adapter
        /\ surf'.plugin => surf.plugin \/ Has(Ticks, "pluginOn")
        /\ gw'.live => gw.live \/ (surf.plugin /\ (Ticks # <<>> \/ Line = <<>>))
    BY <1>3, <1>8 DEF Passes, SameCommand, SameRecord, Ticks
  <2>2. Off /\ (~op.raced => Gone /\ Quiet)
    BY <1>1, <2>1
  <2>3. op.result = "ok" <=> Line = <<>>
    BY <2>1, BusyIs DEF ResultFits
  <2>4. ~op.raced => Ticks = <<>>
    BY <2>2, <2>3, BusyIs DEF TickFits
  <2>5. ~op.raced /\ Line = <<>> => ~surf.adapter /\ ~surf.plugin
    BY <2>2, EmptyHas
  <2> QED
    BY <2>1, <2>2, <2>3, <2>4, <2>5, EmptyHas
<1> QED
  BY <1>4, <1>5, <1>6, <1>7, <1>8 DEF Moves

(* The rollback of a disable has ahead of it what the disable has taken. *)

LEMMA DisableUndoKept ==
  ASSUME TypeOK, PlaceFits, ResultFits, TickFits, DisableFits, DisableUndoFits, Moves
  PROVE  DisableUndoFits'
<1> DEFINE Lying == op.cmd = "disable" /\ op.result \in {"none", "failed"} /\ ~op.dirty
                      /\ host = op.host /\ host.mode # "passthrough"
           Opened(done, undo) == IF op.undoing THEN Has(Line, undo) ELSE ~Has(Line, done)
           Back == /\ surf.policy = op.surf.policy \/ Opened("policyOff", "policyRestore")
                   /\ (op.surf.adapter => surf.adapter) \/ Opened("adapterOff", "adapterOn")
<1>1. DisableUndoFits <=> (Lying => Back)
  BY DEF DisableUndoFits, Open, Ahead, Line
<1>2. DisableUndoFits' <=> (Lying' => Back')
  BY DEF DisableUndoFits, Open, Ahead, Line
<1>3. SUFFICES ASSUME Lying' PROVE Back'
  BY <1>2
<1>4. CASE \E cmd \in Commands : Begins(cmd)
  BY <1>4 DEF Begins
<1>5. CASE Advances
  <2> DEFINE s == Head(Line)
  <2>1. /\ Goes /\ Line # <<>> /\ HostTurns(s) /\ SurfTurns(s, surf')
        /\ SameCommand(op, op') /\ SameCourse(op, op')
    BY <1>5 DEF Advances, Goes
  <2>2. op.result = "none" /\ op.cmd = "disable" /\ ~op.dirty /\ op'.surf = op.surf /\ op'.undoing = op.undoing
    BY <1>3, <2>1, RunningIs DEF SameCommand, SameCourse
  <2>3. Line \in Seq(StepNames) /\ (IF op.undoing THEN DisableUndoList(Line) ELSE DisableList(Line))
    BY <2>1, <2>2, PlaceIs, BusyIs, ListsAreSequences
  <2>4. s \in IF op.undoing THEN DisableUndoNames ELSE DisableNames
    BY <2>1, <2>3, HeadSays DEF DisableUndoList, DisableList
  <2>5. /\ \A a : Has(Line', a) => Has(Line, a)
        /\ \A a : Has(Line, a) /\ a \notin {s, "heal"} => Has(Line', a)
        /\ ~op.undoing /\ s \in {"adapterOff", "policyOff"} => ~Has(Line', s)
    BY <2>1, <2>3, GoesBy DEF DisableList
  <2> HIDE DEF s
  <2>6. Lying
    BY <1>3, <2>1, <2>2, <2>4 DEF SameCommand, HostTurns, DisableNames, DisableUndoNames
  <2>7. Back
    BY <1>1, <2>6
  <2>8. CASE op.undoing
    BY <2>1, <2>2, <2>4, <2>5, <2>7, <2>8 DEF SurfTurns, DisableUndoNames
  <2>9. CASE ~op.undoing
    BY <2>1, <2>2, <2>4, <2>5, <2>7, <2>9 DEF SurfTurns, DisableNames
  <2> QED
    BY <2>8, <2>9
<1>6. CASE Turns
  <2> DEFINE s == Head(Line)
  <2>1. /\ Line # <<>> /\ SameCommand(op, op') /\ op'.undoing /\ ~op.dirty /\ ~op'.dirty
        /\ host' = host /\ surf'.policy = surf.policy
        /\ surf'.adapter = surf.adapter \/ (s = "adapterOn" /\ surf'.adapter)
        /\ ~op.undoing => Line' = Undo(s) \/ s \in {"capture", "admit"}
        /\ op.undoing /\ Within(Line, UndoNames) => op'.dirty \/ s = "capture"
    BY <1>3, <1>6 DEF Turns
  <2>2. op.result = "none" /\ op.cmd = "disable" /\ op'.surf = op.surf /\ op'.host = op.host
    BY <1>3, <2>1, RunningIs DEF SameCommand
  <2>3. /\ Line \in Seq(StepNames) /\ (op.undoing => Within(Line, UndoNames))
        /\ IF op.undoing THEN DisableUndoList(Line) ELSE DisableList(Line)
    BY <2>1, <2>2, PlaceIs, BusyIs, ListsAreSequences
  <2>4. Lying /\ Back
    BY <1>1, <1>3, <2>1, <2>2
  <2>5. CASE op.undoing
    <3>1. s = "capture" /\ ~Has(Line, "policyRestore") /\ ~Has(Line, "adapterOn")
      BY <2>1, <2>3, <2>5, HeadSays DEF DisableUndoList
    <3> HIDE DEF s
    <3> QED
      BY <2>1, <2>2, <2>4, <2>5, <3>1
  <2>6. CASE ~op.undoing
    <3>1. s \in DisableNames
      BY <2>1, <2>3, <2>6, HeadSays DEF DisableList
    <3>2. /\ s \in {"restoreValue", "dropSnapshot"} => Has(Line, "adapterOff") /\ Has(Line, "policyOff")
          /\ s = "adapterOff" => Has(Line, "policyOff")
          /\ s = "boundary" => ~Has(Line, "commitOff")
      BY <2>1, <2>3, <2>6, HeadSays DEF DisableList
    <3>3. host.mode = "passthrough" \/ Has(Line, "commitOff")
      BY <2>2, <2>6 DEF DisableFits, Ahead, Line
    <3>4. s \notin {"restoreValue", "dropSnapshot", "boundary"} =>
            (s # "adapterOff" => Has(Undo(s), "policyRestore")) /\ Has(Undo(s), "adapterOn")
      BY <2>2, <2>4, <3>1, DisableUndoIs
    <3>5. Line' = Undo(s)
      BY <2>1, <2>6, <3>1 DEF DisableNames
    <3> HIDE DEF s
    <3>6. s # "adapterOn"
      BY <3>1 DEF DisableNames
    <3>7. CASE s \in {"restoreValue", "dropSnapshot"}
      BY <2>1, <2>2, <2>4, <2>6, <3>2, <3>6, <3>7
    <3>8. CASE s \notin {"restoreValue", "dropSnapshot"}
      BY <2>1, <2>2, <2>4, <2>6, <3>2, <3>3, <3>4, <3>5, <3>6, <3>8
    <3> QED
      BY <3>7, <3>8
  <2> QED
    BY <2>5, <2>6
<1>7. CASE Stops
  BY <1>3, <1>7 DEF Stops
<1>8. CASE Passes
  <2>1. Lying /\ Line' = Line /\ op'.undoing = op.undoing /\ op'.surf = op.surf
        /\ surf'.policy = surf.policy /\ surf'.adapter = surf.adapter
    BY <1>3, <1>8 DEF Passes, SameCommand
  <2>2. Back
    BY <1>1, <2>1
  <2> QED
    BY <2>1, <2>2
<1> QED
  BY <1>4, <1>5, <1>6, <1>7, <1>8 DEF Moves

(* An enable of a disabled Host, and its rollback. *)

(* What an enable that fails at a step had still ahead.                    *)
LEMMA EnableAhead ==
  ASSUME NEW q \in Seq(StepNames), q # <<>>, EnableList(q)
  PROVE  /\ Head(q) \in EnableNames
         /\ Head(q) \in {"capture", "fence", "lease"} =>
              Has(q, "commit") /\ Has(q, "policyOn") /\ Has(q, "pluginOn") /\ Has(q, "adapterOn")
         /\ Head(q) \in {"pluginOff", "configure", "policyOn"} => Has(q, "adapterOn")
         /\ Head(q) = "pluginOff" => Has(q, "pluginOn")
         /\ Head(q) = "capture" => Has(q, "fence")
<1> DEFINE s == Head(q)
<1>1. \A a, b : Follows(q, a, b) /\ s = a => Has(q, b)
  BY HeadSays
<1>2. s \in EnableNames
  BY HeadSays DEF EnableList
<1>3. /\ \A a \in {"capture", "fence", "lease", "pluginOff", "configure", "policyOn"} : Follows(q, a, "adapterOn")
      /\ \A a \in {"capture", "fence", "lease", "pluginOff", "configure", "policyOn", "adapterOn"} :
           Follows(q, a, "pluginOn") /\ Follows(q, a, "commit")
      /\ \A a \in {"capture", "fence", "lease", "pluginOff"} : Follows(q, a, "policyOn")
      /\ Follows(q, "capture", "fence")
  BY DEF EnableList
<1> HIDE DEF s
<1>4. /\ s \in {"capture", "fence", "lease"} => Has(q, "commit") /\ Has(q, "policyOn") /\ Has(q, "pluginOn")
      /\ s \in {"capture", "fence", "lease", "pluginOff", "configure", "policyOn"} => Has(q, "adapterOn")
      /\ s = "pluginOff" => Has(q, "pluginOn")
      /\ s = "capture" => Has(q, "fence")
  BY ONLY <1>1, <1>3
<1> QED
  BY <1>2, <1>4 DEF s

LEMMA EnableKept ==
  ASSUME TypeOK, PlaceFits, ResultFits, TickFits, ValueFits, EnableFits, Moves
  PROVE  EnableFits'
<1> DEFINE Enabling == /\ op.cmd = "enable" /\ op.result \in {"none", "failed"} /\ ~op.dirty /\ ~op.raced
                       /\ op.host.mode = "passthrough"
           Opened(done, undo) == IF op.undoing THEN Has(Line, undo) ELSE ~Has(Line, done)
           ModeBack == host.mode = "passthrough" \/ Opened("commit", "stateRollback")
           PolicyBack == surf.policy = op.surf.policy \/ Opened("policyOn", "policyRestore")
           PluginBack == (surf.plugin => op.surf.plugin) \/ Opened("pluginOn", "pluginOff")
           AdapterBack == (surf.adapter => op.surf.adapter) \/ Opened("adapterOn", "adapterOff")
           LiveBack == (gw.live => op.live \/ op.surf.plugin) \/ Opened("pluginOn", "bounce")
           ValueBack == \/ watch.value = "managed" => op.value = "managed" \/ op.wiped
                        \/ Opened("fence", "restoreValue")
           Back == ModeBack /\ PolicyBack /\ PluginBack /\ AdapterBack /\ LiveBack /\ ValueBack
<1>1. EnableFits <=> (Enabling => Back)
  BY DEF EnableFits, Open, Ahead, Line
<1>2. EnableFits' <=> (Enabling' => Back')
  BY DEF EnableFits, Open, Ahead, Line
<1>3. SUFFICES ASSUME Enabling' PROVE Back'
  BY <1>2
<1>4. CASE \E cmd \in Commands : Begins(cmd)
  BY <1>3, <1>4 DEF Begins
<1>5. CASE Advances
  <2> DEFINE s == Head(Line)
  <2>1. /\ Goes /\ Line # <<>> /\ HostTurns(s) /\ SurfTurns(s, surf') /\ WatchTurns(s) /\ GwTurns(s)
        /\ SameCommand(op, op') /\ SameCourse(op, op') /\ (op.wiped => op'.wiped)
    BY <1>5 DEF Advances, Goes
  <2>2. /\ op.result = "none" /\ op.cmd = "enable" /\ ~op.dirty /\ ~op.raced /\ op.host.mode = "passthrough"
        /\ op'.surf = op.surf /\ op'.live = op.live /\ op'.value = op.value /\ op'.undoing = op.undoing
    BY <1>3, <2>1, RunningIs DEF SameCommand, SameCourse
  <2>3. Line \in Seq(StepNames) /\ (IF op.undoing THEN EnableUndoList(Line) ELSE EnableList(Line))
    BY <2>1, <2>2, PlaceIs, BusyIs, ListsAreSequences
  <2>4. Back
    BY <1>1, <2>2
  <2>5. /\ \A a : Has(Line', a) => Has(Line, a)
        /\ \A a : Has(Line, a) /\ a \notin {s, "heal"} => Has(Line', a)
        /\ \A a : Once(Line, a) /\ s = a => ~Has(Line', a)
    BY <2>1, GoesBy
  <2>6. CASE op.undoing
    <3>1. s \in EnableUndoNames /\ (s = "bounce" => ~Has(Line, "pluginOff"))
      BY <2>1, <2>3, <2>6, HeadSays DEF EnableUndoList
    <3> HIDE DEF s
    <3>2. ModeBack'
      BY <2>1, <2>2, <2>4, <2>5, <2>6, <3>1 DEF HostTurns, EnableUndoNames
    <3>3. PolicyBack' /\ PluginBack' /\ AdapterBack'
      BY <2>1, <2>2, <2>4, <2>5, <2>6, <3>1 DEF SurfTurns, EnableUndoNames
    <3>4. LiveBack'
      BY <2>1, <2>2, <2>4, <2>5, <2>6, <3>1 DEF GwTurns, EnableUndoNames
    <3>5. ValueBack'
      <4>1. watch.value = "managed" /\ ~op.wiped => watch.snap # NoSnap /\ watch.snap.original # "managed"
        BY WatchIs DEF ValueFits, NativeValueIsKept
      <4>2. CASE s = "restoreValue"
        BY <2>1, <4>1, <4>2 DEF WatchTurns
      <4>3. CASE s # "restoreValue"
        BY <2>1, <2>2, <2>4, <2>5, <2>6, <3>1, <4>3 DEF WatchTurns, EnableUndoNames
      <4> QED
        BY <4>2, <4>3
    <3> QED
      BY <3>2, <3>3, <3>4, <3>5
  <2>7. CASE ~op.undoing
    <3>1. s \in EnableNames
      BY <2>1, <2>3, <2>7, EnableAhead
    <3>2. s \in {"policyOn", "adapterOn", "pluginOn", "commit", "fence"} => ~Has(Line', s)
      BY <2>3, <2>5, <2>7 DEF EnableList
    <3> HIDE DEF s
    <3>3. ModeBack'
      BY <2>1, <2>2, <2>4, <2>5, <2>7, <3>1, <3>2 DEF HostTurns, EnableNames
    <3>4. PolicyBack' /\ PluginBack' /\ AdapterBack'
      BY <2>1, <2>2, <2>4, <2>5, <2>7, <3>1, <3>2 DEF SurfTurns, EnableNames
    <3>5. LiveBack'
      BY <2>1, <2>2, <2>4, <2>5, <2>7, <3>1 DEF GwTurns, EnableNames
    <3>6. ValueBack'
      BY <2>1, <2>2, <2>4, <2>5, <2>7, <3>1, <3>2 DEF WatchTurns, EnableNames
    <3> QED
      BY <3>3, <3>4, <3>5, <3>6
  <2> QED
    BY <2>6, <2>7
<1>6. CASE Turns
  <2> DEFINE s == Head(Line)
  <2>1. /\ Line # <<>> /\ SameCommand(op, op') /\ op'.undoing /\ ~op.dirty /\ ~op'.dirty /\ op'.raced = op.raced
        /\ op'.wiped = op.wiped
        /\ host' = host /\ surf'.policy = surf.policy /\ surf'.plugin = surf.plugin
        /\ surf'.adapter = surf.adapter \/ (s = "adapterOn" /\ surf'.adapter)
        /\ watch'.value = watch.value /\ (gw'.live => gw.live)
        /\ ~op.undoing => Line' = Undo(s) \/ s \in {"capture", "admit"}
        /\ op.undoing /\ Within(Line, UndoNames) => op'.dirty \/ s = "capture"
        /\ s \notin {"readMarker", "heal", "release"}
    BY <1>3, <1>6 DEF Turns, SameRecord
  <2>2. /\ op.result = "none" /\ op.cmd = "enable" /\ ~op.raced /\ op.host.mode = "passthrough"
        /\ op'.surf = op.surf /\ op'.live = op.live /\ op'.value = op.value
    BY <1>3, <2>1, RunningIs DEF SameCommand
  <2>3. /\ Line \in Seq(StepNames) /\ (op.undoing => Within(Line, UndoNames))
        /\ IF op.undoing THEN EnableUndoList(Line) ELSE EnableList(Line)
    BY <2>1, <2>2, PlaceIs, BusyIs, ListsAreSequences
  <2>4. Back
    BY <1>1, <2>1, <2>2
  <2>5. ~op.undoing
    <3> SUFFICES ASSUME op.undoing PROVE FALSE
      OBVIOUS
    <3>1. s \in EnableUndoNames /\ s = "capture"
      BY <2>1, <2>3, HeadSays DEF EnableUndoList
    <3> QED
      BY <3>1 DEF EnableUndoNames
  <2>6. /\ s \in EnableNames
        /\ s \in {"capture", "fence", "lease"} =>
             Has(Line, "commit") /\ Has(Line, "policyOn") /\ Has(Line, "pluginOn") /\ Has(Line, "adapterOn")
        /\ s \in {"pluginOff", "configure", "policyOn"} => Has(Line, "adapterOn")
        /\ s = "pluginOff" => Has(Line, "pluginOn")
        /\ s = "capture" => Has(Line, "fence")
    BY <2>1, <2>3, <2>5, EnableAhead
  <2>7. s \in EnableNames \ {"capture", "fence", "readMarker", "heal", "release"} =>
          /\ Has(Undo(s), "restoreValue")
          /\ s # "lease" =>
               /\ \A a \in {"pluginOff", "policyRestore", "stateRollback"} : Has(Undo(s), a)
               /\ s # "pluginOff" => Has(Undo(s), "bounce")
               /\ s \notin {"pluginOff", "configure", "policyOn"} => Has(Undo(s), "adapterOff")
    BY <2>2, EnableUndoIs
  <2>8. Has(Line, s)
    BY <2>1, <2>3, HeadSays
  <2> HIDE DEF s
  <2>9. CASE s \in {"capture", "fence"}
    BY <2>1, <2>2, <2>4, <2>5, <2>6, <2>8, <2>9
  <2>10. CASE s \notin {"capture", "fence"}
    <3>1. Line' = Undo(s) /\ s \in EnableNames \ {"capture", "fence", "readMarker", "heal", "release"}
      BY <2>1, <2>5, <2>6, <2>10 DEF EnableNames
    <3>2. Has(Line', "restoreValue")
      BY <2>7, <3>1
    <3>3. CASE s = "lease"
      BY <2>1, <2>2, <2>4, <2>5, <2>6, <3>2, <3>3
    <3>4. CASE s # "lease"
      <4>1. Has(Line', "pluginOff") /\ Has(Line', "policyRestore") /\ Has(Line', "stateRollback")
        BY <2>7, <3>1, <3>4
      <4>2. LiveBack'
        BY <2>1, <2>2, <2>4, <2>5, <2>6, <2>7, <3>1, <3>4
      <4>3. AdapterBack'
        BY <2>1, <2>2, <2>4, <2>5, <2>6, <2>7, <3>1, <3>4
      <4> QED
        BY <2>1, <3>2, <4>1, <4>2, <4>3
    <3> QED
      BY <3>3, <3>4
  <2> QED
    BY <2>9, <2>10
<1>7. CASE Stops
  BY <1>3, <1>7 DEF Stops
<1>8. CASE Passes
  <2>1. /\ Enabling /\ Line' = Line /\ op'.undoing = op.undoing /\ op'.wiped = op.wiped
        /\ op'.surf = op.surf /\ op'.live = op.live /\ op'.value = op.value
        /\ host' = host /\ watch'.value \in {watch.value, "user"}
        /\ surf'.policy = surf.policy /\ surf'.adapter = surf.adapter
        /\ surf'.plugin => surf.plugin \/ Has(Ticks, "pluginOn")
        /\ gw'.live => gw.live \/ (surf.plugin /\ (Ticks # <<>> \/ Line = <<>>))
    BY <1>3, <1>8 DEF Passes, SameCommand, SameRecord, Ticks
  <2>2. Back
    BY <1>1, <2>1
  <2>3. CASE Line = <<>>
    <3>1. op.undoing
      BY <2>1, <2>3, BusyIs DEF ResultFits
    <3>2. \A a : ~Has(Line, a)
      BY <2>3, EmptyHas
    <3>3. ~Has(Ticks, "pluginOn")
      BY <2>1, <2>2, <3>1, <3>2 DEF TickFits, Ticks
    <3> QED
      BY <2>1, <2>2, <3>1, <3>2, <3>3
  <2>4. CASE Line # <<>>
    <3>1. Ticks = <<>> /\ ~Has(Ticks, "pluginOn")
      BY <2>1, <2>4, RunningIs, EmptyHas
    <3> QED
      BY <2>1, <2>2, <2>4, <3>1
  <2> QED
    BY <2>3, <2>4
<1> QED
  BY <1>4, <1>5, <1>6, <1>7, <1>8 DEF Moves

-----------------------------------------------------------------------------
(* The invariant. *)

LEMMA InitTypes == Init => TypeOK
<1> SUFFICES ASSUME Init PROVE TypeOK
  OBVIOUS
<1>1. /\ host \in Controller /\ surf \in Surface
      /\ watch \in [value : Values, snap : Snapshot]
      /\ gw \in [up : BOOLEAN, live : BOOLEAN] /\ (gw.live => gw.up)
  BY DEF Init, Controller, Surface, Values, Snapshot, NoSnap
<1>2. marker = "none" /\ lease = "free" /\ seen = [w \in Who |-> "none"] /\ todo = [w \in Who |-> <<>>]
      /\ op = NoOp /\ budget = Start
  BY DEF Init
<1>3. NoOp \in Operation
  BY DEF NoOp, Operation, Controller, Surface, Values, Native, AllOff
<1>4. <<>> \in Seq(StepNames)
  OBVIOUS
<1>5. todo \in [Who -> Seq(StepNames)]
  BY <1>2, <1>4
<1> QED
  BY <1>1, <1>2, <1>3, <1>5 DEF TypeOK, Start

(* In the beginning nothing runs, and a Host that is enabled is whole.     *)
LEMMA InitFits ==
  ASSUME Init
  PROVE  /\ PlaceFits /\ ResultFits /\ ValueFits /\ CommitFits /\ TickFits
         /\ EnableFits /\ DisableFits /\ DisableUndoFits /\ StopFits
<1>1. Line = <<>> /\ Ticks = <<>> /\ op = NoOp
  BY DEF Init, Line, Ticks, Who
<1>2. NoOp.cmd = "none" /\ NoOp.result = "none" /\ ~NoOp.wiped /\ NoOp.withdrawn = {}
  BY DEF NoOp
<1>3. PlaceFits /\ ResultFits
  BY <1>1, <1>2, BusyIs DEF PlaceFits, ResultFits
<1>4. ValueFits
  BY <1>1, <1>2 DEF Init, ValueFits, WatchFits, NativeValueIsKept, NoSnap, At, Line
<1>5. CommitFits
  <2>1. host.mode # "passthrough" => surf["adapter"] /\ surf["policy"]
    BY DEF Init
  <2> QED
    BY <1>1, <2>1, EmptyHas DEF CommitFits, Ahead, Line, Kept
<1>6. TickFits
  BY <1>1, BusyIs, EmptyHas DEF TickFits, Ticks
<1>7. EnableFits /\ DisableFits /\ DisableUndoFits /\ StopFits
  BY <1>1, <1>2 DEF EnableFits, DisableFits, DisableUndoFits, StopFits
<1> QED
  BY <1>3, <1>4, <1>5, <1>6, <1>7

(* What a command promises at its end is what it keeps on the way, with    *)
(* nothing left ahead.                                                     *)
LEMMA EndFits ==
  ASSUME ResultFits, CommitFits, EnableFits, DisableFits, DisableUndoFits
  PROVE  /\ FailedEnableIsNative /\ FailedDisableIsUndone /\ CommitIsResumable
<1>1. op.result \in {"ok", "failed"} => Line = <<>>
  BY BusyIs DEF ResultFits
<1>2. op.result \in {"ok", "failed"} => \A a : ~Ahead(a)
  BY <1>1, EmptyHas DEF Ahead, Line
<1>3. op.result = "failed" => op.undoing /\ \A done, undo : ~Open(done, undo)
  BY <1>2 DEF ResultFits, Open
<1>4. FailedEnableIsNative
  BY <1>3 DEF FailedEnableIsNative, Failed, EnableFits
<1>5. FailedDisableIsUndone
  BY <1>3 DEF FailedDisableIsUndone, Failed, DisableUndoFits
<1>6. CommitIsResumable
  BY DEF CommitIsResumable, CommitFits, Kept
<1> QED
  BY <1>4, <1>5, <1>6

LEMMA DisableEnds ==
  ASSUME TypeOK, ResultFits, DisableFits
  PROVE  DisableIsComplete
<1> SUFFICES ASSUME OK("disable"), ~op.raced
             PROVE  /\ host.mode = "passthrough" /\ ~gw.live
                    /\ ~op.wiped => watch.value # "managed"
                    /\ surf = AllOff
  BY DEF DisableIsComplete
<1>1. op.cmd = "disable" /\ op.result = "ok" /\ ~op.undoing
  BY DEF OK, ResultFits
<1>2. \A a : ~Ahead(a)
  BY <1>1, BusyIs, EmptyHas DEF ResultFits, Ahead, Line
<1>3. /\ host.mode = "passthrough" /\ ~gw.live /\ (~op.wiped => watch.value # "managed")
      /\ ~surf.plugin /\ ~surf.policy /\ ~surf.adapter
  BY <1>1, <1>2 DEF DisableFits
<1>4. surf = AllOff
  BY <1>3 DEF TypeOK, Surface, AllOff
<1> QED
  BY <1>3, <1>4

LEMMA HostInit == Init => HostInv
<1> SUFFICES ASSUME Init PROVE HostInv
  OBVIOUS
<1>1. TypeOK
  BY InitTypes
<1> QED
  BY <1>1, InitFits, EndFits, DisableEnds DEF HostInv, ValueFits

(* Doing nothing is passing. *)
LEMMA StutterPasses ==
  ASSUME TypeOK, TickFits, UNCHANGED vars
  PROVE  TypeOK' /\ Passes
<1>1. TypeOK'
  BY DEF TypeOK, vars
<1>2. Within(Ticks, TickNames) /\ NextIs(Ticks, "readMarker", "heal")
  BY DEF TickFits, Within, NextIs, Ticks
<1>3. Passes
  BY <1>2 DEF Passes, vars, SameCommand, SameRecord, Ticks, Line
<1> QED
  BY <1>1, <1>3

LEMMA HostNext == HostInv /\ [Next]_vars => HostInv'
<1> SUFFICES ASSUME HostInv, [Next]_vars PROVE HostInv'
  OBVIOUS
<1>1. /\ TypeOK /\ PlaceFits /\ ResultFits /\ ValueFits /\ CommitFits /\ TickFits
      /\ EnableFits /\ DisableFits /\ DisableUndoFits /\ StopFits /\ WatchFits
  BY DEF HostInv, ValueFits
<1>2. TypeOK' /\ Moves
  <2>1. CASE Next
    BY <1>1, <2>1, StepIs DEF Moves
  <2>2. CASE UNCHANGED vars
    BY <1>1, <2>2, StutterPasses DEF Moves
  <2> QED
    BY <2>1, <2>2
<1>3. PlaceFits' /\ ResultFits' /\ ValueFits' /\ CommitFits' /\ TickFits'
  BY <1>1, <1>2, PlaceKept, ResultKept, WatchKept, CommitKept, TickKept
<1>4. EnableFits' /\ DisableFits' /\ DisableUndoFits' /\ StopFits'
  BY <1>1, <1>2, EnableKept, DisableKept, DisableUndoKept, StopKept
<1>5. FailedEnableIsNative' /\ FailedDisableIsUndone' /\ CommitIsResumable' /\ DisableIsComplete'
  <2>1. ResultFits /\ CommitFits /\ EnableFits /\ DisableFits /\ DisableUndoFits
          => FailedEnableIsNative /\ FailedDisableIsUndone /\ CommitIsResumable
    BY EndFits
  <2>2. TypeOK /\ ResultFits /\ DisableFits => DisableIsComplete
    BY DisableEnds
  <2>3. (ResultFits /\ CommitFits /\ EnableFits /\ DisableFits /\ DisableUndoFits
          => FailedEnableIsNative /\ FailedDisableIsUndone /\ CommitIsResumable)'
    BY EndFits, PTL
  <2>4. (TypeOK /\ ResultFits /\ DisableFits => DisableIsComplete)'
    BY DisableEnds, PTL
  <2> QED
    BY <1>2, <1>3, <1>4, <2>3, <2>4
<1> QED
  BY <1>2, <1>3, <1>4, <1>5 DEF HostInv, ValueFits

(* In every state of every history of commands, ticks, failures and        *)
(* deaths, for any number of each: the value the user gave the watchdog is *)
(* not lost but by a reset, a failed enable of a disabled Host leaves it   *)
(* native, a failed disable leaves the policy and the scheduler, a managed *)
(* Host has what resumes it, and a disable that succeeds leaves no trace.  *)
THEOREM HostIsSound == Spec => []HostInv
<1>1. Init => HostInv
  BY HostInit
<1>2. HostInv /\ [Next]_vars => HostInv'
  BY HostNext
<1> QED
  BY <1>1, <1>2, PTL DEF Spec

(* While OpenClaw runs with the watchdog value CogentNexus wrote, the      *)
(* value the user had is on disk, whatever failed, crashed or raced.       *)
THEOREM NativeValueStays == Spec => []NativeValueIsKept
<1>1. HostInv => NativeValueIsKept
  BY DEF HostInv
<1> QED
  BY <1>1, HostIsSound, PTL

(* An enable of a disabled Host that fails, at whatever step, leaves it    *)
(* disabled and as it was, if no step of its rollback failed as well.      *)
THEOREM FailedEnablesAreUndone == Spec => []FailedEnableIsNative
<1>1. HostInv => FailedEnableIsNative
  BY DEF HostInv
<1> QED
  BY <1>1, HostIsSound, PTL

(* A disable that fails before its commit leaves the policy and the        *)
(* scheduler it found.                                                     *)
THEOREM FailedDisablesAreUndone == Spec => []FailedDisableIsUndone
<1>1. HostInv => FailedDisableIsUndone
  BY DEF HostInv
<1> QED
  BY <1>1, HostIsSound, PTL

(* A disable that succeeds, and that no tick overlapped, leaves no trace   *)
(* and no tick that could bring one back.                                  *)
THEOREM DisablesAreComplete == Spec => []DisableIsComplete
<1>1. HostInv => DisableIsComplete
  BY DEF HostInv
<1> QED
  BY <1>1, HostIsSound, PTL

-----------------------------------------------------------------------------
(* The Gateway after a stop. *)

(* A Gateway that comes up was brought up: by a step of a process that     *)
(* runs, or with the machine.                                              *)
Runs(w) == \E step \in {"cancel", "prepare", "stopGateway", "markRestart", "bounce", "boundary", "ensureUp", "heal"} :
             At(w, step)

LEMMA UpIsBrought ==
  ASSUME Next, gw'.up
  PROVE  gw.up \/ (\E w \in Who : Runs(w)) \/ Reboot
<1>1. CASE \E w \in Who : Lifecycle(w) \/ Heal(w)
  <2>1. PICK w \in Who : Lifecycle(w) \/ Heal(w)
    BY <1>1
  <2>2. Runs(w)
    BY <2>1 DEF Runs, Lifecycle, Cancel, Prepare, StopGateway, MarkRestart, Bounce, Boundary, EnsureUp, Runtime, Heal
  <2> QED
    BY <2>2
<1>2. CASE \E w \in Who : Surfaces(w) \/ ReadMarker(w)
  BY <1>2 DEF Surfaces, PluginOn, PluginOff, Configure, PolicyOn, PolicyOff, PolicyRestore, AdapterOn, AdapterOff,
              Switch, ReadMarker
<1>3. CASE OpFails \/ TickFails
  BY <1>3 DEF OpFails, TickFails, Partial, Down
<1>4. CASE Capture \/ Fence \/ RestoreValue \/ DropSnapshot \/ Acquire \/ Refused \/ Release \/ Admit
  BY <1>4 DEF Capture, Fence, RestoreValue, DropSnapshot, Acquire, Refused, Release, Admit
<1>5. CASE Transitions \/ Wipe \/ Verify
  BY <1>5 DEF Transitions, Commit, Wipe, Verify
<1>6. CASE Inspect \/ Recheck \/ Gate \/ Probe \/ Regate
  BY <1>6 DEF Inspect, Recheck, Gate, Probe, Regate, TickGoes
<1>7. CASE (\E cmd \in Commands : Issue(cmd)) \/ TickStart \/ LeaseExpires \/ (\E w \in Who : Killed(w))
  BY <1>7 DEF Issue, TickStart, LeaseExpires, Killed
<1>8. CASE Meddle
  BY <1>8 DEF Meddle, Down
<1> QED
  BY <1>1, <1>2, <1>3, <1>4, <1>5, <1>6, <1>7, <1>8 DEF Next, OpStep, TickStep, Step, Who

(* After a stop that succeeded the Gateway stays down: whatever ticks the  *)
(* scheduler starts, none of them brings it up, unless one was already     *)
(* running when the command was given or the machine is rebooted.          *)
THEOREM StopHolds == Spec => StopIsRespected
<1>1. ASSUME HostInv, [Next]_vars, OK("stop"), ~op.raced, budget'.reboots = budget.reboots, gw'.up
      PROVE  gw.up
  <2>1. TypeOK /\ ResultFits /\ StopFits
    BY <1>1 DEF HostInv
  <2>2. op.cmd = "stop" /\ op.result = "ok" /\ ~op.undoing /\ Line = <<>>
    BY <1>1, <2>1, BusyIs DEF OK, ResultFits
  <2>3. Within(Ticks, {"inspect", "gate"})
    BY <1>1, <2>1, <2>2 DEF StopFits, Within, Ticks
  <2>4. ~Runs("op")
    BY <2>2 DEF Runs, At, Line
  <2>5. ~Runs("tick")
    <3>1. Ticks # <<>> => Head(Ticks) \in {"inspect", "gate"}
      BY <2>1, <2>3, ListsAreSequences, HeadSays DEF Ticks
    <3> QED
      BY <3>1 DEF Runs, At, Ticks
  <2>6. ~Reboot
    <3> SUFFICES ASSUME Reboot PROVE FALSE
      OBVIOUS
    <3>1. budget \in [commands : Nat, faults : Nat, reboots : Nat]
      BY <2>1 DEF TypeOK
    <3>2. budget' = [budget EXCEPT !.faults = @ + 1, !.reboots = @ + 1]
      BY DEF Reboot
    <3>3. budget'.reboots = budget.reboots + 1 /\ budget.reboots \in Nat
      BY <3>1, <3>2
    <3> QED
      BY <1>1, <3>3
  <2>7. CASE Next
    BY <1>1, <2>4, <2>5, <2>6, <2>7, UpIsBrought DEF Who
  <2>8. CASE UNCHANGED vars
    BY <1>1, <2>8 DEF vars
  <2> QED
    BY <1>1, <2>7, <2>8
<1>2. HostInv /\ [Next]_vars =>
        [OK("stop") /\ ~op.raced /\ budget'.reboots = budget.reboots => (gw'.up => gw.up)]_vars
  BY <1>1
<1> QED
  BY <1>2, HostIsSound, PTL DEF Spec, StopIsRespected

-----------------------------------------------------------------------------
(* The programs of an installer. *)

(* The last step of a list.                                                *)
Ends(q, a) == \A i \in 1..Len(q) : q[i] # a => i < Len(q)

FreshNames == {"begin", "recordSkill", "recordState", "testAppData", "recordAppData", "moveSkill", "installPlugin", "provision",
               "recordLauncher", "writeLauncher", "create", "commit"}
UpgradeNames == {"dropSkill", "moveSkill", "prepare", "installPlugin", "finalize", "confirm", "provision",
                 "writeLauncher", "create", "done"}

(* What is made is recorded before; the plugin is bound after it is        *)
(* installed.                                                              *)
FreshList(q) ==
  /\ Within(q, FreshNames) /\ Ends(q, "commit")
  /\ \A a \in FreshNames : Once(q, a)
  /\ \A a \in FreshNames \ {"begin"} : Before(q, "begin", a)
  /\ \A a \in {"installPlugin", "recordSkill", "testAppData", "recordAppData", "recordLauncher"} : Follows(q, "begin", a)
  /\ Before(q, "recordSkill", "moveSkill") /\ Before(q, "recordAppData", "provision")
  /\ Before(q, "recordLauncher", "writeLauncher") /\ Before(q, "provision", "commit")
  /\ Before(q, "testAppData", "recordAppData") /\ Before(q, "testAppData", "provision")
  /\ LastWas(q, "testAppData", "recordAppData") /\ Follows(q, "testAppData", "recordAppData")
  /\ Follows(q, "installPlugin", "create") /\ Before(q, "installPlugin", "create")

(* The bound generation is snapshot before it is replaced, and bound anew  *)
(* after that.                                                             *)
UpgradeList(q) ==
  /\ Within(q, UpgradeNames) /\ Ends(q, "done")
  /\ \A a \in UpgradeNames : Once(q, a)
  /\ Follows(q, "prepare", "installPlugin") /\ Follows(q, "installPlugin", "finalize")
  /\ Follows(q, "installPlugin", "confirm") /\ Follows(q, "finalize", "confirm")
  /\ Before(q, "prepare", "installPlugin") /\ Before(q, "prepare", "finalize")
  /\ \A a \in {"finalize", "confirm", "create", "done"} : Before(q, "installPlugin", a)
  /\ Before(q, "finalize", "create") /\ Before(q, "confirm", "create") /\ Before(q, "provision", "done")
  /\ Before(q, "finalize", "done")

RecoverList(q) ==
  /\ Within(q, {"restore", "finalize", "confirm"}) /\ Ends(q, "confirm")
  /\ Once(q, "restore") /\ Once(q, "finalize") /\ Follows(q, "restore", "finalize")
  /\ Before(q, "restore", "finalize") /\ Before(q, "restore", "confirm") /\ Before(q, "finalize", "confirm")

PlanList(q) ==
  /\ Within(q, {"retire", "apply"}) /\ Ends(q, "apply")
  /\ Once(q, "retire") /\ Before(q, "retire", "apply")

LEMMA RestEnds ==
  ASSUME NEW S, NEW q \in Seq(S), NEW n \in 1..Len(q), NEW a, Ends(q, a)
  PROVE  Ends(Rest(q, n), a)
<1> SUFFICES ASSUME NEW i \in 1..Len(Rest(q, n)), Rest(q, n)[i] # a PROVE i < Len(Rest(q, n))
  BY DEF Ends
<1>1. n + i - 1 \in 1..Len(q) /\ Rest(q, n)[i] = q[n + i - 1]
  BY RestPlace
<1>2. n + i - 1 < Len(q)
  BY <1>1 DEF Ends
<1>3. Len(Rest(q, n)) = Len(q) - n + 1 /\ Len(q) \in Nat
  BY RestIs
<1> QED
  BY <1>2, <1>3

LEMMA RestLists ==
  ASSUME NEW S, NEW q \in Seq(S), NEW n \in 1..Len(q)
  PROVE  /\ FreshList(q) => FreshList(Rest(q, n))
         /\ UpgradeList(q) => UpgradeList(Rest(q, n))
         /\ RecoverList(q) => RecoverList(Rest(q, n))
         /\ PlanList(q) => PlanList(Rest(q, n))
<1>1. \A a, b : /\ Follows(q, a, b) => Follows(Rest(q, n), a, b)
                /\ Before(q, a, b) => Before(Rest(q, n), a, b)
                /\ LastWas(q, a, b) => LastWas(Rest(q, n), a, b)
                /\ Once(q, a) => Once(Rest(q, n), a)
                /\ Ends(q, a) => Ends(Rest(q, n), a)
  BY RestKeeps, RestEnds
<1>2. \A T : Within(q, T) => Within(Rest(q, n), T)
  BY RestWithin
<1>3. FreshList(q) => FreshList(Rest(q, n))
  BY <1>1, <1>2 DEF FreshList
<1>4. UpgradeList(q) => UpgradeList(Rest(q, n))
  BY <1>1, <1>2 DEF UpgradeList
<1>5. RecoverList(q) => RecoverList(Rest(q, n))
  BY <1>1, <1>2 DEF RecoverList
<1>6. PlanList(q) => PlanList(Rest(q, n))
  BY <1>1, <1>2 DEF PlanList
<1> QED
  BY <1>3, <1>4, <1>5, <1>6

LEMMA FreshProgram == FreshSteps \in Seq(InstallSteps) /\ FreshList(FreshSteps) /\ FreshSteps # <<>>
<1>1. FreshSteps \in Seq(InstallSteps) /\ FreshSteps # <<>>
  BY DEF FreshSteps, InstallSteps
<1>2. Within(FreshSteps, FreshNames) /\ Ends(FreshSteps, "commit")
  BY DEF FreshSteps, FreshNames, Within, Ends
<1>3. \A a \in FreshNames : Once(FreshSteps, a)
  BY DEF FreshSteps, FreshNames, Once
<1>4. \A a \in FreshNames \ {"begin"} : Before(FreshSteps, "begin", a)
  BY DEF FreshSteps, FreshNames, Before
<1>5. \A a \in {"installPlugin", "recordSkill", "testAppData", "recordAppData", "recordLauncher"} : Follows(FreshSteps, "begin", a)
  BY DEF FreshSteps, Follows
<1>6. /\ Before(FreshSteps, "recordSkill", "moveSkill") /\ Before(FreshSteps, "recordAppData", "provision")
      /\ Before(FreshSteps, "recordLauncher", "writeLauncher") /\ Before(FreshSteps, "provision", "commit")
      /\ Before(FreshSteps, "installPlugin", "create")
      /\ Before(FreshSteps, "testAppData", "recordAppData") /\ Before(FreshSteps, "testAppData", "provision")
  BY DEF FreshSteps, Before
<1>7. Follows(FreshSteps, "installPlugin", "create") /\ Follows(FreshSteps, "testAppData", "recordAppData")
  BY DEF FreshSteps, Follows
<1>8. LastWas(FreshSteps, "testAppData", "recordAppData")
  BY DEF FreshSteps, LastWas
<1> QED
  BY <1>1, <1>2, <1>3, <1>4, <1>5, <1>6, <1>7, <1>8 DEF FreshList

LEMMA UpgradeProgram == UpgradeSteps \in Seq(InstallSteps) /\ UpgradeList(UpgradeSteps) /\ UpgradeSteps # <<>>
<1> USE DEF UpgradeSteps, InstallTail
<1>1. UpgradeSteps \in Seq(InstallSteps) /\ UpgradeSteps # <<>>
  BY DEF InstallSteps
<1>2. Within(UpgradeSteps, UpgradeNames) /\ Ends(UpgradeSteps, "done")
  BY DEF UpgradeNames, Within, Ends
<1>3. \A a \in UpgradeNames : Once(UpgradeSteps, a)
  BY DEF UpgradeNames, Once
<1>4. /\ Follows(UpgradeSteps, "prepare", "installPlugin") /\ Follows(UpgradeSteps, "installPlugin", "finalize")
      /\ Follows(UpgradeSteps, "installPlugin", "confirm") /\ Follows(UpgradeSteps, "finalize", "confirm")
  BY DEF Follows
<1>5. Before(UpgradeSteps, "prepare", "installPlugin") /\ Before(UpgradeSteps, "prepare", "finalize")
  BY DEF Before
<1>6. \A a \in {"finalize", "confirm", "create", "done"} : Before(UpgradeSteps, "installPlugin", a)
  BY DEF Before
<1>7. /\ Before(UpgradeSteps, "finalize", "create") /\ Before(UpgradeSteps, "confirm", "create")
      /\ Before(UpgradeSteps, "provision", "done") /\ Before(UpgradeSteps, "finalize", "done")
  BY DEF Before
<1> HIDE DEF UpgradeSteps
<1> QED
  BY <1>1, <1>2, <1>3, <1>4, <1>5, <1>6, <1>7 DEF UpgradeList

LEMMA ExactProgram == ExactSteps \in Seq(InstallSteps) /\ UpgradeList(ExactSteps) /\ ExactSteps # <<>>
<1> USE DEF ExactSteps, InstallTail
<1>1. ExactSteps \in Seq(InstallSteps) /\ ExactSteps # <<>>
  BY DEF InstallSteps
<1>2. Within(ExactSteps, UpgradeNames) /\ Ends(ExactSteps, "done")
  BY DEF UpgradeNames, Within, Ends
<1>3. \A a \in UpgradeNames : Once(ExactSteps, a)
  BY DEF UpgradeNames, Once
<1>4. /\ Follows(ExactSteps, "prepare", "installPlugin") /\ Follows(ExactSteps, "installPlugin", "finalize")
      /\ Follows(ExactSteps, "installPlugin", "confirm") /\ Follows(ExactSteps, "finalize", "confirm")
  BY DEF Follows
<1>5. Before(ExactSteps, "prepare", "installPlugin") /\ Before(ExactSteps, "prepare", "finalize")
  BY DEF Before
<1>6. \A a \in {"finalize", "confirm", "create", "done"} : Before(ExactSteps, "installPlugin", a)
  BY DEF Before
<1>7. /\ Before(ExactSteps, "finalize", "create") /\ Before(ExactSteps, "confirm", "create")
      /\ Before(ExactSteps, "provision", "done") /\ Before(ExactSteps, "finalize", "done")
  BY DEF Before
<1> HIDE DEF ExactSteps
<1> QED
  BY <1>1, <1>2, <1>3, <1>4, <1>5, <1>6, <1>7 DEF UpgradeList

LEMMA RecoverProgram == RecoverSteps \in Seq(InstallSteps) /\ RecoverList(RecoverSteps) /\ RecoverSteps # <<>>
  BY DEF RecoverSteps, InstallSteps, RecoverList, Within, Ends, Once, Follows, Before

LEMMA PlanProgram == PlanSteps \in Seq(InstallSteps) /\ PlanList(PlanSteps) /\ PlanSteps # <<>>
  BY DEF PlanSteps, InstallSteps, PlanList, Within, Ends, Once, Before

(* What a run has still to do, by its mode.                                *)
Queue == run.steps
QueueList(mode, q) ==
  /\ mode = "fresh" => FreshList(q)
  /\ mode = "upgrade" => UpgradeList(q)
  /\ mode = "recover" => RecoverList(q)
  /\ mode = "plan" => PlanList(q)
  /\ mode \in {"fresh", "upgrade", "recover", "plan"}
Scripts(mode) == CASE mode = "fresh" -> {FreshSteps} [] mode = "upgrade" -> {UpgradeSteps, ExactSteps}
                    [] mode = "recover" -> {RecoverSteps} [] OTHER -> {PlanSteps}

LEMMA ScriptIs ==
  ASSUME NEW mode \in {"fresh", "upgrade", "recover", "plan"}, NEW q \in Scripts(mode)
  PROVE  q \in Seq(InstallSteps) /\ QueueList(mode, q) /\ q # <<>>
  BY FreshProgram, UpgradeProgram, ExactProgram, RecoverProgram, PlanProgram DEF Scripts, QueueList

LEMMA RunModes ==
  ASSUME OwnershipTypes
  PROVE  /\ Queue \in Seq(InstallSteps) /\ run.todo \in Seq(Roots) /\ run \in InstallRuns
         /\ run.mode \in {"none", "classify", "fresh", "upgrade", "recover", "plan", "rollback", "preflight"}
  BY DEF OwnershipTypes, InstallRuns, Queue

LEMMA QueueIs ==
  ASSUME OwnershipTypes, RunFits, Queue # <<>>
  PROVE  /\ QueueList(run.mode, Queue) /\ run.todo = <<>>
         /\ \E q \in Scripts(run.mode) : \E n \in 1..Len(q) : Queue = Rest(q, n)
<1>1. run.mode \in {"fresh", "upgrade", "recover", "plan"}
  BY RunModes DEF RunFits, Queue, Idle
<1>2. PICK q \in Scripts(run.mode) : \E n \in 1..Len(q) : Queue = Rest(q, n)
  BY <1>1 DEF RunFits, LastOf, Scripts, Rest, Queue
<1>3. PICK n \in 1..Len(q) : Queue = Rest(q, n)
  BY <1>2
<1>4. q \in Seq(InstallSteps) /\ QueueList(run.mode, q)
  BY <1>1, ScriptIs
<1>5. QueueList(run.mode, Queue)
  BY ONLY <1>3, <1>4, RestLists DEF QueueList
<1>6. run.todo = <<>>
  BY <1>1 DEF RunFits
<1> QED
  BY <1>2, <1>5, <1>6

-----------------------------------------------------------------------------
(* Updates of the run. *)

(* The steps a run takes, with what they remember besides.                 *)
Stepped(r, v) ==
  v \in InstallRuns /\ v.mode = r.mode /\ v.steps = Tail(r.steps) /\ v.todo = r.todo

LEMMA RunTake ==
  ASSUME NEW r \in InstallRuns, r.steps # <<>>, NEW v, v = [r EXCEPT !.steps = Tail(@)]
  PROVE  /\ Stepped(r, v)
         /\ v.old = r.old /\ v.plugged = r.plugged /\ v.absent = r.absent /\ v.missed = r.missed
<1>1. Tail(r.steps) \in Seq(InstallSteps)
  BY HeadTailProperties DEF InstallRuns
<1> QED
  BY <1>1 DEF InstallRuns, Stepped

Plugging(r, b) == [r EXCEPT !.steps = Tail(@), !.plugged = b]
LEMMA RunPlug ==
  ASSUME NEW r \in InstallRuns, r.steps # <<>>, NEW b \in BOOLEAN, NEW v,
         v = Plugging(r, b)
  PROVE  /\ Stepped(r, v)
         /\ v.old = r.old /\ v.plugged = b /\ v.absent = r.absent /\ v.missed = r.missed
<1>1. Tail(r.steps) \in Seq(InstallSteps)
  BY HeadTailProperties DEF InstallRuns
<1> QED
  BY <1>1 DEF InstallRuns, Stepped, Plugging

Retiring(r, o) == [r EXCEPT !.steps = Tail(@), !.old = o]
LEMMA RunKeepOld ==
  ASSUME NEW r \in InstallRuns, r.steps # <<>>, NEW o \in Payloads, NEW v,
         v = Retiring(r, o)
  PROVE  /\ Stepped(r, v)
         /\ v.old = o /\ v.plugged = r.plugged /\ v.absent = r.absent /\ v.missed = r.missed
<1>1. Tail(r.steps) \in Seq(InstallSteps)
  BY HeadTailProperties DEF InstallRuns
<1> QED
  BY <1>1 DEF InstallRuns, Stepped, Retiring

Looked(r, b) == [r EXCEPT !.steps = Tail(@), !.absent = b]
LEMMA RunAbsent ==
  ASSUME NEW r \in InstallRuns, r.steps # <<>>, NEW b \in BOOLEAN, NEW v,
         v = Looked(r, b)
  PROVE  /\ Stepped(r, v)
         /\ v.old = r.old /\ v.plugged = r.plugged /\ v.absent = b /\ v.missed = r.missed
<1>1. Tail(r.steps) \in Seq(InstallSteps)
  BY HeadTailProperties DEF InstallRuns
<1> QED
  BY <1>1 DEF InstallRuns, Stepped, Looked

Missing(r, root) == [r EXCEPT !.steps = Tail(@), !.missed = @ \cup {root}]
LEMMA RunMisses ==
  ASSUME NEW r \in InstallRuns, r.steps # <<>>, NEW root \in Roots, NEW v,
         v = Missing(r, root)
  PROVE  /\ Stepped(r, v)
         /\ v.old = r.old /\ v.plugged = r.plugged /\ v.absent = r.absent /\ v.missed = r.missed \cup {root}
<1>1. Tail(r.steps) \in Seq(InstallSteps)
  BY HeadTailProperties DEF InstallRuns
<1> QED
  BY <1>1 DEF InstallRuns, Stepped, Missing

Undoing(r, q, v) == v = [r EXCEPT !.todo = q] \/ v = [r EXCEPT !.todo = q, !.errors = TRUE]
LEMMA RunUndone ==
  ASSUME NEW r \in InstallRuns, NEW q \in Seq(Roots), NEW v, Undoing(r, q, v)
  PROVE  v \in InstallRuns /\ v.mode = r.mode /\ v.steps = r.steps /\ v.todo = q /\ v.absent = r.absent
  BY DEF InstallRuns, Undoing

LEMMA RunIs ==
  ASSUME NEW mode \in {"none", "classify", "fresh", "upgrade", "recover", "plan", "rollback", "preflight"},
         NEW q \in Seq(InstallSteps), NEW v, v = Run(mode, q)
  PROVE  v \in InstallRuns /\ v.mode = mode /\ v.steps = q /\ v.todo = <<>> /\ ~v.plugged /\ ~v.absent /\ v.missed = {}
<1>1. <<>> \in Seq(Roots)
  OBVIOUS
<1> QED
  BY <1>1 DEF InstallRuns, Run, Idle

LEMMA ClassifyIs ==
  ASSUME NEW v, v = Run("classify", <<>>)
  PROVE  v \in InstallRuns /\ v.mode = "classify" /\ v.steps = <<>> /\ v.todo = <<>> /\ ~v.absent
<1>1. <<>> \in Seq(Roots) /\ <<>> \in Seq(InstallSteps)
  OBVIOUS
<1> QED
  BY <1>1 DEF InstallRuns, Run, Idle

LEMMA IdleIs == Idle \in InstallRuns /\ Idle.mode = "none" /\ Idle.steps = <<>> /\ Idle.todo = <<>> /\ ~Idle.absent
<1>1. <<>> \in Seq(Roots) /\ <<>> \in Seq(InstallSteps)
  OBVIOUS
<1> QED
  BY <1>1 DEF InstallRuns, Idle

LEMMA RollbackIs ==
  ASSUME NEW q \in Seq(Roots), NEW v, v = [Run("rollback", <<>>) EXCEPT !.todo = q]
  PROVE  v \in InstallRuns /\ v.mode = "rollback" /\ v.steps = <<>> /\ v.todo = q /\ ~v.absent
<1>1. <<>> \in Seq(InstallSteps)
  OBVIOUS
<1> QED
  BY <1>1 DEF InstallRuns, Run, Idle

LEMMA PreflightIs ==
  ASSUME NEW q \in Seq(Roots), NEW v, v = [Run("preflight", <<>>) EXCEPT !.todo = q]
  PROVE  v \in InstallRuns /\ v.mode = "preflight" /\ v.steps = <<>> /\ v.todo = q /\ ~v.absent
<1>1. <<>> \in Seq(InstallSteps)
  OBVIOUS
<1> QED
  BY <1>1 DEF InstallRuns, Run, Idle

LEMMA ConcatWithin ==
  ASSUME NEW S, NEW a \in Seq(S), NEW b \in Seq(S), NEW T, Within(a, T), Within(b, T)
  PROVE  a \o b \in Seq(S) /\ Within(a \o b, T)
<1>1. Len(a) \in Nat /\ Len(b) \in Nat
  OBVIOUS
<1>2. /\ a \o b \in Seq(S) /\ Len(a \o b) = Len(a) + Len(b)
      /\ \A i \in 1..Len(a) + Len(b) : (a \o b)[i] = IF i <= Len(a) THEN a[i] ELSE b[i - Len(a)]
  BY ONLY ConcatProperties, a \in Seq(S), b \in Seq(S)
<1> SUFFICES ASSUME NEW i \in 1..(Len(a) + Len(b)) PROVE (a \o b)[i] \in T
  BY <1>2 DEF Within
<1>3. CASE i <= Len(a)
  <2>1. i \in 1..Len(a) /\ (a \o b)[i] = a[i]
    BY <1>1, <1>2, <1>3
  <2> QED
    BY <2>1 DEF Within
<1>4. CASE ~(i <= Len(a))
  <2>1. i - Len(a) \in 1..Len(b) /\ (a \o b)[i] = b[i - Len(a)]
    BY <1>1, <1>2, <1>4
  <2> QED
    BY <2>1 DEF Within
<1> QED
  BY <1>3, <1>4

(* The roots to undo are the recorded ones.                                *)
LEMMA DeepestFirstIs ==
  ASSUME NEW created \in Seq(Roots)
  PROVE  /\ DeepestFirst(created) \in Seq(Roots)
         /\ \A i \in 1..Len(DeepestFirst(created)) :
              \E j \in 1..Len(created) : DeepestFirst(created)[i] = created[j]
<1> DEFINE T == {created[j] : j \in 1..Len(created)}
<1>1. CASE \E i \in 1..Len(created) : created[i] = "skill"
  <2> DEFINE at == CHOOSE i \in 1..Len(created) : created[i] = "skill"
             a == SubSeq(created, 1, at - 1)
             b == SubSeq(created, at + 1, Len(created))
  <2>1. at \in 1..Len(created) /\ created[at] = "skill"
    BY <1>1
  <2>2. DeepestFirst(created) = <<"skill">> \o a \o b
    BY <1>1 DEF DeepestFirst
  <2> HIDE DEF at
  <2>3. /\ a \in Seq(Roots)
        /\ \A i \in 1..Len(a) : a[i] = created[i] /\ i \in 1..Len(created)
    BY <2>1
  <2>4. /\ b \in Seq(Roots)
        /\ \A i \in 1..Len(b) : b[i] = created[i + at] /\ i + at \in 1..Len(created)
    BY <2>1
  <2> DEFINE s == <<"skill">>
  <2>5. s \in Seq(Roots) /\ Len(s) = 1 /\ s[1] = "skill"
    BY DEF Roots
  <2> HIDE DEF a, b, s
  <2>6. Within(a, T) /\ Within(b, T)
    BY <2>3, <2>4 DEF Within
  <2>7. Within(s, T)
    BY <2>1, <2>5 DEF Within
  <2> HIDE DEF T
  <2>8. s \o a \in Seq(Roots) /\ Within(s \o a, T)
    BY <2>3, <2>5, <2>6, <2>7, ConcatWithin
  <2> DEFINE c == s \o a
  <2> HIDE DEF c
  <2>9. c \in Seq(Roots) /\ Within(c, T)
    BY <2>8 DEF c
  <2>10. c \o b \in Seq(Roots) /\ Within(c \o b, T)
    BY <2>4, <2>6, <2>9, ConcatWithin
  <2>11. DeepestFirst(created) \in Seq(Roots) /\ Within(DeepestFirst(created), T)
    BY <2>2, <2>10 DEF c, s
  <2> QED
    BY <2>11 DEF Within, T
<1>2. CASE ~\E i \in 1..Len(created) : created[i] = "skill"
  BY <1>2 DEF DeepestFirst
<1> QED
  BY <1>1, <1>2

-----------------------------------------------------------------------------
(* What the step at the head of a program says of what lies ahead. *)

LEMMA FreshHead ==
  ASSUME NEW q \in Seq(InstallSteps), q # <<>>, FreshList(q)
  PROVE  /\ Head(q) \in FreshNames /\ Has(q, Head(q)) /\ ~Has(Tail(q), Head(q))
         /\ Head(q) # "begin" => ~Has(q, "begin")
         /\ Head(q) = "begin" => \A a \in {"installPlugin", "recordSkill", "testAppData", "recordAppData", "recordLauncher"} : Has(q, a)
         /\ Head(q) = "moveSkill" => ~Has(q, "recordSkill")
         /\ Head(q) = "provision" => ~Has(q, "recordAppData") /\ ~Has(q, "testAppData")
         /\ Head(q) = "recordAppData" => ~Has(q, "testAppData")
         /\ Head(q) = "testAppData" => Has(q, "recordAppData")
         /\ Has(q, "recordAppData") => Head(q) = "recordAppData" \/ Has(q, "testAppData")
         /\ Head(q) = "writeLauncher" => ~Has(q, "recordLauncher")
         /\ Head(q) = "commit" => ~Has(q, "provision")
         /\ Head(q) = "create" => ~Has(q, "installPlugin")
         /\ Head(q) = "installPlugin" => Has(q, "create")
<1>1. /\ \A a, b : Follows(q, a, b) /\ Head(q) = a => Has(q, b)
      /\ \A a, b : Before(q, a, b) /\ Head(q) = b => ~Has(q, a)
      /\ \A a : Once(q, a) /\ Head(q) = a => ~Has(Tail(q), a)
      /\ \A T : Within(q, T) => Head(q) \in T
      /\ Has(q, Head(q))
  BY ONLY HeadSays, q \in Seq(InstallSteps), q # <<>>
<1>2. Has(q, "recordAppData") => Head(q) = "recordAppData" \/ Has(q, "testAppData")
  <2> SUFFICES ASSUME NEW i \in 1..Len(q), q[i] = "recordAppData", i # 1 PROVE Has(q, "testAppData")
    BY DEF Has
  <2>1. q[i - 1] = "testAppData" /\ i - 1 \in 1..Len(q)
    BY DEF FreshList, LastWas
  <2> QED
    BY <2>1 DEF Has
<1> QED
  BY <1>1, <1>2 DEF FreshList

LEMMA UpgradeHead ==
  ASSUME NEW q \in Seq(InstallSteps), q # <<>>, UpgradeList(q)
  PROVE  /\ Head(q) \in UpgradeNames /\ Has(q, Head(q)) /\ ~Has(Tail(q), Head(q))
         /\ Head(q) = "prepare" => Has(q, "installPlugin")
         /\ Head(q) = "installPlugin" => Has(q, "finalize") /\ Has(q, "confirm") /\ ~Has(q, "prepare")
         /\ Head(q) = "finalize" => Has(q, "confirm") /\ ~Has(q, "prepare")
         /\ Head(q) \in {"finalize", "confirm", "create", "done"} => ~Has(q, "installPlugin")
         /\ Head(q) = "create" => ~Has(q, "finalize") /\ ~Has(q, "confirm")
         /\ Head(q) = "done" => ~Has(q, "provision") /\ ~Has(q, "finalize")
<1>1. /\ \A a, b : Follows(q, a, b) /\ Head(q) = a => Has(q, b)
      /\ \A a, b : Before(q, a, b) /\ Head(q) = b => ~Has(q, a)
      /\ \A a : Once(q, a) /\ Head(q) = a => ~Has(Tail(q), a)
      /\ \A T : Within(q, T) => Head(q) \in T
      /\ Has(q, Head(q))
  BY ONLY HeadSays, q \in Seq(InstallSteps), q # <<>>
<1> QED
  BY <1>1 DEF UpgradeList

LEMMA RecoverHead ==
  ASSUME NEW q \in Seq(InstallSteps), q # <<>>, RecoverList(q)
  PROVE  /\ Head(q) \in {"restore", "finalize", "confirm"} /\ Has(q, Head(q))
         /\ Head(q) = "restore" => ~Has(Tail(q), "restore") /\ Has(q, "finalize")
         /\ Head(q) = "finalize" => ~Has(Tail(q), "finalize") /\ ~Has(q, "restore")
         /\ Head(q) = "confirm" => ~Has(q, "restore") /\ ~Has(q, "finalize")
<1>1. /\ \A a, b : Follows(q, a, b) /\ Head(q) = a => Has(q, b)
      /\ \A a, b : Before(q, a, b) /\ Head(q) = b => ~Has(q, a)
      /\ \A a : Once(q, a) /\ Head(q) = a => ~Has(Tail(q), a)
      /\ \A T : Within(q, T) => Head(q) \in T
      /\ Has(q, Head(q))
  BY ONLY HeadSays, q \in Seq(InstallSteps), q # <<>>
<1> QED
  BY <1>1 DEF RecoverList

LEMMA PlanHead ==
  ASSUME NEW q \in Seq(InstallSteps), q # <<>>, PlanList(q)
  PROVE  /\ Head(q) \in {"retire", "apply"} /\ Has(q, Head(q))
         /\ Head(q) = "retire" => ~Has(Tail(q), "retire")
         /\ Head(q) = "apply" => ~Has(q, "retire")
<1>1. /\ \A a, b : Before(q, a, b) /\ Head(q) = b => ~Has(q, a)
      /\ \A a : Once(q, a) /\ Head(q) = a => ~Has(Tail(q), a)
      /\ \A T : Within(q, T) => Head(q) \in T
      /\ Has(q, Head(q))
  BY ONLY HeadSays, q \in Seq(InstallSteps), q # <<>>
<1> QED
  BY <1>1 DEF PlanList

(* A run that has a step to take is in one of the four modes, and the step *)
(* is one of its program's.                                                *)
Doing(mode, names) == run.mode = mode /\ Head(Queue) \in names
LEMMA RunStepIs ==
  ASSUME OwnershipTypes, RunFits, Queue # <<>>
  PROVE  /\ Queue \in Seq(InstallSteps) /\ run.todo = <<>>
         /\ \/ Doing("fresh", FreshNames) /\ FreshList(Queue)
            \/ Doing("upgrade", UpgradeNames) /\ UpgradeList(Queue)
            \/ Doing("recover", {"restore", "finalize", "confirm"}) /\ RecoverList(Queue)
            \/ Doing("plan", {"retire", "apply"}) /\ PlanList(Queue)
<1>1. Queue \in Seq(InstallSteps)
  BY RunModes
<1>2. QueueList(run.mode, Queue) /\ run.todo = <<>>
  BY QueueIs
<1>3. CASE run.mode = "fresh"
  <2>1. FreshList(Queue)
    BY <1>2, <1>3 DEF QueueList
  <2> QED
    BY <1>1, <1>2, <1>3, <2>1, FreshHead DEF Doing
<1>4. CASE run.mode = "upgrade"
  <2>1. UpgradeList(Queue)
    BY <1>2, <1>4 DEF QueueList
  <2> QED
    BY <1>1, <1>2, <1>4, <2>1, UpgradeHead DEF Doing
<1>5. CASE run.mode = "recover"
  <2>1. RecoverList(Queue)
    BY <1>2, <1>5 DEF QueueList
  <2> QED
    BY <1>1, <1>2, <1>5, <2>1, RecoverHead DEF Doing
<1>6. CASE run.mode = "plan"
  <2>1. PlanList(Queue)
    BY <1>2, <1>6 DEF QueueList
  <2> QED
    BY <1>1, <1>2, <1>6, <2>1, PlanHead DEF Doing
<1> QED
  BY <1>2, <1>3, <1>4, <1>5, <1>6 DEF QueueList

EndOf(mode) == CASE mode = "fresh" -> "commit" [] mode = "upgrade" -> "done"
                 [] mode = "recover" -> "confirm" [] OTHER -> "apply"

(* A run that goes on to its next step.                                    *)
Taken == run' \in InstallRuns /\ run'.mode = run.mode /\ run'.steps = Tail(run.steps) /\ run'.todo = run.todo
Steady == run'.absent = run.absent /\ run'.missed = run.missed
LEMMA TakenFits ==
  ASSUME OwnershipTypes, RunFits, Queue # <<>>, Taken, Head(Queue) # EndOf(run.mode)
  PROVE  /\ RunFits' /\ Queue' = Tail(Queue)
         /\ \A a : Has(Queue', a) => Has(Queue, a)
         /\ \A a : Has(Queue, a) => Head(Queue) = a \/ Has(Queue', a)
<1>1. Queue \in Seq(InstallSteps) /\ run.mode \in {"fresh", "upgrade", "recover", "plan"} /\ run.todo = <<>>
  BY RunStepIs DEF Doing
<1>2. PICK q \in Scripts(run.mode) : \E n \in 1..Len(q) : Queue = Rest(q, n)
  BY QueueIs
<1>3. PICK n \in 1..Len(q) : Queue = Rest(q, n)
  BY <1>2
<1>4. q \in Seq(InstallSteps) /\ QueueList(run.mode, q)
  BY <1>1, ScriptIs
<1>5. Ends(q, EndOf(run.mode))
  BY <1>1, <1>4 DEF QueueList, EndOf, FreshList, UpgradeList, RecoverList, PlanList
<1>6. Head(Queue) = q[n]
  BY <1>3, <1>4, RestIs
<1>7. n < Len(q)
  BY <1>5, <1>6 DEF Ends
<1>8. Queue' = Tail(Queue)
  BY DEF Taken, Queue
<1>9. Queue' = Rest(q, n + 1) /\ n + 1 \in 1..Len(q)
  BY <1>3, <1>4, <1>7, <1>8, RestTail
<1>10. LastOf(q)'
  BY <1>9 DEF LastOf, Rest, Queue
<1>11. RunFits'
  <2>1. CASE run.mode = "fresh"
    <3>1. LastOf(FreshSteps)'
      BY <1>2, <1>10, <2>1 DEF Scripts
    <3> QED
      BY <1>1, <2>1, <3>1 DEF RunFits, Taken
  <2>2. CASE run.mode = "upgrade"
    <3>1. (LastOf(UpgradeSteps) \/ LastOf(ExactSteps))'
      BY <1>2, <1>10, <2>2 DEF Scripts
    <3> QED
      BY <1>1, <2>2, <3>1 DEF RunFits, Taken
  <2>3. CASE run.mode = "recover"
    <3>1. LastOf(RecoverSteps)'
      BY <1>2, <1>10, <2>3 DEF Scripts
    <3> QED
      BY <1>1, <2>3, <3>1 DEF RunFits, Taken
  <2>4. CASE run.mode = "plan"
    <3>1. LastOf(PlanSteps)'
      BY <1>2, <1>10, <2>4 DEF Scripts
    <3> QED
      BY <1>1, <2>4, <3>1 DEF RunFits, Taken
  <2> QED
    BY <1>1, <2>1, <2>2, <2>3, <2>4
<1> QED
  BY <1>1, <1>8, <1>11, TailHas

-----------------------------------------------------------------------------
(* The inductive invariant, and what a step that leaves a part alone keeps *)
(* of it.                                                                  *)

OwnershipFits ==
  /\ OwnershipTypes /\ RunFits /\ FreshFits /\ UndoFits /\ ForeignFits
  /\ SlotsFit /\ UpgradeFits /\ RecoverFits /\ PlanFits /\ KeptFits

LEMMA RemainsIs == \A a : Remains(a) <=> Has(Queue, a)
  BY DEF Remains, Has, Queue

LEMMA RemainsNext == \A a : Remains(a)' <=> Has(Queue', a)
  BY DEF Remains, Has, Queue

(* What a fresh attempt has on disk is looked for before it is recorded,   *)
(* and no other run records the application data root.                     *)
LEMMA NoRecord ==
  ASSUME OwnershipTypes, RunFits, Has(Queue, "recordAppData")
  PROVE  run.mode = "fresh" /\ Queue # <<>> /\ (Head(Queue) = "recordAppData" \/ Has(Queue, "testAppData"))
<1>1. Queue # <<>>
  BY DEF Has
<1>2. QueueList(run.mode, Queue) /\ Queue \in Seq(InstallSteps)
  BY <1>1, QueueIs, RunModes
<1>3. run.mode = "fresh"
  BY <1>2 DEF QueueList, UpgradeList, RecoverList, PlanList, Within, Has, UpgradeNames
<1> QED
  BY <1>1, <1>2, <1>3, FreshHead DEF QueueList

LEMMA DueIs == \A a : Due(a) <=> Queue # <<>> /\ Head(Queue) = a
  BY DEF Due, Queue

(* The order of a list is that of what is left of it.                      *)
LEMMA TailBefore ==
  ASSUME NEW S, NEW q \in Seq(S), q # <<>>, NEW a, NEW b, Before(q, a, b)
  PROVE  Before(Tail(q), a, b)
<1>1. /\ Len(Tail(q)) = Len(q) - 1 /\ Len(q) \in Nat
      /\ \A i \in 1..Len(Tail(q)) : Tail(q)[i] = q[i + 1] /\ i + 1 \in 1..Len(q)
  BY HeadTailProperties
<1> SUFFICES ASSUME NEW i \in 1..Len(Tail(q)), NEW j \in 1..Len(Tail(q)), Tail(q)[i] = a, Tail(q)[j] = b PROVE i < j
  BY DEF Before
<1>2. i + 1 < j + 1
  BY <1>1 DEF Before
<1> QED
  BY <1>2

LEMMA DueHas ==
  ASSUME NEW a
  PROVE  /\ Due(a) => Has(Queue, a)
         /\ Due(a)' => Has(Queue', a)
  BY DEF Due, Has, Queue

(* A run that ended relies on nothing.                                     *)
LEMMA IdleFits ==
  ASSUME run' = Idle
  PROVE  /\ run' \in InstallRuns /\ run'.mode = "none" /\ run'.todo = <<>> /\ ~run'.absent
         /\ RunFits' /\ FreshFits' /\ UndoFits' /\ UpgradeFits' /\ RecoverFits' /\ PlanFits'
  BY IdleIs DEF RunFits, FreshFits, UndoFits, UpgradeFits, RecoverFits, PlanFits

(* A run relies on what its mode says, and on nothing else.                *)
LEMMA ModeFits ==
  /\ run'.mode # "fresh" => FreshFits'
  /\ run'.mode \notin {"rollback", "preflight"} => UndoFits'
  /\ run'.mode # "upgrade" => UpgradeFits'
  /\ run'.mode # "recover" => RecoverFits'
  /\ run'.mode # "plan" => PlanFits'
  BY DEF FreshFits, UndoFits, UpgradeFits, RecoverFits, PlanFits

(* Nothing exposes the application data that was not exposed before.       *)
LEMMA ForeignStays ==
  ASSUME ForeignFits, foreign' = foreign, "appData" \in disk => "appData" \in disk',
         mark' = None \/ (mark # None /\ mark'.created = mark.created),
         run'.todo = run.todo \/ run'.todo = <<>>,
         run'.absent => run.absent /\ (Has(Queue', "recordAppData") => Has(Queue, "recordAppData"))
  PROVE  ForeignFits'
<1> SUFFICES ASSUME foreign = "spared"
             PROVE  "appData" \in disk' /\ ~Exposed' /\ ~(run'.absent /\ Has(Queue', "recordAppData"))
  BY RemainsNext DEF ForeignFits
<1>1. "appData" \in disk /\ ~Exposed /\ ~(run.absent /\ Has(Queue, "recordAppData"))
  BY RemainsIs DEF ForeignFits
<1>2. ~(run'.absent /\ Has(Queue', "recordAppData"))
  BY <1>1
<1>3. ~(Due("recordAppData")' /\ run'.absent)
  BY <1>2, DueHas
<1>4. ~(mark' # None /\ Recorded("appData")')
  BY <1>1 DEF Exposed, Recorded
<1>5. \A i \in 1..Len(run'.todo) : run'.todo[i] # "appData"
  BY <1>1 DEF Exposed
<1> QED
  BY <1>1, <1>2, <1>3, <1>4, <1>5 DEF Exposed

LEMMA SlotsStay ==
  ASSUME SlotsFit, UNCHANGED <<manifest, plugin, active, tx, release, owned>>
  PROVE  SlotsFit' /\ Candidates' = Candidates /\ (Unfinished <=> Unfinished')
  BY DEF SlotsFit, Candidates, Unfinished

(* What a completed installation had stays.                                *)
LEMMA KeptStays ==
  ASSUME owned # None => HasPrior, UNCHANGED <<owned, plugin>>,
         "appData" \in disk => "appData" \in disk', backups \subseteq backups'
  PROVE  KeptFits'
  BY DEF KeptFits, HasPrior

(* A workspace that is undone with it stays undone.                        *)
LEMMA LostStays ==
  ASSUME KeptFits, UNCHANGED <<owned, plugin, backups, manifest>>, "appData" \in disk => "appData" \in disk',
         mark' = mark \/ mark' = None, run'.mode \in {"none", "classify", "preflight"}
  PROVE  KeptFits'
  BY DEF KeptFits, HasPrior, Undone

(* Whoever works on an installed workspace has what it had.                *)
LEMMA WorksOnKept ==
  ASSUME KeptFits, owned # None,
         \/ manifest # None \/ run.mode \in {"fresh", "upgrade", "recover", "plan", "rollback"}
         \/ (mark # None /\ mark.state = "committed")
  PROVE  HasPrior
<1> SUFFICES ASSUME ~HasPrior PROVE FALSE
  OBVIOUS
<1>1. manifest = None /\ (mark = None \/ mark.state = "incomplete") /\ run.mode \in {"none", "classify", "preflight"}
  BY DEF KeptFits, Undone
<1> QED
  BY <1>1

LEMMA NoneIs == None \notin Nat /\ None \notin InstallMarkers /\ None \notin Transactions
  BY OwnershipAssumption

LEMMA SlotTypes ==
  ASSUME OwnershipTypes
  PROVE  /\ None \notin Slots /\ None \notin Payloads /\ Candidates \subseteq Slots
         /\ \A s \in Slots : plugin[s] \in Payloads \cup {None}
         /\ \A s \in Slots : s \in Candidates <=> plugin[s] # None
         /\ \A s \in Candidates : plugin[s] \in Payloads
  BY OwnershipAssumption DEF OwnershipTypes, Slots, Payloads, Candidates

-----------------------------------------------------------------------------
(* The steps of a run, one by one. *)

LEMMA RunTakes ==
  ASSUME OwnershipTypes, Queue # <<>>, Proceed
  PROVE  Taken /\ Steady /\ run'.old = run.old /\ run'.plugged = run.plugged
  BY RunModes, RunTake DEF Proceed, Taken, Steady, Stepped, Queue

LEMMA BeginFits ==
  ASSUME OwnershipFits, Begin
  PROVE  OwnershipFits'
<1> USE DEF OwnershipFits
<1>1. Queue # <<>> /\ Head(Queue) = "begin" /\ Taken /\ Steady /\ run'.plugged = run.plugged
  BY DueIs, RunTakes DEF Begin
<1>2. run.mode = "fresh" /\ FreshList(Queue) /\ Queue \in Seq(InstallSteps) /\ run.todo = <<>>
  BY <1>1, RunStepIs DEF Doing, UpgradeNames
<1>3. /\ RunFits' /\ Queue' = Tail(Queue)
      /\ \A a : Has(Queue', a) => Has(Queue, a)
      /\ \A a : Has(Queue, a) => Head(Queue) = a \/ Has(Queue', a)
  BY <1>1, <1>2, TakenFits DEF EndOf
<1>4. /\ Has(Queue, "begin") /\ ~Has(Queue', "begin")
      /\ \A a \in {"installPlugin", "recordSkill", "testAppData", "recordAppData", "recordLauncher"} : Has(Queue', a)
  BY <1>1, <1>2, <1>3, FreshHead
<1>5. /\ disk' = disk \cup {"state"}
      /\ mark' = [state |-> "incomplete", created |-> <<>>, appPre |-> "appData" \in disk]
      /\ UNCHANGED <<manifest, outdated, plugin, active, backups, tx, release, owned, foreign, crashes, failures>>
  BY DEF Begin
<1>6. /\ owned = None /\ mark = None /\ \A root \in disk : Shared(root)
      /\ ~run.plugged /\ Candidates = {} /\ active = None
      /\ Remains("create") => manifest = None
      /\ Remains("provision") \/ "appData" \in disk
      /\ ~run.absent
  <2>1. Remains("begin") /\ Remains("installPlugin") /\ Remains("testAppData")
    BY <1>3, <1>4, RemainsIs
  <2> QED
    BY <1>2, <2>1 DEF FreshFits
<1>7. mark' \in InstallMarkers /\ mark'.state = "incomplete" /\ mark'.created = <<>> /\ mark' # None
      /\ mark'.appPre = ("appData" \in disk)
  <2>1. <<>> \in Seq(Roots)
    OBVIOUS
  <2>2. mark' \in InstallMarkers /\ mark'.state = "incomplete" /\ mark'.created = <<>> /\ mark'.appPre = ("appData" \in disk)
    BY <1>5, <2>1 DEF InstallMarkers
  <2> QED
    BY <2>2, NoneIs
<1>8. OwnershipTypes'
  BY <1>1, <1>5, <1>7 DEF OwnershipTypes, Taken, Roots
<1>9. ForeignFits'
  <2>1. ~Recorded("appData")' /\ ~Due("recordAppData")'
    <3>1. Due("recordAppData")' => Head(Queue') = "recordAppData" /\ Queue' # <<>>
      BY DEF Due, Queue
    <3>2. Has(Queue', "testAppData") /\ Queue' \in Seq(InstallSteps)
      BY <1>2, <1>3, <1>4, TailHas, <1>1
    <3>3. Queue' # <<>> /\ Head(Queue') = "recordAppData" => ~Has(Queue', "testAppData")
      <4>1. Before(Queue', "testAppData", "recordAppData")
        BY <1>1, <1>2, <1>3, TailBefore DEF FreshList
      <4> QED
        BY <3>2, <4>1, HeadSays
    <3> QED
      BY <1>7, <3>1, <3>2, <3>3 DEF Recorded
  <2> QED
    BY <1>1, <1>2, <1>5, <1>6, <2>1 DEF ForeignFits, Exposed, Taken, Steady, Shared
<1>10. FreshFits'
  <2>1. \A root \in disk' : root = "state" \/ Shared(root)'
    BY <1>5, <1>6 DEF Shared
  <2>2. Candidates' = {} /\ active' = None
    BY <1>5, <1>6 DEF Candidates
  <2>3. Remains("create")' => manifest' = None
    BY <1>3, <1>5, <1>6, RemainsIs, RemainsNext
  <2>4. Remains("provision")' \/ "appData" \in disk'
    BY <1>1, <1>3, <1>5, <1>6, RemainsIs, RemainsNext
  <2>5. ~Remains("begin")' /\ \A a \in {"installPlugin", "recordSkill", "testAppData", "recordAppData", "recordLauncher"} : Remains(a)'
    BY <1>4, RemainsNext
  <2>6. mark'.appPre => foreign' # "no"
    BY <1>5, <1>6, <1>7 DEF Shared
  <2>7. owned' = None /\ "state" \in disk' /\ ~run'.plugged /\ ~run'.absent
    BY <1>1, <1>5, <1>6 DEF Steady
  <2>8. \A root \in disk' : root = "state" \/ Covered(root)'
    BY <2>1 DEF Covered
  <2>9. "appData" \in disk' => foreign' # "no"
    BY <2>1 DEF Shared
  <2> QED
    BY ONLY <1>7, <2>2, <2>3, <2>4, <2>5, <2>6, <2>7, <2>8, <2>9 DEF FreshFits
<1>11. UndoFits' /\ UpgradeFits' /\ RecoverFits' /\ PlanFits'
  BY <1>1, <1>2, ModeFits DEF Taken
<1>12. SlotsFit'
  BY <1>5, SlotsStay
<1>13. KeptFits'
  BY <1>5, <1>6 DEF KeptFits
<1> QED
  BY <1>3, <1>8, <1>9, <1>10, <1>11, <1>12, <1>13

(* What a fresh attempt has while it goes on.                              *)
LEMMA FreshHas ==
  ASSUME OwnershipFits, run.mode = "fresh"
  PROVE  /\ owned = None
         /\ IF Has(Queue, "installPlugin") THEN ~run.plugged /\ Candidates = {} /\ active = None
            ELSE run.plugged /\ Candidates = {active}
         /\ Has(Queue, "create") => manifest = None
         /\ Has(Queue, "provision") \/ "appData" \in disk
         /\ Has(Queue, "testAppData") => ~run.absent /\ ("appData" \in disk => foreign # "no")
         /\ Has(Queue, "begin") => mark = None
         /\ ~Has(Queue, "begin") => "state" \in disk
         /\ mark # None => /\ mark \in InstallMarkers /\ mark.state = "incomplete"
                           /\ mark.appPre => foreign # "no"
                           /\ \A r \in disk : r = "state" \/ Covered(r)
                           /\ Has(Queue, "recordSkill") \/ Covered("skill")
                           /\ Has(Queue, "testAppData") \/ run.absent \/ foreign # "no"
                           /\ Has(Queue, "recordAppData") \/ Covered("appData")
                           /\ Has(Queue, "recordLauncher") \/ Covered("launcher")
<1>1. FreshFits
  BY DEF OwnershipFits
<1> QED
  BY <1>1, RemainsIs DEF FreshFits

(* A fresh attempt goes on: its marker, if it still has one, covers what   *)
(* it makes.                                                               *)
LEMMA FreshGoesOn ==
  ASSUME OwnershipFits, Queue # <<>>, Taken, run.mode = "fresh", Head(Queue) \notin {"begin", "commit"},
         UNCHANGED <<owned, foreign>>, disk \subseteq disk',
         run'.absent = run.absent \/ Head(Queue) = "testAppData",
         "appData" \in disk' => "appData" \in disk \/ Head(Queue) = "provision",
         mark' # None => /\ mark # None /\ mark' \in InstallMarkers
                         /\ mark'.state = mark.state /\ mark'.appPre = mark.appPre
                         /\ \A r : Covered(r) => Covered(r)'
                         /\ \A r \in disk' : r \in disk \/ Covered(r)'
                         /\ Head(Queue) = "recordSkill" => Covered("skill")'
                         /\ Head(Queue) = "testAppData" => run'.absent \/ foreign # "no"
                         /\ Head(Queue) = "recordAppData" => Covered("appData")'
                         /\ Head(Queue) = "recordLauncher" => Covered("launcher")',
         Head(Queue) = "provision" => "appData" \in disk',
         Has(Queue', "create") => manifest' = None,
         IF Has(Queue', "installPlugin") THEN ~run'.plugged /\ Candidates' = {} /\ active' = None
         ELSE run'.plugged /\ Candidates' = {active'}
  PROVE  FreshFits'
<1> USE DEF OwnershipFits
<1>1. FreshList(Queue) /\ Queue \in Seq(InstallSteps)
  BY RunStepIs DEF Doing
<1>2. /\ Queue' = Tail(Queue)
      /\ \A a : Has(Queue', a) => Has(Queue, a)
      /\ \A a : Has(Queue, a) => Head(Queue) = a \/ Has(Queue', a)
  BY TakenFits DEF EndOf
<1>3. /\ ~Has(Queue, "begin") /\ ~Has(Queue', Head(Queue))
      /\ Head(Queue) = "provision" => ~Has(Queue, "testAppData")
  BY <1>1, <1>2, FreshHead
<1>4. /\ owned = None /\ "state" \in disk
      /\ Has(Queue, "provision") \/ "appData" \in disk
      /\ Has(Queue, "testAppData") => ~run.absent /\ ("appData" \in disk => foreign # "no")
  BY <1>3, FreshHas
<1>5. owned' = None /\ "state" \in disk' /\ ~Remains("begin")'
  BY <1>2, <1>3, <1>4, RemainsNext
<1>6. /\ Remains("provision")' \/ "appData" \in disk'
      /\ Remains("testAppData")' => ~run'.absent /\ ("appData" \in disk' => foreign' # "no")
      /\ Remains("create")' => manifest' = None
  BY <1>2, <1>3, <1>4, RemainsNext
<1>7. IF Remains("installPlugin")' THEN ~run'.plugged /\ Candidates' = {} /\ active' = None
      ELSE run'.plugged /\ Candidates' = {active'}
  BY RemainsNext
<1>8. ASSUME mark' # None
      PROVE  /\ mark' \in InstallMarkers /\ mark'.state = "incomplete" /\ (mark'.appPre => foreign' # "no")
             /\ \A r \in disk' : r = "state" \/ Covered(r)'
             /\ Remains("recordSkill")' \/ Covered("skill")'
             /\ Remains("testAppData")' \/ run'.absent \/ foreign' # "no"
             /\ Remains("recordAppData")' \/ Covered("appData")'
             /\ Remains("recordLauncher")' \/ Covered("launcher")'
  <2>1. mark # None
    BY <1>8
  <2>2. /\ mark.state = "incomplete" /\ (mark.appPre => foreign # "no")
        /\ \A r \in disk : r = "state" \/ Covered(r)
        /\ Has(Queue, "recordSkill") \/ Covered("skill")
        /\ Has(Queue, "testAppData") \/ run.absent \/ foreign # "no"
        /\ Has(Queue, "recordAppData") \/ Covered("appData")
        /\ Has(Queue, "recordLauncher") \/ Covered("launcher")
    BY <2>1, FreshHas
  <2> QED
    BY <1>2, <1>8, <2>2, RemainsNext
<1> QED
  BY ONLY <1>5, <1>6, <1>7, <1>8 DEF FreshFits

(* A record that was written, refused, skipped or lost: as long as the     *)
(* marker can be read, the root is covered.                                *)
LEMMA RecordedFits ==
  ASSUME OwnershipFits, NEW step \in {"recordSkill", "recordState", "recordAppData", "recordLauncher"}, NEW root \in Roots,
         step = "recordSkill" => root = "skill", step = "recordAppData" <=> root = "appData",
         step = "recordLauncher" => root = "launcher",
         Queue # <<>>, Head(Queue) = step, Taken,
         run'.absent = run.absent, run.missed \subseteq run'.missed, run'.plugged = run.plugged,
         UNCHANGED <<disk, manifest, outdated, plugin, active, backups, tx, release, owned, foreign, crashes>>,
         failures' \in 0..MaxFailures,
         \/ mark' = None
         \/ /\ mark # None /\ mark' \in InstallMarkers /\ mark'.state = mark.state /\ mark'.appPre = mark.appPre
            /\ \A r : Recorded(r) => Recorded(r)'
            /\ \A r : Recorded(r)' => Recorded(r) \/ (r = root /\ Recordable(root))
            /\ Recorded(root)' \/ root \in run'.missed \/ ~Recordable(root)
  PROVE  OwnershipFits'
<1> USE DEF OwnershipFits
<1>1. run.mode = "fresh" /\ FreshList(Queue) /\ Queue \in Seq(InstallSteps) /\ run.todo = <<>>
  BY RunStepIs DEF Doing, UpgradeNames
<1>2. /\ RunFits' /\ Queue' = Tail(Queue)
      /\ \A a : Has(Queue', a) => Has(Queue, a)
      /\ \A a : Has(Queue, a) => Head(Queue) = a \/ Has(Queue', a)
  BY <1>1, TakenFits DEF EndOf
<1>3. ~Has(Queue, "begin") /\ (step = "recordAppData" => ~Has(Queue, "testAppData"))
  BY <1>1, FreshHead
<1>4. Candidates' = Candidates
  BY DEF Candidates
<1>5. OwnershipTypes'
  <2>1. mark' = None \/ (mark' \in InstallMarkers /\ "state" \in disk')
    BY DEF OwnershipTypes
  <2> QED
    BY <2>1 DEF OwnershipTypes, Taken
<1>6. FreshFits'
  <2>1. ASSUME mark' # None PROVE Covered(root)'
    <3>1. CASE Recorded(root)' \/ root \in run'.missed
      BY <3>1 DEF Covered
    <3>2. CASE ~Recordable(root)
      <4>1. Recorded(root) \/ (root = "appData" /\ foreign # "no")
        BY <1>1, <1>3, <2>1, <3>2, FreshHas DEF Recordable
      <4> QED
        BY <2>1, <4>1 DEF Covered, Shared
    <3> QED
      BY <2>1, <3>1, <3>2
  <2>2. ASSUME mark' # None PROVE \A r : Covered(r) => Covered(r)'
    BY <2>2 DEF Covered, Shared
  <2>3. IF Has(Queue', "installPlugin") THEN ~run'.plugged /\ Candidates' = {} /\ active' = None
        ELSE run'.plugged /\ Candidates' = {active'}
    <3>1. Has(Queue', "installPlugin") <=> Has(Queue, "installPlugin")
      BY <1>2
    <3> QED
      BY <1>1, <1>4, <3>1, FreshHas
  <2>4. Has(Queue', "create") => manifest' = None
    BY <1>1, <1>2, FreshHas
  <2>5. Head(Queue) \notin {"begin", "commit", "testAppData", "provision"}
    OBVIOUS
  <2>6. ("appData" \in disk' => "appData" \in disk \/ Head(Queue) = "provision") /\ disk \subseteq disk'
    OBVIOUS
  <2>7. mark' # None => /\ mark # None /\ mark' \in InstallMarkers
                        /\ mark'.state = mark.state /\ mark'.appPre = mark.appPre
                        /\ \A r : Covered(r) => Covered(r)'
                        /\ \A r \in disk' : r \in disk \/ Covered(r)'
                        /\ Head(Queue) = "recordSkill" => Covered("skill")'
                        /\ Head(Queue) = "testAppData" => run'.absent \/ foreign # "no"
                        /\ Head(Queue) = "recordAppData" => Covered("appData")'
                        /\ Head(Queue) = "recordLauncher" => Covered("launcher")'
    BY <2>1, <2>2, <2>5
  <2> QED
    BY <1>1, <2>3, <2>4, <2>5, <2>6, <2>7, FreshGoesOn
<1>7. ForeignFits'
  <2> SUFFICES ASSUME foreign = "spared"
               PROVE  "appData" \in disk' /\ ~Exposed' /\ ~(run'.absent /\ Has(Queue', "recordAppData"))
    BY RemainsNext DEF ForeignFits
  <2>1. "appData" \in disk /\ ~Exposed /\ ~(run.absent /\ Has(Queue, "recordAppData"))
    BY RemainsIs DEF ForeignFits
  <2>2. ~(run'.absent /\ Has(Queue', "recordAppData"))
    BY <1>2, <2>1
  <2>3. step = "recordAppData" => ~run.absent
    BY <2>1, DueIs DEF Exposed
  <2>4. ~(mark' # None /\ Recorded("appData")')
    BY <2>1, <2>3 DEF Exposed, Recordable
  <2>5. ~(Due("recordAppData")' /\ run'.absent)
    BY <2>2, DueHas
  <2> QED
    BY <1>1, <2>1, <2>2, <2>4, <2>5 DEF Exposed, Taken
<1>8. UndoFits' /\ UpgradeFits' /\ RecoverFits' /\ PlanFits'
  BY <1>1, ModeFits DEF Taken
<1>9. SlotsFit'
  BY SlotsStay
<1>10. KeptFits'
  BY <1>1, FreshHas DEF KeptFits
<1> QED
  BY <1>2, <1>5, <1>6, <1>7, <1>8, <1>9, <1>10

(* What a record leaves in the marker.                                     *)
LEMMA AppendIs ==
  ASSUME mark \in InstallMarkers, NEW root \in Roots, mark' = [mark EXCEPT !.created = Append(@, root)]
  PROVE  /\ mark' \in InstallMarkers /\ mark'.state = mark.state /\ mark'.appPre = mark.appPre
         /\ \A r : Recorded(r)' <=> Recorded(r) \/ r = root
<1>1. mark.created \in Seq(Roots)
  BY DEF InstallMarkers
<1>2. /\ Append(mark.created, root) \in Seq(Roots)
      /\ Len(Append(mark.created, root)) = Len(mark.created) + 1
      /\ \A i \in 1..Len(mark.created) : Append(mark.created, root)[i] = mark.created[i]
      /\ Append(mark.created, root)[Len(mark.created) + 1] = root
  BY <1>1, AppendProperties
<1>3. /\ mark' \in InstallMarkers /\ mark'.state = mark.state /\ mark'.appPre = mark.appPre
      /\ mark'.created = Append(mark.created, root)
  BY <1>2 DEF InstallMarkers
<1> DEFINE c == mark.created
           d == mark'.created
<1>4. /\ Len(c) \in Nat /\ Len(d) = Len(c) + 1 /\ \A i \in 1..Len(c) : d[i] = c[i]
      /\ d[Len(c) + 1] = root /\ DOMAIN c = 1..Len(c) /\ DOMAIN d = 1..Len(d)
  BY <1>1, <1>2, <1>3
<1> HIDE DEF c, d
<1>5. \A r : (\E i \in DOMAIN d : d[i] = r) <=> (\E i \in DOMAIN c : c[i] = r) \/ r = root
  <2> TAKE r
  <2>1. ASSUME NEW i \in DOMAIN d, d[i] = r PROVE (\E k \in DOMAIN c : c[k] = r) \/ r = root
    BY <1>4, <2>1
  <2>2. ASSUME NEW i \in DOMAIN c, c[i] = r PROVE \E k \in DOMAIN d : d[k] = r
    BY <1>4, <2>2
  <2>3. \E k \in DOMAIN d : d[k] = root
    BY <1>4
  <2> QED
    BY <2>1, <2>2, <2>3
<1>6. \A r : Recorded(r)' <=> Recorded(r) \/ r = root
  BY <1>5 DEF c, d, Recorded
<1> QED
  BY <1>3, <1>6

LEMMA RecordFits ==
  ASSUME OwnershipFits, RecordRoots
  PROVE  OwnershipFits'
<1>1. PICK step \in {"recordSkill", "recordState", "recordAppData", "recordLauncher"} :
        \E root \in Roots :
          /\ Record(step, root)
          /\ step = "recordSkill" => root = "skill"
          /\ step = "recordAppData" <=> root = "appData"
          /\ step = "recordLauncher" => root = "launcher"
  BY DEF RecordRoots, Roots
<1>2. PICK root \in Roots :
        /\ Record(step, root)
        /\ step = "recordSkill" => root = "skill"
        /\ step = "recordAppData" <=> root = "appData"
        /\ step = "recordLauncher" => root = "launcher"
  BY <1>1
<1>3. /\ Queue # <<>> /\ Head(Queue) = step /\ Taken /\ Steady /\ run'.plugged = run.plugged
      /\ UNCHANGED <<disk, manifest, outdated, plugin, active, backups, tx, release, owned, foreign, crashes>>
      /\ failures' \in 0..MaxFailures
  BY <1>2, DueIs, RunTakes DEF Record, OwnershipFits, OwnershipTypes
<1>4. mark' = IF Recordable(root) THEN [mark EXCEPT !.created = Append(@, root)] ELSE mark
  BY <1>2 DEF Record
<1>5. mark # None => mark \in InstallMarkers
  BY DEF OwnershipFits, OwnershipTypes
<1>6. \/ mark' = None
      \/ /\ mark # None /\ mark' \in InstallMarkers /\ mark'.state = mark.state /\ mark'.appPre = mark.appPre
         /\ \A r : Recorded(r) => Recorded(r)'
         /\ \A r : Recorded(r)' => Recorded(r) \/ (r = root /\ Recordable(root))
         /\ Recorded(root)' \/ root \in run'.missed \/ ~Recordable(root)
  <2>1. CASE Recordable(root)
    <3>1. mark # None /\ mark' = [mark EXCEPT !.created = Append(@, root)]
      BY <1>4, <2>1 DEF Recordable
    <3> QED
      BY <1>5, <2>1, <3>1, AppendIs
  <2>2. CASE ~Recordable(root)
    BY <1>4, <1>5, <2>2 DEF Recorded
  <2> QED
    BY <2>1, <2>2
<1>7. run'.absent = run.absent /\ run.missed \subseteq run'.missed
  BY <1>3 DEF Steady
<1> QED
  BY <1>2, <1>3, <1>6, <1>7, RecordedFits

LEMMA RecordsFailFits ==
  ASSUME OwnershipFits, RecordsFail
  PROVE  OwnershipFits'
<1>1. PICK step \in {"recordSkill", "recordState", "recordAppData", "recordLauncher"} :
        \E root \in Roots :
          /\ RecordFails(step, root)
          /\ step = "recordSkill" => root = "skill"
          /\ step = "recordAppData" <=> root = "appData"
          /\ step = "recordLauncher" => root = "launcher"
  BY DEF RecordsFail, Roots
<1>2. PICK root \in Roots :
        /\ RecordFails(step, root)
        /\ step = "recordSkill" => root = "skill"
        /\ step = "recordAppData" <=> root = "appData"
        /\ step = "recordLauncher" => root = "launcher"
  BY <1>1
<1>3. /\ Queue # <<>> /\ Head(Queue) = step /\ mark' \in {mark, None} /\ Recordable(root)
      /\ run' = [run EXCEPT !.steps = Tail(@), !.missed = @ \cup {root}]
      /\ failures < MaxFailures /\ failures' = failures + 1
      /\ UNCHANGED <<disk, manifest, outdated, plugin, active, backups, tx, release, owned, foreign, crashes>>
  BY <1>2, DueIs DEF RecordFails
<1>4. failures' \in 0..MaxFailures
  BY <1>3, OwnershipAssumption DEF OwnershipFits, OwnershipTypes
<1>5. /\ Taken /\ run'.absent = run.absent /\ run'.missed = run.missed \cup {root} /\ run'.plugged = run.plugged
  <2>1. run \in InstallRuns /\ run.steps # <<>> /\ run' = Missing(run, root)
    BY <1>3, RunModes DEF OwnershipFits, Queue, Missing
  <2>2. Stepped(run, run') /\ run'.absent = run.absent /\ run'.missed = run.missed \cup {root} /\ run'.plugged = run.plugged
    BY ONLY <2>1, RunMisses, root \in Roots
  <2> QED
    BY <2>2 DEF Stepped, Taken
<1>6. mark # None /\ mark \in InstallMarkers
  BY <1>3 DEF Recordable, OwnershipFits, OwnershipTypes
<1>7. \/ mark' = None
      \/ /\ mark # None /\ mark' \in InstallMarkers /\ mark'.state = mark.state /\ mark'.appPre = mark.appPre
         /\ \A r : Recorded(r) => Recorded(r)'
         /\ \A r : Recorded(r)' => Recorded(r) \/ (r = root /\ Recordable(root))
         /\ Recorded(root)' \/ root \in run'.missed \/ ~Recordable(root)
  BY <1>3, <1>5, <1>6 DEF Recorded
<1>8. run.missed \subseteq run'.missed
  BY <1>5
<1> QED
  BY <1>2, <1>3, <1>4, <1>5, <1>7, <1>8, RecordedFits

LEMMA TestAppDataFits ==
  ASSUME OwnershipFits, TestAppData
  PROVE  OwnershipFits'
<1> USE DEF OwnershipFits
<1>1. /\ Queue # <<>> /\ Head(Queue) = "testAppData"
      /\ run' = [run EXCEPT !.steps = Tail(@), !.absent = AppDataAbsent]
      /\ UNCHANGED <<disk, mark, manifest, outdated, plugin, active, backups, tx, release, owned, foreign, crashes, failures>>
  BY DueIs DEF TestAppData
<1>2. Taken /\ run'.absent = ("appData" \notin disk) /\ run'.missed = run.missed /\ run'.plugged = run.plugged
  <2> DEFINE b == "appData" \notin disk
  <2>1. b \in BOOLEAN
    OBVIOUS
  <2>2. run' = Looked(run, b)
    BY <1>1 DEF AppDataAbsent, Looked
  <2> HIDE DEF b
  <2>3. run \in InstallRuns /\ run.steps # <<>>
    BY <1>1, RunModes DEF Queue
  <2>4. Stepped(run, run') /\ run'.absent = b /\ run'.missed = run.missed /\ run'.plugged = run.plugged
    BY ONLY <2>1, <2>2, <2>3, RunAbsent
  <2> QED
    BY <2>4 DEF Stepped, Taken, b
<1>3. run.mode = "fresh" /\ FreshList(Queue) /\ Queue \in Seq(InstallSteps) /\ run.todo = <<>>
  BY <1>1, RunStepIs DEF Doing, UpgradeNames
<1>4. /\ RunFits' /\ Queue' = Tail(Queue)
      /\ \A a : Has(Queue', a) => Has(Queue, a)
      /\ \A a : Has(Queue, a) => Head(Queue) = a \/ Has(Queue', a)
  BY <1>1, <1>2, <1>3, TakenFits DEF EndOf
<1>5. Has(Queue, "testAppData")
  BY <1>1, <1>3, FreshHead
<1>6. Candidates' = Candidates /\ \A r : Covered(r)' <=> Covered(r)
  BY <1>1, <1>2 DEF Candidates, Covered, Recorded, Shared
<1>7. OwnershipTypes'
  BY <1>1, <1>2 DEF OwnershipTypes, Taken
<1>8. FreshFits'
  <2>1. mark' # None => /\ mark # None /\ mark' \in InstallMarkers
                        /\ mark'.state = mark.state /\ mark'.appPre = mark.appPre
                        /\ \A r : Covered(r) => Covered(r)'
                        /\ \A r \in disk' : r \in disk \/ Covered(r)'
                        /\ Head(Queue) = "recordSkill" => Covered("skill")'
                        /\ Head(Queue) = "testAppData" => run'.absent \/ foreign # "no"
                        /\ Head(Queue) = "recordAppData" => Covered("appData")'
                        /\ Head(Queue) = "recordLauncher" => Covered("launcher")'
    BY <1>1, <1>2, <1>3, <1>5, <1>6, FreshHas
  <2>2. IF Has(Queue', "installPlugin") THEN ~run'.plugged /\ Candidates' = {} /\ active' = None
        ELSE run'.plugged /\ Candidates' = {active'}
    <3>1. Has(Queue', "installPlugin") <=> Has(Queue, "installPlugin")
      BY <1>1, <1>4
    <3> QED
      BY <1>1, <1>2, <1>3, <1>6, <3>1, FreshHas
  <2>3. Has(Queue', "create") => manifest' = None
    BY <1>1, <1>3, <1>4, FreshHas
  <2>4. /\ Head(Queue) \notin {"begin", "commit"} /\ disk \subseteq disk'
        /\ "appData" \in disk' => "appData" \in disk \/ Head(Queue) = "provision"
        /\ Head(Queue) = "provision" => "appData" \in disk'
    BY <1>1
  <2> QED
    BY <1>1, <1>2, <1>3, <2>1, <2>2, <2>3, <2>4, FreshGoesOn
<1>9. ForeignFits'
  <2> SUFFICES ASSUME foreign = "spared"
               PROVE  "appData" \in disk' /\ ~Exposed' /\ ~run'.absent
    BY <1>1 DEF ForeignFits
  <2>1. "appData" \in disk /\ ~Exposed
    BY DEF ForeignFits
  <2> QED
    BY <1>1, <1>2, <2>1 DEF Exposed, Recorded, Taken
<1>10. UndoFits' /\ UpgradeFits' /\ RecoverFits' /\ PlanFits'
  BY <1>2, <1>3, ModeFits DEF Taken
<1>11. SlotsFit'
  BY <1>1, SlotsStay
<1>12. KeptFits'
  BY <1>1, <1>3, FreshHas DEF KeptFits
<1> QED
  BY <1>4, <1>7, <1>8, <1>9, <1>10, <1>11, <1>12

LEMMA UpgradeHas ==
  ASSUME OwnershipFits, run.mode = "upgrade"
  PROVE  /\ manifest \in Slots /\ "state" \in disk
         /\ Has(Queue, "installPlugin") =>
              /\ owned \notin {None, release} /\ Candidates = {manifest} /\ active = manifest
              /\ ~Has(Queue, "prepare") => plugin[manifest] \in backups /\ Retirable(manifest)
         /\ Has(Queue, "finalize") /\ ~Has(Queue, "prepare") =>
              tx \in Transactions /\ tx.slot = manifest /\ tx.expected = release
         /\ Has(Queue, "confirm") /\ ~Has(Queue, "installPlugin") =>
              tx \in Transactions /\ Unfinished /\ Candidates \subseteq {tx.slot, active}
         /\ Has(Queue, "finalize") \/ (Direct \in Candidates => active = Direct)
         /\ Has(Queue, "provision") \/ "appData" \in disk
         /\ owned # None => HasPrior
<1>1. manifest # None
  BY DEF OwnershipFits, UpgradeFits
<1>2. manifest \in Slots /\ "state" \in disk
  BY <1>1 DEF OwnershipFits, OwnershipTypes
<1>3. owned # None => HasPrior
  BY <1>1, WorksOnKept DEF OwnershipFits
<1> QED
  BY <1>2, <1>3, RemainsIs DEF OwnershipFits, UpgradeFits

LEMMA UpgradeGoesOn ==
  ASSUME OwnershipFits, Queue # <<>>, Taken, run.mode = "upgrade",
         Head(Queue) \notin {"prepare", "installPlugin", "done"},
         UNCHANGED <<plugin, active, backups, tx, owned, release>>,
         manifest' # None, Head(Queue) \in {"finalize", "create"} \/ manifest' = manifest,
         "appData" \in disk => "appData" \in disk',
         Head(Queue) = "provision" => "appData" \in disk',
         Head(Queue) = "finalize" => (Direct \in Candidates => active = Direct)
  PROVE  UpgradeFits'
<1> USE DEF OwnershipFits
<1>1. UpgradeList(Queue) /\ Queue \in Seq(InstallSteps)
  BY RunStepIs DEF Doing
<1>2. /\ Queue' = Tail(Queue)
      /\ \A a : Has(Queue', a) => Has(Queue, a)
      /\ \A a : Has(Queue, a) => Head(Queue) = a \/ Has(Queue', a)
  BY TakenFits DEF EndOf
<1>3. /\ ~Has(Queue', Head(Queue))
      /\ Head(Queue) \in {"finalize", "create"} => ~Has(Queue, "installPlugin")
      /\ Head(Queue) = "create" => ~Has(Queue, "finalize")
  BY <1>1, <1>2, UpgradeHead
<1>4. Candidates' = Candidates /\ (Unfinished <=> Unfinished')
  BY DEF Candidates, Unfinished
<1>5. \A a \in {"prepare", "installPlugin"} : Has(Queue', a) <=> Has(Queue, a)
  BY <1>2
<1>6. ASSUME Has(Queue', "installPlugin")
      PROVE  /\ owned' \notin {None, release'} /\ Candidates' = {manifest'} /\ active' = manifest'
             /\ ~Has(Queue', "prepare") => plugin'[manifest'] \in backups' /\ Retirable(manifest)'
  <2>1. manifest' = manifest
    BY <1>2, <1>3, <1>6
  <2>2. Retirable(manifest)' <=> Retirable(manifest)
    BY <1>4, <2>1 DEF Retirable, Managed, Current
  <2> QED
    BY <1>3, <1>4, <1>5, <1>6, <2>1, <2>2, UpgradeHas
<1>7. ASSUME Has(Queue', "finalize"), ~Has(Queue', "prepare")
      PROVE  tx' \in Transactions /\ tx'.slot = manifest' /\ tx'.expected = release'
  BY <1>2, <1>3, <1>5, <1>7, UpgradeHas
<1>8. ASSUME Has(Queue', "confirm"), ~Has(Queue', "installPlugin")
      PROVE  tx' \in Transactions /\ Unfinished' /\ Candidates' \subseteq {tx'.slot, active'}
  BY <1>2, <1>4, <1>5, <1>8, UpgradeHas
<1>9. Has(Queue', "provision") \/ "appData" \in disk'
  BY <1>2, UpgradeHas
<1>10. Has(Queue', "finalize") \/ (Direct \in Candidates' => active' = Direct)
  BY <1>2, <1>4, UpgradeHas
<1> QED
  BY ONLY <1>6, <1>7, <1>8, <1>9, <1>10, manifest' # None, RemainsNext DEF UpgradeFits

LEMMA PlaceRootFits ==
  ASSUME OwnershipFits, PlaceRoot
  PROVE  OwnershipFits'
<1> USE DEF OwnershipFits
<1>1. /\ Queue # <<>> /\ Taken /\ Steady /\ run'.plugged = run.plugged
      /\ \/ Head(Queue) = "dropSkill" /\ disk' = disk \ {"skill"}
         \/ Head(Queue) = "moveSkill" /\ disk' = disk \cup {"skill"}
         \/ Head(Queue) = "provision" /\ disk' = disk \cup {"appData"}
         \/ Head(Queue) = "writeLauncher" /\ disk' = disk \cup {"launcher"}
      /\ UNCHANGED <<mark, manifest, outdated, plugin, active, backups, tx, release, owned, foreign, crashes, failures>>
  BY DueIs, RunTakes DEF PlaceRoot
<1>2. /\ Queue \in Seq(InstallSteps) /\ run.todo = <<>>
      /\ (run.mode = "fresh" /\ FreshList(Queue) /\ Head(Queue) # "dropSkill") \/ run.mode = "upgrade"
  BY <1>1, RunStepIs DEF Doing, FreshNames
<1>3. /\ RunFits' /\ Queue' = Tail(Queue)
      /\ \A a : Has(Queue', a) => Has(Queue, a)
      /\ \A a : Has(Queue, a) => Head(Queue) = a \/ Has(Queue', a)
  BY <1>1, <1>2, TakenFits DEF EndOf
<1>4. "appData" \in disk => "appData" \in disk'
  BY <1>1
<1>5. OwnershipTypes'
  BY <1>1 DEF OwnershipTypes, Taken, Roots
<1>6. SlotsFit' /\ Candidates' = Candidates
  BY <1>1, SlotsStay
<1>7. ForeignFits'
  <2>1. mark' = None \/ (mark # None /\ mark'.created = mark.created)
    BY <1>1
  <2> QED
    BY <1>1, <1>3, <1>4, <2>1, ForeignStays DEF Taken, Steady
<1>8. UndoFits' /\ RecoverFits' /\ PlanFits'
  BY <1>1, <1>2, ModeFits DEF Taken
<1>9. CASE run.mode = "fresh"
  <2>1. FreshList(Queue) /\ Head(Queue) # "dropSkill" /\ Head(Queue) # "begin"
    BY <1>1, <1>2, <1>9
  <2>2. mark # None => /\ mark \in InstallMarkers
                       /\ Head(Queue) = "moveSkill" => Covered("skill")
                       /\ Head(Queue) = "provision" => Covered("appData")
                       /\ Head(Queue) = "writeLauncher" => Covered("launcher")
    BY <1>1, <1>2, <1>9, <2>1, FreshHead, FreshHas
  <2>3. \A r : Covered(r) <=> Covered(r)'
    BY <1>1 DEF Covered, Recorded, Shared, Steady
  <2>4. /\ disk \subseteq disk' /\ (Head(Queue) = "provision" => "appData" \in disk')
        /\ "appData" \in disk' => "appData" \in disk \/ Head(Queue) = "provision"
        /\ Head(Queue) \notin {"begin", "commit", "testAppData", "recordSkill", "recordAppData", "recordLauncher"}
    BY <1>1, <2>1
  <2>5. Has(Queue', "create") => manifest' = None
    BY <1>1, <1>3, <1>9, FreshHas
  <2>6. IF Has(Queue', "installPlugin") THEN ~run'.plugged /\ Candidates' = {} /\ active' = None
        ELSE run'.plugged /\ Candidates' = {active'}
    <3>1. Has(Queue', "installPlugin") <=> Has(Queue, "installPlugin")
      BY <1>1, <1>3
    <3> QED
      BY <1>1, <1>6, <1>9, <3>1, FreshHas
  <2>7. FreshFits'
    <3>1. \A r \in disk' : mark # None => r \in disk \/ Covered(r)'
      BY <1>1, <2>1, <2>2, <2>3
    <3>2. mark' # None => /\ mark # None /\ mark' \in InstallMarkers
                          /\ mark'.state = mark.state /\ mark'.appPre = mark.appPre
                          /\ \A r : Covered(r) => Covered(r)'
                          /\ \A r \in disk' : r \in disk \/ Covered(r)'
                          /\ Head(Queue) = "recordSkill" => Covered("skill")'
                          /\ Head(Queue) = "testAppData" => run'.absent \/ foreign # "no"
                          /\ Head(Queue) = "recordAppData" => Covered("appData")'
                          /\ Head(Queue) = "recordLauncher" => Covered("launcher")'
      BY <1>1, <2>2, <2>3, <2>4, <3>1
    <3> QED
      BY <1>1, <1>9, <2>4, <2>5, <2>6, <3>2, FreshGoesOn DEF Steady
  <2>8. KeptFits'
    BY <1>1, <1>9, FreshHas DEF KeptFits
  <2>9. UpgradeFits'
    BY <1>1, <1>9, ModeFits DEF Taken
  <2> QED
    BY <1>3, <1>5, <1>6, <1>7, <1>8, <2>7, <2>8, <2>9
<1>10. CASE run.mode = "upgrade"
  <2>1. UpgradeFits'
    <3>1. manifest' # None
      BY <1>1, <1>10 DEF UpgradeFits
    <3>2. Head(Queue) \notin {"prepare", "installPlugin", "done", "finalize"} /\ (Head(Queue) = "provision" => "appData" \in disk')
      BY <1>1
    <3> QED
      BY <1>1, <1>4, <1>10, <3>1, <3>2, UpgradeGoesOn
  <2>2. KeptFits'
    BY <1>1, <1>4, <1>10, UpgradeHas, KeptStays
  <2>3. FreshFits'
    BY <1>1, <1>10, ModeFits DEF Taken
  <2> QED
    BY <1>3, <1>5, <1>6, <1>7, <1>8, <2>1, <2>2, <2>3
<1> QED
  BY <1>2, <1>9, <1>10

LEMMA PrepareFits ==
  ASSUME OwnershipFits, PrepareRollover
  PROVE  OwnershipFits'
<1> USE DEF OwnershipFits
<1>1. /\ Queue # <<>> /\ Taken /\ Steady /\ Head(Queue) = "prepare" /\ Retirable(manifest)
      /\ backups' = backups \cup {plugin[manifest]}
      /\ tx' = [slot |-> manifest, old |-> plugin[manifest], expected |-> release, outdated |-> outdated]
      /\ disk' = disk \cup {"appData"}
      /\ UNCHANGED <<mark, manifest, outdated, plugin, active, release, owned, foreign, crashes, failures>>
  BY DueIs, RunTakes DEF PrepareRollover, Proven, Due, Queue
<1>2. Queue \in Seq(InstallSteps) /\ run.todo = <<>> /\ run.mode = "upgrade" /\ UpgradeList(Queue)
  BY <1>1, RunStepIs DEF Doing, FreshNames
<1>3. /\ RunFits' /\ Queue' = Tail(Queue)
      /\ \A a : Has(Queue', a) => Has(Queue, a)
      /\ \A a : Has(Queue, a) => Head(Queue) = a \/ Has(Queue', a)
  BY <1>1, <1>2, TakenFits DEF EndOf
<1>4. Has(Queue, "installPlugin") /\ Has(Queue', "installPlugin")
  BY <1>1, <1>2, <1>3, UpgradeHead
<1>5. /\ owned \notin {None, release} /\ Candidates = {manifest} /\ active = manifest
      /\ manifest \in Slots /\ "state" \in disk /\ HasPrior
  BY <1>2, <1>4, UpgradeHas
<1>6. plugin[manifest] \in Payloads
  BY <1>5, SlotTypes
<1>7. tx' \in Transactions /\ tx'.slot = manifest /\ tx'.expected = release
  BY <1>1, <1>5, <1>6 DEF Transactions, OwnershipTypes
<1>8. OwnershipTypes'
  BY <1>1, <1>6, <1>7 DEF OwnershipTypes, Taken, Roots
<1>9. Candidates' = Candidates /\ manifest # None
  BY <1>1, <1>5, SlotTypes DEF Candidates
<1>10. UpgradeFits'
  <2>1. /\ owned' \notin {None, release'} /\ Candidates' = {manifest'} /\ active' = manifest'
        /\ plugin'[manifest'] \in backups' /\ Retirable(manifest)'
    BY <1>1, <1>5, <1>9 DEF Retirable, Managed, Current
  <2>2. "appData" \in disk' /\ manifest' # None /\ Remains("installPlugin")'
    BY <1>1, <1>4, <1>9, RemainsNext
  <2>3. tx' \in Transactions /\ tx'.slot = manifest' /\ tx'.expected = release'
    BY <1>1, <1>7
  <2>4. Direct \in Candidates' => active' = Direct
    BY <1>1, <1>5, <1>9
  <2> QED
    BY ONLY <2>1, <2>2, <2>3, <2>4 DEF UpgradeFits
<1>11. SlotsFit'
  <2>1. Unfinished <=> Unfinished'
    BY <1>1 DEF Unfinished
  <2> QED
    BY <1>1, <1>5, <1>9, <2>1 DEF SlotsFit
<1>12. ForeignFits'
  <2>1. mark' = None \/ (mark # None /\ mark'.created = mark.created)
    BY <1>1
  <2> QED
    BY <1>1, <1>3, <2>1, ForeignStays DEF Taken, Steady
<1>13. FreshFits' /\ UndoFits' /\ RecoverFits' /\ PlanFits'
  BY <1>1, <1>2, ModeFits DEF Taken
<1>14. KeptFits'
  BY <1>1, <1>5, KeptStays
<1> QED
  BY <1>3, <1>8, <1>10, <1>11, <1>12, <1>13, <1>14

LEMMA InstallFits ==
  ASSUME OwnershipFits, InstallPlugin
  PROVE  OwnershipFits'
<1> USE DEF OwnershipFits
<1>1. /\ Queue # <<>> /\ Head(Queue) = "installPlugin"
      /\ UNCHANGED <<disk, mark, manifest, outdated, backups, tx, release, owned, foreign, crashes, failures>>
  BY DueIs DEF InstallPlugin
<1>2. PICK slot \in Slots : \E keep \in BOOLEAN :
        /\ plugin[slot] = None \/ (slot = Direct /\ run.mode = "upgrade" /\ manifest = Direct)
        /\ plugin' = [s \in Slots |-> IF s = slot THEN release
                                      ELSE IF s = manifest /\ ~keep THEN None
                                      ELSE plugin[s]]
        /\ active' = slot
  BY DEF InstallPlugin
<1>3. PICK keep \in BOOLEAN :
        /\ plugin[slot] = None \/ (slot = Direct /\ run.mode = "upgrade" /\ manifest = Direct)
        /\ plugin' = [s \in Slots |-> IF s = slot THEN release
                                      ELSE IF s = manifest /\ ~keep THEN None
                                      ELSE plugin[s]]
        /\ active' = slot
  BY <1>2
<1>4. Taken /\ Steady /\ run'.plugged = (run.mode = "fresh")
  <2> DEFINE b == run.mode = "fresh"
  <2>1. b \in BOOLEAN
    OBVIOUS
  <2>2. run' = Plugging(run, b)
    BY DEF InstallPlugin, Plugging
  <2> HIDE DEF b
  <2>3. run \in InstallRuns /\ run.steps # <<>>
    BY <1>1, RunModes DEF Queue
  <2>4. Stepped(run, run') /\ run'.absent = run.absent /\ run'.missed = run.missed /\ run'.plugged = b
    BY ONLY <2>1, <2>2, <2>3, RunPlug
  <2> QED
    BY <2>4 DEF Stepped, Taken, Steady, b
<1>5. /\ Queue \in Seq(InstallSteps) /\ run.todo = <<>>
      /\ (run.mode = "fresh" /\ FreshList(Queue)) \/ (run.mode = "upgrade" /\ UpgradeList(Queue))
  BY <1>1, RunStepIs DEF Doing
<1>6. /\ RunFits' /\ Queue' = Tail(Queue)
      /\ \A a : Has(Queue', a) => Has(Queue, a)
      /\ \A a : Has(Queue, a) => Head(Queue) = a \/ Has(Queue', a)
  BY <1>1, <1>4, <1>5, TakenFits DEF EndOf
<1>7. /\ plugin'[slot] = release /\ active' = slot /\ slot # None /\ release \in Releases /\ release \in Payloads /\ release # None /\ release # 0
      /\ \A s \in Slots : s # slot => plugin'[s] = plugin[s] \/ (s = manifest /\ plugin'[s] = None)
  BY <1>3, SlotTypes, OwnershipAssumption DEF OwnershipTypes, Releases, Payloads
<1>8. OwnershipTypes'
  <2>1. plugin' \in [Slots -> Payloads \cup {None}]
    <3>1. \A s \in Slots : plugin[s] \in Payloads \cup {None}
      BY SlotTypes
    <3> QED
      BY ONLY <1>3, <1>7, <3>1
  <2> QED
    BY <1>1, <1>4, <1>7, <2>1 DEF OwnershipTypes, Taken
<1>9. ForeignFits'
  <2>1. mark' = None \/ (mark # None /\ mark'.created = mark.created)
    BY <1>1
  <2> QED
    BY <1>1, <1>4, <1>6, <2>1, ForeignStays DEF Taken, Steady
<1>10. UndoFits' /\ RecoverFits' /\ PlanFits'
  BY <1>4, <1>5, ModeFits DEF Taken
<1>11. CASE run.mode = "fresh"
  <2>1. Has(Queue, "installPlugin") /\ ~Has(Queue', "installPlugin") /\ Has(Queue, "create")
    BY <1>1, <1>5, <1>6, <1>11, FreshHead
  <2>2. owned = None /\ Candidates = {} /\ active = None /\ manifest = None
    BY <1>11, <2>1, FreshHas
  <2>3. \A s \in Slots : s # slot => plugin'[s] = None
    BY <1>7, <2>2, SlotTypes
  <2>4. Candidates' = {slot}
    BY <1>7, <2>3 DEF Candidates
  <2>5. FreshFits'
    <3>1. run'.plugged /\ Candidates' = {active'} /\ manifest' = None
      BY <1>1, <1>4, <1>7, <1>11, <2>2, <2>4
    <3>2. mark' # None => /\ mark # None /\ mark' \in InstallMarkers
                          /\ mark'.state = mark.state /\ mark'.appPre = mark.appPre
                          /\ \A r : Covered(r) => Covered(r)'
                          /\ \A r \in disk' : r \in disk \/ Covered(r)'
      BY <1>1, <1>4, <1>11, FreshHas DEF Covered, Recorded, Shared, Steady
    <3> QED
      BY <1>1, <1>4, <1>11, <2>1, <3>1, <3>2, FreshGoesOn DEF Steady
  <2>6. SlotsFit'
    <3>1. release = 1 /\ tx = None
      BY <2>2 DEF SlotsFit
    <3>2. \A s \in Projects : plugin'[s] = 0 => Candidates' = {s}
      BY <1>7, <2>3, NoneIs DEF Slots
    <3> QED
      BY <1>1, <1>7, <2>2, <2>4, <3>1, <3>2 DEF SlotsFit
  <2>7. KeptFits'
    BY <1>1, <2>2 DEF KeptFits
  <2>8. UpgradeFits'
    BY <1>4, <1>11, ModeFits DEF Taken
  <2> QED
    BY <1>6, <1>8, <1>9, <1>10, <2>5, <2>6, <2>7, <2>8
<1>12. CASE run.mode = "upgrade"
  <2>1. /\ Has(Queue, "installPlugin") /\ ~Has(Queue', "installPlugin") /\ Has(Queue, "finalize")
        /\ ~Has(Queue, "prepare")
    BY <1>1, <1>5, <1>6, <1>12, UpgradeHead
  <2>2. /\ owned \notin {None, release} /\ Candidates = {manifest} /\ active = manifest
        /\ plugin[manifest] \in backups /\ manifest \in Slots /\ HasPrior /\ Retirable(manifest)
        /\ tx \in Transactions /\ tx.slot = manifest /\ tx.expected = release
    BY <1>12, <2>1, UpgradeHas
  <2>3. Unfinished'
    BY <1>1, <1>7, <1>8, <2>2, SlotTypes DEF Unfinished
  <2>4. Candidates' \subseteq {manifest, slot}
    <3>1. \A s \in Slots : s # slot /\ s # manifest => plugin'[s] = None
      BY <1>7, <2>2, SlotTypes
    <3> QED
      BY <3>1 DEF Candidates
  <2>5. UpgradeFits'
    <3>1. manifest' # None /\ "appData" \in disk' /\ ~Remains("installPlugin")'
      BY <1>1, <2>1, <2>2, SlotTypes, RemainsNext DEF HasPrior
    <3>2. tx' \in Transactions /\ tx'.slot = manifest' /\ tx'.expected = release' /\ Candidates' \subseteq {tx'.slot, active'}
      BY <1>1, <1>7, <2>2, <2>4
    <3>3. Remains("finalize")'
      BY <1>1, <1>6, <2>1, RemainsNext
    <3> QED
      BY ONLY <2>3, <3>1, <3>2, <3>3 DEF UpgradeFits
  <2>6. SlotsFit'
    <3>1. active' \in Slots /\ plugin'[active'] # None /\ owned' # None /\ owned' # release' /\ manifest' # None
      BY <1>1, <1>7, <2>2, SlotTypes
    <3>2. \/ manifest' = active' /\ (Candidates' = {active'} \/ Unfinished')
          \/ Unfinished' /\ Candidates' \subseteq {manifest', active'}
      BY <1>1, <1>7, <2>3, <2>4
    <3>3. \E s \in Slots : Candidates' \subseteq {s, active'}
      BY <1>7, <2>2, <2>4
    <3>4. \A s \in Projects : plugin'[s] = 0 => Candidates' = {s}
      <4> SUFFICES ASSUME NEW s \in Projects, plugin'[s] = 0 PROVE FALSE
        OBVIOUS
      <4>1. s \in Slots /\ s # slot /\ 0 # None
        BY <1>7, NoneIs DEF Slots
      <4>2. plugin[s] = 0 /\ plugin[s] # None
        BY <1>7, <4>1
      <4>3. s = manifest
        BY <2>2, <4>1, <4>2, SlotTypes
      <4> QED
        BY <2>2, <4>2, <4>3, OwnershipAssumption DEF Retirable, Managed, Current
    <3> QED
      BY ONLY <3>1, <3>2, <3>3, <3>4 DEF SlotsFit
  <2>7. KeptFits'
    <3>1. owned \in backups \/ \E s \in Slots : plugin[s] = owned
      BY <2>2 DEF HasPrior
    <3>2. owned \in backups
      <4>1. ASSUME NEW s \in Slots, plugin[s] = owned PROVE owned \in backups
        <5>1. s = manifest
          BY <2>2, <4>1, SlotTypes
        <5> QED
          BY <2>2, <4>1, <5>1
      <4> QED
        BY <3>1, <4>1
    <3> QED
      BY <1>1, <2>2, <3>2 DEF KeptFits, HasPrior
  <2>8. FreshFits'
    BY <1>4, <1>12, ModeFits DEF Taken
  <2> QED
    BY <1>6, <1>8, <1>9, <1>10, <2>5, <2>6, <2>7, <2>8
<1> QED
  BY <1>5, <1>11, <1>12

LEMMA RecoverHas ==
  ASSUME OwnershipFits, run.mode = "recover"
  PROVE  /\ mark \in InstallMarkers /\ mark # None /\ mark.state = "committed" /\ "state" \in disk
         /\ tx \in Transactions /\ Unfinished /\ Candidates \subseteq {tx.slot, active}
         /\ manifest = IF Has(Queue, "restore") THEN None ELSE IF Has(Queue, "finalize") THEN tx.slot ELSE active
         /\ HasPrior
<1>1. /\ mark \in InstallMarkers /\ mark.state = "committed" /\ "state" \in disk
      /\ tx \in Transactions /\ Unfinished /\ Candidates \subseteq {tx.slot, active}
      /\ manifest = IF Has(Queue, "restore") THEN None ELSE IF Has(Queue, "finalize") THEN tx.slot ELSE active
  BY RemainsIs DEF OwnershipFits, RecoverFits
<1>2. mark # None /\ owned # None
  BY <1>1, NoneIs DEF Unfinished
<1>3. HasPrior
  BY <1>2, WorksOnKept DEF OwnershipFits
<1> QED
  BY <1>1, <1>2, <1>3

(* A binding is made in a fresh attempt, an upgrade or a recovery, and     *)
(* changes nothing but the bound slot.                                     *)
LEMMA BindIs ==
  ASSUME OwnershipFits, Bind
  PROVE  /\ Queue # <<>> /\ Taken /\ Steady /\ run'.plugged = run.plugged
         /\ \/ Head(Queue) = "finalize" /\ Proven /\ manifest' = active /\ outdated' = FALSE
            \/ Head(Queue) = "restore" /\ manifest' = tx.slot /\ outdated' = tx.outdated
            \/ Head(Queue) = "create" /\ Proven /\ manifest' \in Current /\ outdated' = FALSE
         /\ UNCHANGED <<disk, mark, plugin, active, backups, tx, release, owned, foreign, crashes, failures>>
         /\ Queue \in Seq(InstallSteps) /\ run.todo = <<>>
         /\ run.mode = "recover" => RecoverList(Queue) /\ Head(Queue) \in {"restore", "finalize"}
         /\ run.mode = "upgrade" => UpgradeList(Queue) /\ Head(Queue) \in {"finalize", "create"}
         /\ run.mode = "fresh" => FreshList(Queue) /\ Head(Queue) = "create"
         /\ run.mode \in {"recover", "upgrade", "fresh"}
         /\ RunFits' /\ Queue' = Tail(Queue)
         /\ \A a : Has(Queue', a) => Has(Queue, a)
         /\ \A a : Has(Queue, a) => Head(Queue) = a \/ Has(Queue', a)
         /\ ForeignFits' /\ UndoFits' /\ PlanFits'
<1> USE DEF OwnershipFits
<1>1. /\ Queue # <<>> /\ Taken /\ Steady /\ run'.plugged = run.plugged
      /\ \/ Head(Queue) = "finalize" /\ Proven /\ manifest' = active /\ outdated' = FALSE
         \/ Head(Queue) = "restore" /\ manifest' = tx.slot /\ outdated' = tx.outdated
         \/ Head(Queue) = "create" /\ Proven /\ manifest' \in Current /\ outdated' = FALSE
      /\ UNCHANGED <<disk, mark, plugin, active, backups, tx, release, owned, foreign, crashes, failures>>
  BY DueIs, RunTakes DEF Bind
<1>2. /\ Queue \in Seq(InstallSteps) /\ run.todo = <<>>
      /\ run.mode = "recover" => RecoverList(Queue) /\ Head(Queue) \in {"restore", "finalize"}
      /\ run.mode = "upgrade" => UpgradeList(Queue) /\ Head(Queue) \in {"finalize", "create"}
      /\ run.mode = "fresh" => FreshList(Queue) /\ Head(Queue) = "create"
      /\ run.mode \in {"recover", "upgrade", "fresh"}
  BY <1>1, RunStepIs DEF Doing, FreshNames, UpgradeNames
<1>3. /\ RunFits' /\ Queue' = Tail(Queue)
      /\ \A a : Has(Queue', a) => Has(Queue, a)
      /\ \A a : Has(Queue, a) => Head(Queue) = a \/ Has(Queue', a)
  BY <1>1, <1>2, TakenFits DEF EndOf
<1>4. ForeignFits'
  <2>1. mark' = None \/ (mark # None /\ mark'.created = mark.created)
    BY <1>1
  <2> QED
    BY <1>1, <1>3, <2>1, ForeignStays DEF Taken, Steady
<1>5. UndoFits' /\ PlanFits'
  BY <1>1, <1>2, ModeFits DEF Taken
<1> QED
  BY <1>1, <1>2, <1>3, <1>4, <1>5

LEMMA ReleaseIs == OwnershipTypes => release \in Payloads /\ release # 0 /\ release # None
  BY NoneIs DEF OwnershipTypes, Releases, Payloads

(* The replacement is bound while the upgrade to it is unfinished.         *)
LEMMA RebindsUnfinished ==
  ASSUME OwnershipFits, Unfinished, tx \in Transactions, Candidates \subseteq {tx.slot, active},
         UNCHANGED <<plugin, active, tx, release, owned>>, manifest' = tx.slot \/ manifest' = active \/ manifest' = None
  PROVE  SlotsFit' /\ Unfinished' /\ Candidates' = Candidates
<1>1. Unfinished' /\ Candidates' = Candidates
  BY DEF Unfinished, Candidates
<1>2. active' \in Slots /\ plugin'[active'] # None /\ owned' # None /\ owned' # release'
  <2>1. release # None /\ plugin[active] = release /\ active \in Slots /\ owned # None /\ owned # release
    BY ReleaseIs DEF OwnershipFits, Unfinished
  <2> QED
    BY <2>1
<1>3. manifest' # None => \/ manifest' = active' /\ (Candidates' = {active'} \/ Unfinished')
                          \/ Unfinished' /\ Candidates' \subseteq {manifest', active'}
  BY <1>1
<1>4. manifest' = None /\ tx' # None => Unfinished' /\ Candidates' \subseteq {tx'.slot, active'}
  BY <1>1
<1>5. \E s \in Slots : Candidates' \subseteq {s, active'}
  BY <1>1 DEF Transactions
<1>6. \A s \in Projects : plugin'[s] = 0 => Candidates' = {s}
  BY <1>1 DEF OwnershipFits, SlotsFit
<1> QED
  BY ONLY <1>1, <1>2, <1>3, <1>4, <1>5, <1>6 DEF SlotsFit

LEMMA BindFits ==
  ASSUME OwnershipFits, Bind
  PROVE  OwnershipFits'
<1> USE DEF OwnershipFits
<1>1. /\ Queue # <<>> /\ Taken /\ Steady /\ run'.plugged = run.plugged
      /\ \/ Head(Queue) = "finalize" /\ Proven /\ manifest' = active /\ outdated' = FALSE
         \/ Head(Queue) = "restore" /\ manifest' = tx.slot /\ outdated' = tx.outdated
         \/ Head(Queue) = "create" /\ Proven /\ manifest' \in Current /\ outdated' = FALSE
      /\ UNCHANGED <<disk, mark, plugin, active, backups, tx, release, owned, foreign, crashes, failures>>
      /\ Queue \in Seq(InstallSteps) /\ run.todo = <<>>
  BY BindIs
<1>2. /\ run.mode = "recover" => RecoverList(Queue) /\ Head(Queue) \in {"restore", "finalize"}
      /\ run.mode = "upgrade" => UpgradeList(Queue) /\ Head(Queue) \in {"finalize", "create"}
      /\ run.mode = "fresh" => FreshList(Queue) /\ Head(Queue) = "create"
      /\ run.mode \in {"recover", "upgrade", "fresh"}
  BY BindIs
<1>3. /\ RunFits' /\ Queue' = Tail(Queue) /\ ForeignFits' /\ UndoFits' /\ PlanFits'
      /\ \A a : Has(Queue', a) => Has(Queue, a)
      /\ \A a : Has(Queue, a) => Head(Queue) = a \/ Has(Queue', a)
  BY BindIs
<1>4. ASSUME manifest' \in Slots, "state" \in disk, outdated' \in BOOLEAN PROVE OwnershipTypes'
  BY <1>1, <1>4 DEF OwnershipTypes, Taken
<1>5. Candidates' = Candidates /\ Current \subseteq Candidates
  BY <1>1 DEF Candidates, Current
<1>6. CASE run.mode = "recover"
  <2>1. /\ mark \in InstallMarkers /\ mark.state = "committed" /\ "state" \in disk
        /\ tx \in Transactions /\ Unfinished /\ Candidates \subseteq {tx.slot, active} /\ HasPrior
    BY <1>6, RecoverHas
  <2>2. /\ Head(Queue) = "restore" => manifest' = tx.slot /\ ~Has(Queue', "restore") /\ Has(Queue', "finalize")
        /\ Head(Queue) = "finalize" => manifest' = active /\ ~Has(Queue', "restore") /\ ~Has(Queue', "finalize")
        /\ Head(Queue) \in {"restore", "finalize"}
    BY <1>1, <1>2, <1>3, <1>6, RecoverHead
  <2>3. SlotsFit' /\ Unfinished'
    BY <1>1, <2>1, <2>2, RebindsUnfinished
  <2>4. manifest' \in Slots /\ outdated' \in BOOLEAN
    BY <1>1, <2>1, <2>2 DEF Unfinished, Transactions
  <2>5. RecoverFits'
    <3>1. manifest' = IF Remains("restore")' THEN None ELSE IF Remains("finalize")' THEN tx'.slot ELSE active'
      BY <1>1, <2>2, RemainsNext
    <3>2. /\ mark' \in InstallMarkers /\ mark'.state = "committed" /\ "state" \in disk'
          /\ tx' \in Transactions /\ Candidates' \subseteq {tx'.slot, active'}
      BY <1>1, <1>5, <2>1
    <3> QED
      BY ONLY <2>3, <3>1, <3>2 DEF RecoverFits
  <2>6. KeptFits'
    BY <1>1, <2>1, KeptStays
  <2>7. FreshFits' /\ UpgradeFits'
    BY <1>1, <1>6, ModeFits DEF Taken
  <2> QED
    BY <1>3, <1>4, <2>1, <2>3, <2>4, <2>5, <2>6, <2>7
<1>7. CASE run.mode = "upgrade"
  <2>1. manifest \in Slots /\ "state" \in disk /\ (owned # None => HasPrior) /\ outdated' \in BOOLEAN
    BY <1>1, <1>2, <1>7, UpgradeHas
  <2>2. SlotsFit' /\ manifest' \in Slots
    <3>1. CASE Head(Queue) = "finalize"
      <4>1. Has(Queue, "confirm") /\ ~Has(Queue, "installPlugin")
        BY <1>1, <1>2, <1>7, <3>1, UpgradeHead
      <4>2. tx \in Transactions /\ Unfinished /\ Candidates \subseteq {tx.slot, active}
        BY <1>7, <4>1, UpgradeHas
      <4> QED
        BY <1>1, <3>1, <4>2, RebindsUnfinished DEF Unfinished
    <3>2. CASE Head(Queue) = "create"
      <4>1. PICK s \in Slots : Current = {s} /\ plugin[s] = release
        BY <1>1, <3>2 DEF Proven, Due, Queue
      <4>2. manifest' = s /\ s \in Candidates /\ s # None
        BY <1>1, <1>5, <3>2, <4>1, SlotTypes
      <4>3. \A p \in Projects : plugin'[p] = 0 => Candidates' = {p}
        BY <1>1, <1>5 DEF SlotsFit
      <4>4. CASE owned = None
        BY <1>1, <1>5, <4>2, <4>3, <4>4 DEF SlotsFit
      <4>5. CASE owned # None
        <5>1. /\ active \in Slots /\ plugin[active] # None
              /\ \/ manifest = active /\ (Candidates = {active} \/ Unfinished)
                 \/ Unfinished /\ Candidates \subseteq {manifest, active}
              /\ owned = release => plugin[manifest] = release
              /\ \E p \in Slots : Candidates \subseteq {p, active}
          BY <2>1, <4>5, SlotTypes DEF SlotsFit
        <5>2. active = s /\ (Candidates = {active} \/ Unfinished)
          <6>1. CASE Unfinished
            <7>1. active \in Current
              BY <5>1, <6>1, ReleaseIs DEF Current, Candidates, Unfinished
            <7> QED
              BY <4>1, <6>1, <7>1
          <6>2. CASE ~Unfinished
            BY <4>2, <5>1, <6>2
          <6> QED
            BY <6>1, <6>2
        <5>3. Unfinished' <=> Unfinished
          BY <1>1 DEF Unfinished
        <5>4. /\ active' \in Slots /\ plugin'[active'] # None /\ owned' # None /\ manifest' # None
              /\ manifest' = active' /\ (Candidates' = {active'} \/ Unfinished') /\ plugin'[manifest'] = release'
              /\ \E p \in Slots : Candidates' \subseteq {p, active'}
          BY <1>1, <1>5, <4>1, <4>2, <4>5, <5>1, <5>2, <5>3
        <5> QED
          BY ONLY <4>3, <5>4 DEF SlotsFit
      <4> QED
        BY <4>2, <4>4, <4>5
    <3> QED
      BY <1>2, <1>7, <3>1, <3>2
  <2>3. UpgradeFits'
    <3>1. manifest' # None /\ Head(Queue) \in {"finalize", "create"}
      BY <1>2, <1>7, <2>2, SlotTypes
    <3>2. Head(Queue) = "finalize" => (Direct \in Candidates => active = Direct)
      <4> SUFFICES ASSUME Head(Queue) = "finalize", Direct \in Candidates PROVE active = Direct
        OBVIOUS
      <4>1. Proven
        BY <1>1
      <4>2. tx.slot = Direct => active = Direct
        BY <4>1 DEF Proven, Due, Queue
      <4>3. Has(Queue, "confirm") /\ ~Has(Queue, "installPlugin")
        BY <1>1, <1>2, <1>7, UpgradeHead
      <4>4. Candidates \subseteq {tx.slot, active}
        BY <1>7, <4>3, UpgradeHas
      <4> QED
        BY <4>2, <4>4
    <3> QED
      BY <1>1, <1>7, <3>1, <3>2, UpgradeGoesOn
  <2>4. KeptFits'
    BY <1>1, <2>1, KeptStays
  <2>5. FreshFits' /\ RecoverFits'
    BY <1>1, <1>7, ModeFits DEF Taken
  <2> QED
    BY <1>3, <1>4, <2>1, <2>2, <2>3, <2>4, <2>5
<1>8. CASE run.mode = "fresh"
  <2>1. Head(Queue) = "create" /\ ~Has(Queue, "installPlugin") /\ ~Has(Queue', "create") /\ ~Has(Queue, "begin")
    BY <1>1, <1>2, <1>3, <1>8, FreshHead
  <2>2. owned = None /\ run.plugged /\ Candidates = {active} /\ "state" \in disk
    BY <1>8, <2>1, FreshHas
  <2>3. manifest' \in Slots /\ outdated' \in BOOLEAN
    BY <1>1, <1>5, <2>1, SlotTypes
  <2>4. FreshFits'
    <3>1. ~Has(Queue', "installPlugin") /\ run'.plugged /\ Candidates' = {active'}
      BY <1>1, <1>3, <1>5, <2>1, <2>2
    <3>2. mark' # None => /\ mark # None /\ mark' \in InstallMarkers
                          /\ mark'.state = mark.state /\ mark'.appPre = mark.appPre
                          /\ \A r : Covered(r) => Covered(r)'
                          /\ \A r \in disk' : r \in disk \/ Covered(r)'
      BY <1>1, <1>8, FreshHas DEF Covered, Recorded, Shared, Steady
    <3> QED
      BY <1>1, <1>8, <2>1, <3>1, <3>2, FreshGoesOn DEF Steady
  <2>5. SlotsFit'
    BY <1>1, <1>5, <2>2 DEF SlotsFit
  <2>6. KeptFits'
    BY <1>1, <2>2 DEF KeptFits
  <2>7. UpgradeFits' /\ RecoverFits'
    BY <1>1, <1>8, ModeFits DEF Taken
  <2> QED
    BY <1>3, <1>4, <2>2, <2>3, <2>4, <2>5, <2>6, <2>7
<1> QED
  BY <1>2, <1>6, <1>7, <1>8

(* What a write that stops in the middle leaves: only a fresh attempt has  *)
(* such a write.                                                           *)
LEMMA TornIs ==
  ASSUME OwnershipTypes, RunFits, NEW torn \in BOOLEAN, Torn(torn)
  PROVE  /\ mark' = mark \/ mark' = None
         /\ disk \subseteq disk' /\ disk' \subseteq disk \cup {"state"}
         /\ mark' # mark \/ disk' # disk => torn
         /\ torn => Queue # <<>> /\ run.mode = "fresh"
<1>1. torn => Queue # <<>> /\ run.mode = "fresh"
  <2> SUFFICES ASSUME torn PROVE Queue # <<>> /\ run.mode = "fresh"
    OBVIOUS
  <2>1. Queue # <<>> /\ Head(Queue) \in {"begin", "recordSkill", "recordState", "recordAppData", "recordLauncher", "commit"}
    BY DueIs DEF Torn, Writing
  <2> QED
    BY <2>1, RunStepIs DEF Doing, UpgradeNames
<1> QED
  BY <1>1 DEF Torn

(* A run that just ends leaves what does not depend on a run.              *)
LEMMA EndsFit ==
  ASSUME OwnershipFits, run' = Idle,
         UNCHANGED <<manifest, outdated, plugin, active, backups, tx, release, owned, foreign>>,
         mark' = mark \/ mark' = None, disk \subseteq disk', disk' \subseteq disk \cup {"state"},
         crashes' \in 0..MaxCrashes, failures' \in 0..MaxFailures
  PROVE  OwnershipFits'
<1> USE DEF OwnershipFits
<1>1. /\ run' \in InstallRuns /\ run'.mode = "none" /\ run'.todo = <<>> /\ ~run'.absent
      /\ RunFits' /\ FreshFits' /\ UndoFits' /\ UpgradeFits' /\ RecoverFits' /\ PlanFits'
  BY IdleFits
<1>2. OwnershipTypes'
  BY <1>1 DEF OwnershipTypes, Roots
<1>3. ForeignFits'
  <2>1. mark' = None \/ (mark # None /\ mark'.created = mark.created)
    OBVIOUS
  <2> QED
    BY <1>1, <2>1, ForeignStays
<1>4. SlotsFit'
  BY SlotsStay
<1>5. KeptFits'
  BY <1>1, LostStays
<1> QED
  BY <1>1, <1>2, <1>3, <1>4, <1>5

LEMMA CountsAre == OwnershipTypes => crashes \in 0..MaxCrashes /\ failures \in 0..MaxFailures
  BY DEF OwnershipTypes

LEMMA ConfirmFits ==
  ASSUME OwnershipFits, Confirm
  PROVE  OwnershipFits'
<1> USE DEF OwnershipFits
<1>1. /\ Queue # <<>> /\ Head(Queue) = "confirm"
      /\ run' = IF run.mode = "recover" THEN Idle ELSE [run EXCEPT !.steps = Tail(@)]
      /\ UNCHANGED <<disk, mark, manifest, outdated, plugin, active, backups, tx, release, owned, foreign, crashes, failures>>
  BY DueIs DEF Confirm
<1>2. Queue \in Seq(InstallSteps) /\ run.todo = <<>> /\ run.mode \in {"upgrade", "recover"}
  BY <1>1, RunStepIs DEF Doing, FreshNames
<1>3. CASE run.mode = "recover"
  BY <1>1, <1>3, EndsFit, CountsAre
<1>4. CASE run.mode = "upgrade"
  <2>1. Taken /\ Steady
    BY <1>1, <1>4, RunTakes DEF Proceed
  <2>2. RunFits' /\ \A a : Has(Queue', a) => Has(Queue, a)
    BY <1>1, <1>4, <2>1, TakenFits DEF EndOf
  <2>3. OwnershipTypes'
    BY <1>1, <2>1 DEF OwnershipTypes, Taken
  <2>4. ForeignFits'
    <3>1. mark' = None \/ (mark # None /\ mark'.created = mark.created)
      BY <1>1
    <3> QED
      BY <1>1, <2>1, <2>2, <3>1, ForeignStays DEF Taken, Steady
  <2>5. SlotsFit'
    BY <1>1, SlotsStay
  <2>6. UpgradeFits'
    <3>1. manifest' # None
      BY <1>1, <1>4 DEF UpgradeFits
    <3> QED
      BY <1>1, <1>4, <2>1, <3>1, UpgradeGoesOn
  <2>7. KeptFits'
    BY <1>1, <1>4, UpgradeHas, KeptStays
  <2>8. FreshFits' /\ UndoFits' /\ RecoverFits' /\ PlanFits'
    BY <1>4, <2>1, ModeFits DEF Taken
  <2> QED
    BY <2>2, <2>3, <2>4, <2>5, <2>6, <2>7, <2>8
<1> QED
  BY <1>2, <1>3, <1>4

LEMMA CompleteFits ==
  ASSUME OwnershipFits, Complete
  PROVE  OwnershipFits'
<1> USE DEF OwnershipFits
<1>1. /\ Queue # <<>> /\ Head(Queue) \in {"commit", "done"} /\ Current = {manifest}
      /\ mark' = IF Head(Queue) = "commit" /\ mark # None THEN [mark EXCEPT !.state = "committed"] ELSE mark
      /\ owned' = plugin[manifest] /\ run' = Idle
      /\ UNCHANGED <<disk, manifest, outdated, plugin, active, backups, tx, release, foreign, crashes, failures>>
  BY DueIs DEF Complete, Proven, Verified, Due, Queue
<1>2. /\ Queue \in Seq(InstallSteps)
      /\ \/ run.mode = "fresh" /\ FreshList(Queue) /\ Head(Queue) = "commit"
         \/ run.mode = "upgrade" /\ UpgradeList(Queue) /\ Head(Queue) = "done"
  BY <1>1, RunStepIs DEF Doing, FreshNames, UpgradeNames
<1>3. /\ manifest \in Slots /\ manifest # None /\ plugin[manifest] \in Payloads /\ plugin[manifest] # None
      /\ manifest \in Candidates
  BY <1>1, SlotTypes DEF Current
<1>4. /\ run' \in InstallRuns /\ run'.mode = "none" /\ run'.todo = <<>> /\ ~run'.absent
      /\ RunFits' /\ FreshFits' /\ UndoFits' /\ UpgradeFits' /\ RecoverFits' /\ PlanFits'
  BY <1>1, IdleFits
<1>5. /\ "appData" \in disk
      /\ mark' = mark \/ (mark # None /\ mark' \in InstallMarkers /\ mark'.created = mark.created /\ "state" \in disk)
  <2>1. CASE run.mode = "fresh"
    <3>1. ~Has(Queue, "provision") /\ ~Has(Queue, "begin")
      BY <1>1, <1>2, <2>1, FreshHead
    <3>2. "state" \in disk /\ "appData" \in disk /\ (mark # None => mark \in InstallMarkers)
      BY <2>1, <3>1, FreshHas
    <3>3. mark # None => /\ [mark EXCEPT !.state = "committed"] \in InstallMarkers
                         /\ [mark EXCEPT !.state = "committed"].created = mark.created
      BY <3>2 DEF InstallMarkers
    <3> QED
      BY <1>1, <1>2, <2>1, <3>2, <3>3
  <2>2. CASE run.mode = "upgrade"
    <3>1. ~Has(Queue, "provision")
      BY <1>1, <1>2, <2>2, UpgradeHead
    <3> QED
      BY <1>1, <1>2, <2>2, <3>1, UpgradeHas
  <2> QED
    BY <1>2, <2>1, <2>2
<1>6. OwnershipTypes'
  BY <1>1, <1>3, <1>4, <1>5 DEF OwnershipTypes
<1>7. ForeignFits'
  <2>1. mark' = None \/ (mark # None /\ mark'.created = mark.created)
    BY <1>5
  <2> QED
    BY <1>1, <1>4, <2>1, ForeignStays
<1>8. SlotsFit'
  <2>1. active = manifest /\ Candidates = {active} /\ active \in Slots
    <3>1. CASE owned = None
      BY <1>3, <3>1 DEF SlotsFit
    <3>2. CASE owned # None
      <4>1. /\ active \in Slots /\ plugin[active] # None
            /\ \/ manifest = active /\ (Candidates = {active} \/ Unfinished)
               \/ Unfinished /\ Candidates \subseteq {manifest, active}
        BY <1>3, <3>2 DEF SlotsFit
      <4>2. active = manifest
        <5>1. Unfinished => active \in Current
          BY <4>1, ReleaseIs DEF Current, Candidates, Unfinished
        <5> QED
          BY <1>1, <4>1, <5>1
      <4>3. Candidates = {active}
        <5> SUFFICES ASSUME NEW s \in Candidates, s # active PROVE FALSE
          BY <1>3, <4>2
        <5>1. s \in Slots /\ plugin[s] = 0
          BY <1>1, <4>2 DEF Current, Candidates
        <5>2. run.mode = "upgrade" /\ ~Has(Queue, "finalize")
          BY <1>1, <1>2, <3>2, FreshHas, UpgradeHead
        <5>3. Direct \in Candidates => active = Direct
          BY <5>2, UpgradeHas
        <5>4. s \in Projects
          BY <5>1, <5>3 DEF Slots
        <5>5. Candidates = {s}
          BY <5>1, <5>4 DEF SlotsFit
        <5> QED
          BY <1>3, <4>2, <5>5
      <4> QED
        BY <4>1, <4>2, <4>3
    <3> QED
      BY <3>1, <3>2
  <2>2. Candidates' = {active'} /\ active' = manifest' /\ manifest' \in Slots /\ manifest' # None
    BY <1>1, <1>3, <2>1 DEF Candidates
  <2>3. owned' = plugin'[manifest'] /\ owned' # None
    BY <1>1, <1>3
  <2>4. \A s \in Projects : plugin'[s] = 0 => Candidates' = {s}
    BY <1>1, <2>1, <2>2 DEF SlotsFit
  <2> QED
    BY ONLY <2>2, <2>3, <2>4 DEF SlotsFit
<1>9. KeptFits'
  BY <1>1, <1>3, <1>5 DEF KeptFits, HasPrior
<1> QED
  BY <1>4, <1>6, <1>7, <1>8, <1>9

LEMMA RetireFits ==
  ASSUME OwnershipFits, Retire
  PROVE  OwnershipFits'
<1> USE DEF OwnershipFits
<1>1. /\ Queue # <<>> /\ Head(Queue) = "retire"
      /\ Candidates = {manifest, active} /\ manifest # active /\ plugin[active] = release
      /\ Managed(manifest) /\ Managed(active)
      /\ backups' = backups \cup {plugin[manifest]}
      /\ plugin' = [plugin EXCEPT ![manifest] = None]
      /\ run' = [run EXCEPT !.steps = Tail(@), !.old = plugin[manifest]]
      /\ UNCHANGED <<disk, mark, manifest, outdated, active, tx, release, owned, foreign, crashes, failures>>
  BY DueIs DEF Retire, Proven, ExactRollover, Attested, Due, Queue
<1>2. /\ Queue \in Seq(InstallSteps) /\ run.mode = "plan" /\ PlanList(Queue)
  BY <1>1, RunStepIs DEF Doing, FreshNames, UpgradeNames
<1>3. manifest \in Slots /\ active \in Slots /\ plugin[manifest] \in Payloads /\ plugin[active] # None /\ manifest # None
  BY <1>1, SlotTypes
<1>4. Taken /\ Steady /\ run'.old = plugin[manifest]
  <2> DEFINE o == plugin[manifest]
  <2>1. run' = Retiring(run, o) /\ o \in Payloads
    BY <1>1, <1>3 DEF Retiring
  <2> HIDE DEF o
  <2>2. run \in InstallRuns /\ run.steps # <<>>
    BY <1>1, RunModes DEF Queue
  <2>3. Stepped(run, run') /\ run'.absent = run.absent /\ run'.missed = run.missed /\ run'.old = o
    BY ONLY <2>1, <2>2, RunKeepOld
  <2> QED
    BY <2>3 DEF Stepped, Taken, Steady, o
<1>5. RunFits' /\ Queue' = Tail(Queue) /\ \A a : Has(Queue', a) => Has(Queue, a)
  BY <1>1, <1>2, <1>4, TakenFits DEF EndOf
<1>6. /\ plugin' \in [Slots -> Payloads \cup {None}] /\ plugin'[manifest] = None
      /\ \A s \in Slots : s # manifest => plugin'[s] = plugin[s]
  BY <1>1, <1>3 DEF OwnershipTypes
<1>7. OwnershipTypes'
  BY <1>1, <1>3, <1>4, <1>6 DEF OwnershipTypes, Taken
<1>8. ForeignFits'
  <2>1. mark' = None \/ (mark # None /\ mark'.created = mark.created)
    BY <1>1
  <2> QED
    BY <1>1, <1>4, <1>5, <2>1, ForeignStays DEF Taken, Steady
<1>9. owned # None
  BY <1>2 DEF PlanFits
<1>10. Unfinished
  BY <1>1, <1>3, <1>9 DEF SlotsFit
<1>11. SlotsFit'
  <2>1. Unfinished' /\ plugin'[active'] # None
    BY <1>1, <1>3, <1>6, <1>10 DEF Unfinished
  <2>2. Candidates' \subseteq {manifest', active'}
    BY <1>1, <1>6 DEF Candidates
  <2>3. manifest' # None /\ manifest' \in Slots /\ active' \in Slots /\ owned' # release'
    BY <1>1, <1>3, <1>10 DEF Unfinished
  <2>4. \A s \in Projects : plugin'[s] = 0 => Candidates' = {s}
    <3> SUFFICES ASSUME NEW s \in Projects, plugin'[s] = 0 PROVE FALSE
      OBVIOUS
    <3>1. s \in Slots /\ s # manifest /\ plugin[s] = 0 /\ plugin[s] # None
      BY <1>6, OwnershipAssumption DEF Slots
    <3>2. s = active
      BY <1>1, <3>1, SlotTypes
    <3> QED
      BY <1>1, <3>1, <3>2, ReleaseIs
  <2> QED
    BY ONLY <1>1, <1>9, <2>1, <2>2, <2>3, <2>4 DEF SlotsFit
<1>12. PlanFits'
  <2>1. plugin[manifest] \in Releases
    BY <1>1, <1>3, OwnershipAssumption DEF Managed, Current, Payloads, Releases
  <2>2. plugin'[manifest'] = None /\ run'.old \in Releases /\ manifest' \in Slots /\ manifest' # active' /\ owned' # None
    BY <1>1, <1>3, <1>4, <1>6, <1>9, <2>1
  <2> QED
    BY ONLY <2>2 DEF PlanFits
<1>13. KeptFits'
  <2>1. HasPrior
    BY <1>3, <1>9, WorksOnKept
  <2>2. owned \in backups' \/ \E s \in Slots : plugin'[s] = owned
    BY <1>1, <1>6, <2>1 DEF HasPrior
  <2> QED
    BY <1>1, <2>1, <2>2 DEF KeptFits, HasPrior
<1>14. FreshFits' /\ UndoFits' /\ UpgradeFits' /\ RecoverFits'
  BY <1>2, <1>4, ModeFits DEF Taken
<1> QED
  BY <1>5, <1>7, <1>8, <1>11, <1>12, <1>13, <1>14

LEMMA ApplyFits ==
  ASSUME OwnershipFits, Apply
  PROVE  OwnershipFits'
<1> USE DEF OwnershipFits
<1>1. /\ Queue # <<>> /\ Head(Queue) = "apply" /\ manifest' = active /\ run' = Idle
      /\ UNCHANGED <<disk, mark, outdated, plugin, active, backups, tx, release, owned, foreign, crashes, failures>>
  BY DueIs DEF Apply, Proven, Verified, Due, Queue
<1>2. run.mode = "plan" /\ ~Has(Queue, "retire")
  BY <1>1, RunStepIs, PlanHead DEF Doing, FreshNames, UpgradeNames
<1>3. manifest \in Slots /\ manifest # active /\ owned # None /\ manifest # None /\ plugin[manifest] = None
  BY <1>2, RemainsIs, SlotTypes DEF PlanFits
<1>4. active \in Slots /\ plugin[active] # None /\ Unfinished /\ Candidates \subseteq {manifest, active}
  BY <1>3 DEF SlotsFit
<1>10. Candidates = {active}
  <2>1. manifest \notin Candidates /\ active \in Candidates
    BY <1>3, <1>4 DEF Candidates
  <2> QED
    BY <1>4, <2>1
<1>5. /\ run' \in InstallRuns /\ run'.mode = "none" /\ run'.todo = <<>> /\ ~run'.absent
      /\ RunFits' /\ FreshFits' /\ UndoFits' /\ UpgradeFits' /\ RecoverFits' /\ PlanFits'
  BY <1>1, IdleFits
<1>6. OwnershipTypes'
  BY <1>1, <1>3, <1>4, <1>5 DEF OwnershipTypes
<1>7. ForeignFits'
  <2>1. mark' = None \/ (mark # None /\ mark'.created = mark.created)
    BY <1>1
  <2> QED
    BY <1>1, <1>5, <2>1, ForeignStays
<1>8. SlotsFit'
  <2>1. /\ active' \in Slots /\ plugin'[active'] # None /\ manifest' # None /\ manifest' = active'
        /\ Candidates' = {active'} /\ owned' # release' /\ owned' # None
    BY <1>1, <1>3, <1>4, <1>10, SlotTypes DEF Candidates, Unfinished
  <2>2. \A s \in Projects : plugin'[s] = 0 => Candidates' = {s}
    BY <1>1, <1>10, <2>1 DEF SlotsFit
  <2> QED
    BY ONLY <2>1, <2>2 DEF SlotsFit
<1>9. KeptFits'
  <2>1. HasPrior
    BY <1>3, WorksOnKept
  <2> QED
    BY <1>1, <2>1, KeptStays
<1> QED
  BY <1>5, <1>6, <1>7, <1>8, <1>9

(* A run without a step ahead exposes only what its marker or its undoing  *)
(* names.                                                                  *)
LEMMA ForeignEnds ==
  ASSUME Queue' = <<>>,
         foreign' = "spared" => /\ "appData" \in disk'
                                /\ mark' # None => ~Recorded("appData")'
                                /\ \A i \in 1..Len(run'.todo) : run'.todo[i] # "appData"
  PROVE  ForeignFits'
<1>1. ~Remains("recordAppData")' /\ ~Due("recordAppData")'
  BY RemainsNext, DueHas, EmptyHas
<1> QED
  BY <1>1 DEF ForeignFits, Exposed

LEMMA UndoRootFits ==
  ASSUME OwnershipFits, UndoRoot
  PROVE  OwnershipFits'
<1> USE DEF OwnershipFits
<1> DEFINE root == Head(run.todo)
           rest == Tail(run.todo)
<1>1. /\ run.mode \in {"rollback", "preflight"} /\ run.todo # <<>> /\ run.todo \in Seq(Roots) /\ run \in InstallRuns
      /\ UNCHANGED <<outdated, plugin, active, release, owned, foreign, crashes>>
  BY RunModes DEF UndoRoot
<1>2. \/ /\ disk' = disk \ {root} /\ run' = [run EXCEPT !.todo = rest]
         /\ backups' = IF root = "appData" THEN {} ELSE backups
         /\ IF root = "state" THEN LoseState ELSE UNCHANGED <<mark, manifest, tx>>
         /\ failures' = failures
      \/ /\ disk' = disk /\ run' = [run EXCEPT !.todo = rest, !.errors = TRUE]
         /\ backups' = backups \/ (root = "appData" /\ backups' = {})
         /\ root \in disk /\ failures < MaxFailures /\ failures' = failures + 1
         /\ UNCHANGED <<mark, manifest, tx>> \/ LoseState
  BY DEF UndoRoot
<1>3. /\ rest \in Seq(Roots) /\ Len(run.todo) \in Nat /\ Len(rest) = Len(run.todo) - 1 /\ 1 \in 1..Len(run.todo)
      /\ root = run.todo[1] /\ \A i \in 1..Len(rest) : rest[i] = run.todo[i + 1] /\ i + 1 \in 1..Len(run.todo)
  BY <1>1, HeadTailProperties
<1> HIDE DEF root, rest
<1>4. run' \in InstallRuns /\ run'.mode = run.mode /\ run'.steps = run.steps /\ run'.todo = rest
  <2>1. Undoing(run, rest, run')
    BY <1>2 DEF Undoing
  <2>2. run \in InstallRuns /\ rest \in Seq(Roots)
    BY <1>1, <1>3
  <2> QED
    BY ONLY <2>1, <2>2, RunUndone
<1>5. \/ mark' = mark /\ manifest' = manifest /\ tx' = tx /\ (root = "state" => disk' = disk)
      \/ mark' = None /\ manifest' = None /\ tx' = None
  <2>1. CASE root = "state"
    BY <1>2, <2>1 DEF LoseState
  <2>2. CASE root # "state"
    BY <1>2, <2>2 DEF LoseState
  <2> QED
    BY <2>1, <2>2
<1>6. disk' \subseteq disk /\ (disk' = disk \/ disk' = disk \ {root}) /\ backups' \subseteq backups
  BY <1>2
<1>7. failures' \in 0..MaxFailures
  BY <1>2, OwnershipAssumption DEF OwnershipTypes
<1>8. OwnershipTypes'
  BY <1>1, <1>4, <1>5, <1>6, <1>7 DEF OwnershipTypes
<1>9. RunFits' /\ Queue' = <<>>
  BY <1>1, <1>4 DEF RunFits, Queue
<1>10. UndoFits'
  <2>1. Candidates' = Candidates
    BY <1>1 DEF Candidates
  <2> QED
    BY <1>1, <1>4, <1>5, <2>1 DEF UndoFits
<1>11. ForeignFits'
  <2> SUFFICES ASSUME foreign' = "spared"
               PROVE  /\ "appData" \in disk'
                      /\ mark' # None => ~Recorded("appData")'
                      /\ \A i \in 1..Len(run'.todo) : run'.todo[i] # "appData"
    BY <1>9, ForeignEnds
  <2>1. "appData" \in disk /\ (mark # None => ~Recorded("appData")) /\ \A i \in 1..Len(run.todo) : run.todo[i] # "appData"
    BY <1>1 DEF ForeignFits, Exposed
  <2>2. root # "appData"
    BY <1>3, <2>1
  <2>3. mark' # None => ~Recorded("appData")'
    BY <1>5, <2>1 DEF Recorded
  <2>4. \A i \in 1..Len(run'.todo) : run'.todo[i] # "appData"
    BY <1>3, <1>4, <2>1
  <2> QED
    BY <1>6, <2>1, <2>2, <2>3, <2>4
<1>12. SlotsFit'
  <2>1. Candidates' = Candidates /\ (Unfinished <=> Unfinished')
    BY <1>1 DEF Candidates, Unfinished
  <2>2. CASE mark' = mark /\ manifest' = manifest /\ tx' = tx
    BY <1>1, <2>2, SlotsStay
  <2>3. CASE mark' = None /\ manifest' = None /\ tx' = None
    BY <1>1, <2>1, <2>3 DEF SlotsFit
  <2> QED
    BY <1>5, <2>2, <2>3
<1>13. KeptFits'
  <2> SUFFICES ASSUME owned' # None PROVE Undone'
    BY DEF KeptFits
  <2>1. run.mode = "preflight" /\ manifest = None /\ (mark = None \/ mark.state = "incomplete")
    BY <1>1 DEF UndoFits
  <2> QED
    BY <1>4, <1>5, <2>1 DEF Undone
<1>14. FreshFits' /\ UpgradeFits' /\ RecoverFits' /\ PlanFits'
  BY <1>1, <1>4, ModeFits
<1> QED
  BY <1>8, <1>9, <1>10, <1>11, <1>12, <1>13, <1>14

LEMMA EndUndoFits ==
  ASSUME OwnershipFits, EndUndo
  PROVE  OwnershipFits'
<1> USE DEF OwnershipFits
<1>1. /\ run.mode \in {"rollback", "preflight"}
      /\ UNCHANGED <<manifest, outdated, plugin, active, backups, tx, release, owned, foreign, crashes, failures>>
  BY DEF EndUndo
<1>2. CASE run.errors
  BY <1>1, <1>2, EndsFit, CountsAre DEF EndUndo
<1>3. CASE ~run.errors
  <2>1. /\ mark' = None
        /\ disk' = disk \/ (run.mode = "preflight" /\ disk' = disk \ {"state"})
        /\ run' = IF run.mode = "preflight" THEN Run("classify", <<>>) ELSE Idle
    BY <1>3 DEF EndUndo
  <2>2. disk' \subseteq disk /\ ("appData" \in disk => "appData" \in disk')
    BY <2>1
  <2>3. run' \in InstallRuns /\ run'.mode \in {"none", "classify"} /\ run'.steps = <<>> /\ run'.todo = <<>> /\ ~run'.absent
    <3>1. CASE run' = Run("classify", <<>>)
      BY <3>1, ClassifyIs
    <3>2. CASE run' = Idle
      BY <3>2, IdleIs
    <3> QED
      BY <2>1, <3>1, <3>2
  <2>4. run.mode = "preflight" => manifest = None
    BY DEF UndoFits
  <2>5. OwnershipTypes'
    BY <1>1, <2>1, <2>2, <2>3, <2>4 DEF OwnershipTypes
  <2>6. RunFits'
    BY <2>1, <2>3, ClassifyIs DEF RunFits
  <2>7. FreshFits' /\ UndoFits' /\ UpgradeFits' /\ RecoverFits' /\ PlanFits'
    BY <2>3, ModeFits
  <2>8. ForeignFits'
    BY <1>1, <2>1, <2>2, <2>3, ForeignStays
  <2>9. SlotsFit'
    BY <1>1, SlotsStay
  <2>10. KeptFits'
    BY <1>1, <2>1, <2>2, <2>3, LostStays
  <2> QED
    BY <2>5, <2>6, <2>7, <2>8, <2>9, <2>10
<1> QED
  BY <1>2, <1>3

(* A run that starts: what its mode relies on is there.                    *)
LEMMA StartsFit ==
  ASSUME OwnershipFits, NEW mode \in {"fresh", "upgrade", "recover", "plan"}, NEW q \in Scripts(mode),
         run' = Run(mode, q),
         UNCHANGED <<disk, mark, manifest, outdated, plugin, active, backups, tx, release, owned, foreign, crashes, failures>>,
         mode = "fresh" => FreshFits', mode = "upgrade" => UpgradeFits', mode = "recover" => RecoverFits',
         mode = "plan" => PlanFits', owned # None => HasPrior
  PROVE  OwnershipFits'
<1> USE DEF OwnershipFits
<1>1. q \in Seq(InstallSteps) /\ q # <<>>
  BY ScriptIs
<1>2. run' \in InstallRuns /\ run'.mode = mode /\ run'.steps = q /\ run'.todo = <<>> /\ ~run'.absent
  BY <1>1, RunIs
<1>3. OwnershipTypes'
  BY <1>2 DEF OwnershipTypes
<1>4. RunFits'
  <2>1. Len(q) \in Nat /\ Len(q) # 0
    BY <1>1, EmptySeq
  <2>2. 1 \in 1..Len(q) /\ q = SubSeq(q, 1, Len(q))
    BY <1>1, <2>1, RestWhole DEF Rest
  <2>3. LastOf(q)'
    BY <1>2, <2>2 DEF LastOf
  <2>4. CASE mode = "fresh"
    <3>1. LastOf(FreshSteps)'
      BY <2>3, <2>4 DEF Scripts
    <3> QED
      BY <1>2, <2>4, <3>1 DEF RunFits
  <2>5. CASE mode = "upgrade"
    <3>1. (LastOf(UpgradeSteps) \/ LastOf(ExactSteps))'
      BY <2>3, <2>5 DEF Scripts
    <3> QED
      BY <1>2, <2>5, <3>1 DEF RunFits
  <2>6. CASE mode = "recover"
    <3>1. LastOf(RecoverSteps)'
      BY <2>3, <2>6 DEF Scripts
    <3> QED
      BY <1>2, <2>6, <3>1 DEF RunFits
  <2>7. CASE mode = "plan"
    <3>1. LastOf(PlanSteps)'
      BY <2>3, <2>7 DEF Scripts
    <3> QED
      BY <1>2, <2>7, <3>1 DEF RunFits
  <2> QED
    BY <2>4, <2>5, <2>6, <2>7
<1>5. FreshFits' /\ UndoFits' /\ UpgradeFits' /\ RecoverFits' /\ PlanFits'
  BY <1>2, ModeFits
<1>6. ForeignFits'
  <2>1. mark' = None \/ (mark # None /\ mark'.created = mark.created)
    OBVIOUS
  <2> QED
    BY <1>2, <2>1, ForeignStays
<1>7. SlotsFit'
  BY SlotsStay
<1>8. KeptFits'
  BY KeptStays
<1> QED
  BY <1>3, <1>4, <1>5, <1>6, <1>7, <1>8

LEMMA ScriptSteps ==
  /\ FreshSteps \in Scripts("fresh") /\ UpgradeSteps \in Scripts("upgrade") /\ ExactSteps \in Scripts("upgrade")
  /\ RecoverSteps \in Scripts("recover") /\ PlanSteps \in Scripts("plan")
  BY DEF Scripts

LEMMA ScriptHas ==
  /\ \A a \in {"begin", "testAppData", "installPlugin", "provision"} : Has(FreshSteps, a)
  /\ \A a \in {"prepare", "installPlugin", "finalize", "provision"} : Has(UpgradeSteps, a)
  /\ Has(ExactSteps, "provision")
  /\ \A a \in {"prepare", "installPlugin", "finalize", "confirm"} : ~Has(ExactSteps, a)
  /\ Has(RecoverSteps, "restore") /\ Has(PlanSteps, "retire")
<1>1. \A a \in {"begin", "testAppData", "installPlugin", "provision"} : Has(FreshSteps, a)
  BY DEF Has, FreshSteps
<1>2. \A a \in {"prepare", "installPlugin", "finalize", "provision"} : Has(UpgradeSteps, a)
  BY DEF Has, UpgradeSteps, InstallTail
<1>3. Has(ExactSteps, "provision") /\ \A a \in {"prepare", "installPlugin", "finalize", "confirm"} : ~Has(ExactSteps, a)
  BY DEF Has, ExactSteps, InstallTail
<1>4. Has(RecoverSteps, "restore") /\ Has(PlanSteps, "retire")
  BY DEF Has, RecoverSteps, PlanSteps
<1> QED
  BY <1>1, <1>2, <1>3, <1>4

LEMMA StartIs ==
  ASSUME NEW mode \in {"fresh", "upgrade", "recover", "plan"}, NEW q \in Scripts(mode), run' = Run(mode, q)
  PROVE  run'.mode = mode /\ Queue' = q /\ ~run'.plugged /\ ~run'.absent /\ run'.missed = {}
<1>1. q \in Seq(InstallSteps)
  BY ScriptIs
<1> QED
  BY <1>1, RunIs DEF Queue

(* What is resumed without a transaction has the direct plugin, if there   *)
(* is one, registered.                                                     *)
LEMMA ExactIsActive ==
  ASSUME OwnershipFits, manifest # None, Classified(release) = "exact", Direct \in Candidates
  PROVE  active = Direct
<1> USE DEF OwnershipFits
<1>1. CASE Reentry(release)
  BY <1>1 DEF Reentry
<1>2. CASE Candidates = {manifest}
  <2>1. CASE owned = None
    BY <1>2, <2>1 DEF SlotsFit
  <2>2. CASE owned # None
    <3>1. active \in Candidates
      BY <2>2 DEF SlotsFit, Candidates
    <3> QED
      BY <1>2, <3>1
  <2> QED
    BY <2>1, <2>2
<1>3. CASE ExactRollover(release)
  <2>1. Candidates = {manifest, active} /\ manifest \in Projects /\ active \in Projects
    BY <1>3 DEF ExactRollover, Managed
  <2> QED
    BY <2>1, OwnershipAssumption
<1> QED
  BY <1>1, <1>2, <1>3 DEF Classified

LEMMA ClassifyFits ==
  ASSUME OwnershipFits, Classify
  PROVE  OwnershipFits'
<1> USE DEF OwnershipFits
<1>1. /\ run.mode = "classify"
      /\ UNCHANGED <<disk, mark, manifest, outdated, plugin, active, backups, tx, release, owned, foreign, crashes, failures>>
  BY DEF Classify
<1>2. \/ /\ manifest # None /\ Classified(release) = "exact" /\ run' = Run("upgrade", ExactSteps)
      \/ /\ manifest # None /\ Classified(release) = "upgrade" /\ run' = Run("upgrade", UpgradeSteps)
      \/ /\ manifest = None /\ Inventory = {} /\ active = None /\ run' = Run("fresh", FreshSteps)
      \/ run' = Idle
  BY DEF Classify
<1>3. CASE run' = Idle
  BY <1>1, <1>3, EndsFit, CountsAre
<1>4. CASE manifest # None /\ Classified(release) = "exact" /\ run' = Run("upgrade", ExactSteps)
  <2>1. owned # None => HasPrior
    BY <1>4, WorksOnKept
  <2>2. UpgradeFits'
    <3>1. Queue' = ExactSteps
      BY <1>4, ScriptSteps, StartIs
    <3>2. /\ Remains("provision")'
          /\ \A a \in {"prepare", "installPlugin", "finalize", "confirm"} : ~Remains(a)'
      BY <3>1, ScriptHas, RemainsNext
    <3>3. manifest' # None /\ (Direct \in Candidates' => active' = Direct)
      BY <1>1, <1>4, ExactIsActive DEF Candidates
    <3> QED
      BY <3>2, <3>3 DEF UpgradeFits
  <2> QED
    BY <1>1, <1>4, <2>1, <2>2, ScriptSteps, StartsFit
<1>5. CASE manifest # None /\ Classified(release) = "upgrade" /\ run' = Run("upgrade", UpgradeSteps)
  <2>1. owned # None => HasPrior
    BY <1>5, WorksOnKept
  <2>2. Candidates = {manifest} /\ plugin[manifest] # release
    BY <1>5 DEF Classified
  <2>3. manifest \in Slots /\ plugin[manifest] \in Payloads
    BY <2>2, SlotTypes
  <2>4. owned # None
    BY <1>5, <2>2 DEF SlotsFit
  <2>5. active \in Slots /\ plugin[active] # None /\ owned # release
    BY <1>5, <2>2, <2>4 DEF SlotsFit
  <2>6. active = manifest
    BY <2>2, <2>5, SlotTypes
  <2>7. UpgradeFits'
    <3>1. Queue' = UpgradeSteps
      BY <1>5, ScriptSteps, StartIs
    <3>2. Remains("provision")' /\ Remains("installPlugin")' /\ Remains("prepare")' /\ Remains("finalize")'
      BY <3>1, ScriptHas, RemainsNext
    <3>3. /\ manifest' # None /\ owned' \notin {None, release'} /\ Candidates' = {manifest'} /\ active' = manifest'
      BY <1>1, <1>5, <2>2, <2>4, <2>5, <2>6 DEF Candidates
    <3> QED
      BY <3>2, <3>3 DEF UpgradeFits
  <2> QED
    BY <1>1, <1>5, <2>1, <2>7, ScriptSteps, StartsFit
<1>6. CASE manifest = None /\ Inventory = {} /\ active = None /\ run' = Run("fresh", FreshSteps)
  <2>1. disk = {} /\ Candidates = {}
    BY <1>6 DEF Inventory
  <2>2. owned = None
    BY <1>6, SlotTypes DEF SlotsFit
  <2>3. mark = None
    BY <2>1 DEF OwnershipTypes
  <2>4. FreshFits'
    <3>1. Queue' = FreshSteps /\ ~run'.plugged /\ ~run'.absent /\ run'.missed = {}
      BY <1>6, ScriptSteps, StartIs
    <3>2. \A a \in {"begin", "testAppData", "installPlugin", "provision"} : Remains(a)'
      BY <3>1, ScriptHas, RemainsNext
    <3>3. owned' = None /\ mark' = None /\ disk' = {} /\ Candidates' = {} /\ active' = None /\ manifest' = None
      BY <1>1, <1>6, <2>1, <2>2, <2>3 DEF Candidates
    <3> QED
      BY <3>1, <3>2, <3>3 DEF FreshFits
  <2> QED
    BY <1>1, <1>6, <2>2, <2>4, ScriptSteps, StartsFit
<1> QED
  BY <1>2, <1>3, <1>4, <1>5, <1>6

LEMMA PreflightFits ==
  ASSUME OwnershipFits, Preflight
  PROVE  OwnershipFits'
<1> USE DEF OwnershipFits
<1>1. /\ run = Idle
      /\ UNCHANGED <<disk, mark, manifest, outdated, plugin, active, backups, tx, release, owned, foreign, crashes, failures>>
      /\ \/ run' = Run("classify", <<>>)
         \/ /\ manifest = None /\ mark # None /\ mark.state = "incomplete"
            /\ run' = [Run("preflight", <<>>) EXCEPT !.todo = DeepestFirst(mark.created)]
  BY DEF Preflight, Undoable
<1>2. run.mode = "none" /\ run.todo = <<>>
  BY <1>1, IdleIs
<1>3. SlotsFit'
  BY <1>1, SlotsStay
<1>4. mark' = None \/ (mark # None /\ mark'.created = mark.created)
  BY <1>1
<1>5. CASE run' = Run("classify", <<>>)
  <2>1. run' \in InstallRuns /\ run'.mode = "classify" /\ run'.steps = <<>> /\ run'.todo = <<>> /\ ~run'.absent
    BY <1>5, ClassifyIs
  <2>2. OwnershipTypes'
    BY <1>1, <2>1 DEF OwnershipTypes
  <2>3. RunFits'
    BY <2>1 DEF RunFits
  <2>4. FreshFits' /\ UndoFits' /\ UpgradeFits' /\ RecoverFits' /\ PlanFits'
    BY <2>1, ModeFits
  <2>5. ForeignFits'
    BY <1>1, <1>4, <2>1, ForeignStays
  <2>6. KeptFits'
    BY <1>1, <2>1, LostStays
  <2> QED
    BY <1>3, <2>2, <2>3, <2>4, <2>5, <2>6
<1>6. CASE /\ manifest = None /\ mark # None /\ mark.state = "incomplete"
           /\ run' = [Run("preflight", <<>>) EXCEPT !.todo = DeepestFirst(mark.created)]
  <2>1. mark.created \in Seq(Roots)
    BY <1>6 DEF OwnershipTypes, InstallMarkers
  <2>2. /\ DeepestFirst(mark.created) \in Seq(Roots)
        /\ \A i \in 1..Len(DeepestFirst(mark.created)) :
             \E j \in 1..Len(mark.created) : DeepestFirst(mark.created)[i] = mark.created[j]
    BY <2>1, DeepestFirstIs
  <2>3. /\ run' \in InstallRuns /\ run'.mode = "preflight" /\ run'.steps = <<>> /\ Queue' = <<>>
        /\ run'.todo = DeepestFirst(mark.created)
    BY <1>6, <2>2, PreflightIs DEF Queue
  <2>4. OwnershipTypes'
    BY <1>1, <2>3 DEF OwnershipTypes
  <2>5. RunFits'
    BY <2>3 DEF RunFits
  <2>6. FreshFits' /\ UpgradeFits' /\ RecoverFits' /\ PlanFits'
    BY <2>3, ModeFits
  <2>7. UndoFits'
    BY <1>1, <1>6, <2>3 DEF UndoFits
  <2>8. ForeignFits'
    <3> SUFFICES ASSUME foreign' = "spared"
                 PROVE  /\ "appData" \in disk'
                        /\ mark' # None => ~Recorded("appData")'
                        /\ \A i \in 1..Len(run'.todo) : run'.todo[i] # "appData"
      BY <2>3, ForeignEnds
    <3>1. "appData" \in disk /\ ~Recorded("appData")
      BY <1>1, <1>6 DEF ForeignFits, Exposed
    <3>2. \A j \in 1..Len(mark.created) : mark.created[j] # "appData"
      BY <2>1, <3>1 DEF Recorded
    <3>3. \A i \in 1..Len(run'.todo) : run'.todo[i] # "appData"
      BY <2>2, <2>3, <3>2
    <3> QED
      BY <1>1, <3>1, <3>3 DEF Recorded
  <2>9. KeptFits'
    BY <1>1, <2>3, LostStays
  <2> QED
    BY <1>3, <2>4, <2>5, <2>6, <2>7, <2>8, <2>9
<1> QED
  BY <1>1, <1>5, <1>6

LEMMA StartRecoveryFits ==
  ASSUME OwnershipFits, StartRecovery
  PROVE  OwnershipFits'
<1> USE DEF OwnershipFits
<1>1. /\ manifest = None /\ tx # None /\ mark # None /\ mark.state = "committed"
      /\ run' = Run("recover", RecoverSteps)
      /\ UNCHANGED <<disk, mark, manifest, outdated, plugin, active, backups, tx, release, owned, foreign, crashes, failures>>
  BY DEF StartRecovery
<1>2. owned # None /\ Unfinished /\ Candidates \subseteq {tx.slot, active}
  BY <1>1 DEF SlotsFit
<1>3. HasPrior
  BY <1>1, <1>2, WorksOnKept
<1>4. mark \in InstallMarkers /\ "state" \in disk /\ tx \in Transactions
  BY <1>1 DEF OwnershipTypes
<1>5. RecoverFits'
  <2>1. Queue' = RecoverSteps
    BY <1>1, ScriptSteps, StartIs
  <2>2. Remains("restore")'
    BY <2>1, ScriptHas, RemainsNext
  <2>3. Unfinished' /\ Candidates' \subseteq {tx'.slot, active'}
    BY <1>1, <1>2 DEF Unfinished, Candidates
  <2>4. mark' \in InstallMarkers /\ mark'.state = "committed" /\ "state" \in disk' /\ tx' \in Transactions /\ manifest' = None
    BY <1>1, <1>4
  <2> QED
    BY ONLY <2>2, <2>3, <2>4 DEF RecoverFits
<1> QED
  BY <1>1, <1>3, <1>5, ScriptSteps, StartsFit

LEMMA StartPlanFits ==
  ASSUME OwnershipFits, StartPlan
  PROVE  OwnershipFits'
<1> USE DEF OwnershipFits
<1>1. /\ manifest # None /\ Candidates = {manifest, active} /\ manifest # active
      /\ run' = Run("plan", PlanSteps)
      /\ UNCHANGED <<disk, mark, manifest, outdated, plugin, active, backups, tx, release, owned, foreign, crashes, failures>>
  BY DEF StartPlan, ExactRollover
<1>2. manifest \in Slots
  BY <1>1, SlotTypes
<1>3. owned # None
  BY <1>1 DEF SlotsFit
<1>4. HasPrior
  BY <1>1, <1>3, WorksOnKept
<1>5. PlanFits'
  <2>1. Queue' = PlanSteps
    BY <1>1, ScriptSteps, StartIs
  <2>2. Remains("retire")'
    BY <2>1, ScriptHas, RemainsNext
  <2> QED
    BY <1>1, <1>2, <1>3, <2>2 DEF PlanFits, Slots
<1> QED
  BY <1>1, <1>4, <1>5, ScriptSteps, StartsFit

LEMMA NextReleaseFits ==
  ASSUME OwnershipFits, NextRelease
  PROVE  OwnershipFits'
<1> USE DEF OwnershipFits
<1>1. /\ run = Idle /\ owned = release /\ release < LastRelease /\ release' = release + 1
      /\ UNCHANGED <<disk, mark, manifest, outdated, plugin, active, backups, tx, run, owned, foreign, crashes, failures>>
  BY DEF NextRelease
<1>2. run' = Idle
  BY <1>1
<1>3. /\ run' \in InstallRuns /\ run'.mode = "none" /\ run'.todo = <<>> /\ ~run'.absent
      /\ RunFits' /\ FreshFits' /\ UndoFits' /\ UpgradeFits' /\ RecoverFits' /\ PlanFits'
  BY <1>2, IdleFits
<1>4. release \in Nat /\ release' \in Releases /\ owned # None /\ owned # release'
  <2>1. release \in 1..LastRelease
    BY DEF OwnershipTypes, Releases
  <2> QED
    BY <1>1, <2>1, OwnershipAssumption DEF Releases
<1>5. OwnershipTypes'
  BY <1>1, <1>3, <1>4 DEF OwnershipTypes
<1>6. ForeignFits'
  <2>1. mark' = None \/ (mark # None /\ mark'.created = mark.created)
    BY <1>1
  <2> QED
    BY <1>1, <1>3, <2>1, ForeignStays
<1>7. SlotsFit'
  <2>1. ~Unfinished
    BY <1>1 DEF Unfinished
  <2>2. active \in Slots /\ plugin[active] # None /\ (manifest # None => manifest = active /\ Candidates = {active})
        /\ (manifest = None => tx = None) /\ (\E s \in Slots : Candidates \subseteq {s, active})
        /\ \A s \in Projects : plugin[s] = 0 => Candidates = {s}
    BY <1>4, <2>1 DEF SlotsFit
  <2>3. Candidates' = Candidates
    BY <1>1 DEF Candidates
  <2>4. owned' # None /\ owned' # release'
    BY <1>1, <1>4
  <2> QED
    BY <1>1, <2>2, <2>3, <2>4 DEF SlotsFit
<1>8. KeptFits'
  BY <1>1, <1>3, LostStays
<1> QED
  BY <1>3, <1>5, <1>6, <1>7, <1>8

LEMMA CrashFits ==
  ASSUME OwnershipFits, Crash
  PROVE  OwnershipFits'
<1>1. crashes' \in 0..MaxCrashes /\ failures' \in 0..MaxFailures
  BY OwnershipAssumption DEF Crash, OwnershipFits, OwnershipTypes
<1>2. PICK torn \in BOOLEAN : Torn(torn)
  BY DEF Crash
<1>3. mark' = mark \/ mark' = None
  BY <1>2, TornIs DEF OwnershipFits
<1>4. disk \subseteq disk' /\ disk' \subseteq disk \cup {"state"}
  BY <1>2, TornIs DEF OwnershipFits
<1>5. run' = Idle /\ UNCHANGED <<manifest, outdated, plugin, active, backups, tx, release, owned, foreign>>
  BY DEF Crash
<1> QED
  BY <1>1, <1>3, <1>4, <1>5, EndsFit

LEMMA OtherWorkspaceFits ==
  ASSUME OwnershipFits, OtherWorkspace
  PROVE  OwnershipFits'
<1> USE DEF OwnershipFits
<1>1. /\ "appData" \notin disk /\ foreign = "no" /\ disk' = disk \cup {"appData"}
      /\ foreign' = IF Exposed THEN "exposed" ELSE "spared"
      /\ UNCHANGED <<mark, manifest, outdated, plugin, active, backups, tx, run, release, owned, crashes, failures>>
  BY DEF OtherWorkspace
<1>2. "appData" \in disk' /\ foreign' # "no" /\ Queue' = Queue
  BY <1>1 DEF Queue
<1>3. OwnershipTypes'
  BY <1>1 DEF OwnershipTypes, Roots
<1>4. RunFits'
  BY <1>1 DEF RunFits, LastOf
<1>5. \A a : /\ Remains(a)' <=> Remains(a)
             /\ Recorded(a)' <=> Recorded(a)
             /\ Covered(a) => Covered(a)'
  BY <1>1, <1>2 DEF Remains, Recorded, Shared, Covered
<1>6. Candidates' = Candidates /\ (Unfinished' <=> Unfinished)
  BY <1>1 DEF Candidates, Unfinished
<1>7. FreshFits'
  <2> SUFFICES ASSUME run.mode = "fresh" PROVE FreshFits'
    BY <1>1 DEF FreshFits
  <2>1. \A r \in disk' : r \in disk \/ (Shared(r)' /\ Covered(r)')
    BY <1>1, <1>2 DEF Shared, Covered
  <2>2. Remains("begin")' => mark' = None /\ (\A r \in disk' : Shared(r)') /\ run'.missed = {}
    BY <1>1, <1>5, <2>1 DEF FreshFits, Shared
  <2>3. ~Remains("begin")' /\ mark' # None =>
          /\ mark' \in InstallMarkers /\ mark'.state = "incomplete" /\ (mark'.appPre => foreign' # "no")
          /\ \A r \in disk' : r = "state" \/ Covered(r)'
          /\ Remains("recordSkill")' \/ Covered("skill")'
          /\ Remains("testAppData")' \/ run'.absent \/ foreign' # "no"
          /\ Remains("recordAppData")' \/ Covered("appData")'
          /\ Remains("recordLauncher")' \/ Covered("launcher")'
    <3> SUFFICES ASSUME ~Remains("begin"), mark # None
                 PROVE  /\ mark \in InstallMarkers /\ mark.state = "incomplete"
                        /\ \A r \in disk' : r = "state" \/ Covered(r)'
                        /\ Remains("recordSkill") \/ Covered("skill")'
                        /\ Remains("recordAppData") \/ Covered("appData")'
                        /\ Remains("recordLauncher") \/ Covered("launcher")'
      BY <1>1, <1>2, <1>5
    <3>1. /\ mark \in InstallMarkers /\ mark.state = "incomplete"
          /\ \A r \in disk : r = "state" \/ Covered(r)
          /\ Remains("recordSkill") \/ Covered("skill")
          /\ Remains("recordAppData") \/ Covered("appData")
          /\ Remains("recordLauncher") \/ Covered("launcher")
      BY DEF FreshFits
    <3> QED
      BY <1>5, <2>1, <3>1
  <2>4. /\ owned' = None
        /\ Remains("begin")' \/ "state" \in disk'
        /\ Remains("testAppData")' => ~run'.absent /\ ("appData" \in disk' => foreign' # "no")
        /\ IF Remains("installPlugin")' THEN ~run'.plugged /\ Candidates' = {} /\ active' = None
           ELSE run'.plugged /\ Candidates' = {active'}
        /\ Remains("create")' => manifest' = None
    BY <1>1, <1>2, <1>5, <1>6 DEF FreshFits
  <2> QED
    BY ONLY <1>2, <2>2, <2>3, <2>4 DEF FreshFits
<1>8. UndoFits'
  BY <1>1, <1>6 DEF UndoFits
<1>9. ForeignFits'
  <2> SUFFICES ASSUME foreign' = "spared" PROVE ~Exposed' /\ ~(run'.absent /\ Remains("recordAppData")')
    BY <1>2 DEF ForeignFits
  <2>1. ~Exposed
    BY <1>1
  <2>2. ~Exposed'
    BY <1>1, <2>1 DEF Exposed, Recorded, Due
  <2>3. ~(run.absent /\ Has(Queue, "recordAppData"))
    <3> SUFFICES ASSUME run.absent, Has(Queue, "recordAppData") PROVE FALSE
      OBVIOUS
    <3>1. run.mode = "fresh" /\ Queue # <<>> /\ (Head(Queue) = "recordAppData" \/ Has(Queue, "testAppData"))
      BY NoRecord
    <3>2. ~Has(Queue, "testAppData")
      BY <3>1, FreshHas
    <3>3. Due("recordAppData")
      BY <3>1, <3>2, DueIs
    <3> QED
      BY <2>1, <3>3 DEF Exposed
  <2> QED
    BY <1>1, <1>2, <2>2, <2>3, RemainsNext
<1>10. SlotsFit'
  BY <1>1, SlotsStay
<1>11. UpgradeFits'
  <2> SUFFICES ASSUME run.mode = "upgrade" PROVE UpgradeFits'
    BY <1>1 DEF UpgradeFits
  <2>1. manifest' # None /\ "appData" \in disk' /\ (Remains("finalize")' \/ (Direct \in Candidates' => active' = Direct))
    BY <1>1, <1>2, <1>5, <1>6 DEF UpgradeFits
  <2>2. Remains("installPlugin")' =>
          /\ owned' \notin {None, release'} /\ Candidates' = {manifest'} /\ active' = manifest'
          /\ ~Remains("prepare")' => plugin'[manifest'] \in backups' /\ Retirable(manifest)'
    <3>1. Retirable(manifest)' <=> Retirable(manifest)
      BY <1>1, <1>6 DEF Retirable, Managed, Current
    <3> QED
      BY <1>1, <1>5, <1>6, <3>1 DEF UpgradeFits
  <2>3. Remains("finalize")' /\ ~Remains("prepare")' => tx' \in Transactions /\ tx'.slot = manifest' /\ tx'.expected = release'
    BY <1>1, <1>5 DEF UpgradeFits
  <2>4. Remains("confirm")' /\ ~Remains("installPlugin")' => tx' \in Transactions /\ Unfinished' /\ Candidates' \subseteq {tx'.slot, active'}
    BY <1>1, <1>5, <1>6 DEF UpgradeFits
  <2> QED
    BY ONLY <2>1, <2>2, <2>3, <2>4 DEF UpgradeFits
<1>12. RecoverFits'
  <2> SUFFICES ASSUME run.mode = "recover" PROVE RecoverFits'
    BY <1>1 DEF RecoverFits
  <2>1. /\ mark \in InstallMarkers /\ mark.state = "committed" /\ "state" \in disk
        /\ tx \in Transactions /\ Unfinished /\ Candidates \subseteq {tx.slot, active}
        /\ manifest = IF Remains("restore") THEN None ELSE IF Remains("finalize") THEN tx.slot ELSE active
    BY DEF RecoverFits
  <2>2. /\ mark' \in InstallMarkers /\ mark'.state = "committed" /\ "state" \in disk'
        /\ tx' \in Transactions /\ Unfinished' /\ Candidates' \subseteq {tx'.slot, active'}
        /\ manifest' = IF Remains("restore")' THEN None ELSE IF Remains("finalize")' THEN tx'.slot ELSE active'
    BY <1>1, <1>5, <1>6, <2>1
  <2> QED
    BY ONLY <2>2 DEF RecoverFits
<1>13. PlanFits'
  BY <1>1, <1>5 DEF PlanFits
<1>14. KeptFits'
  BY <1>1 DEF KeptFits, HasPrior, Undone
<1> QED
  BY <1>3, <1>4, <1>7, <1>8, <1>9, <1>10, <1>11, <1>12, <1>13, <1>14

(* The rollback of a fresh attempt that has taken its plugin away again.   *)
LEMMA RollsBackFits ==
  ASSUME OwnershipFits, run.mode = "fresh", Queue # <<>>, Head(Queue) # "begin",
         mark' = mark \/ mark' = None, disk \subseteq disk', disk' \subseteq disk \cup {"state"},
         run' = IF mark' = None THEN Idle
                ELSE [Run("rollback", <<>>) EXCEPT !.todo = DeepestFirst(mark.created)],
         plugin' = IF run.plugged THEN [plugin EXCEPT ![active] = None] ELSE plugin,
         active' = IF run.plugged THEN None ELSE active,
         failures' \in 0..MaxFailures,
         UNCHANGED <<manifest, outdated, backups, tx, release, owned, foreign, crashes>>
  PROVE  OwnershipFits'
<1> USE DEF OwnershipFits
<1>1. FreshList(Queue) /\ Queue \in Seq(InstallSteps)
  BY RunStepIs DEF Doing
<1>2. ~Has(Queue, "begin")
  BY <1>1, FreshHead
<1>3. /\ owned = None /\ "state" \in disk
      /\ mark # None => mark \in InstallMarkers /\ mark.state = "incomplete"
      /\ IF run.plugged THEN Candidates = {active} ELSE Candidates = {} /\ active = None
  BY <1>2, FreshHas
<1>4. Candidates' = {} /\ active' = None /\ plugin' \in [Slots -> Payloads \cup {None}]
  <2>1. CASE run.plugged
    <3>1. active \in Slots /\ plugin' = [plugin EXCEPT ![active] = None] /\ active' = None
      BY <1>3, <2>1, SlotTypes
    <3>2. \A s \in Slots : s # active => plugin[s] = None
      BY <1>3, <2>1, SlotTypes
    <3> QED
      BY <3>1, <3>2 DEF Candidates, OwnershipTypes
  <2>2. CASE ~run.plugged
    BY <1>3, <2>2 DEF Candidates, OwnershipTypes
  <2> QED
    BY <2>1, <2>2
<1>5. /\ run' \in InstallRuns /\ run'.mode \in {"none", "rollback"} /\ run'.steps = <<>> /\ Queue' = <<>>
      /\ run'.mode = "none" => run' = Idle
      /\ mark' = None => run'.mode = "none" /\ run'.todo = <<>>
      /\ mark' # None => /\ mark.created \in Seq(Roots)
                         /\ \A i \in 1..Len(run'.todo) : \E j \in 1..Len(mark.created) : run'.todo[i] = mark.created[j]
  <2>1. CASE mark' = None
    BY <2>1, IdleIs DEF Queue
  <2>2. CASE mark' # None
    <3>1. mark.created \in Seq(Roots)
      BY <1>3, <2>2 DEF InstallMarkers
    <3>2. /\ DeepestFirst(mark.created) \in Seq(Roots)
          /\ \A i \in 1..Len(DeepestFirst(mark.created)) :
               \E j \in 1..Len(mark.created) : DeepestFirst(mark.created)[i] = mark.created[j]
      BY <3>1, DeepestFirstIs
    <3>3. run' \in InstallRuns /\ run'.mode = "rollback" /\ run'.steps = <<>> /\ run'.todo = DeepestFirst(mark.created)
      BY <2>2, <3>2, RollbackIs
    <3> QED
      BY <2>2, <3>1, <3>2, <3>3 DEF Queue
  <2> QED
    BY <2>1, <2>2
<1>6. OwnershipTypes'
  <2>1. disk' = disk
    BY <1>3
  <2> QED
    BY <1>4, <1>5, <2>1 DEF OwnershipTypes
<1>7. RunFits'
  BY <1>5, IdleIs DEF RunFits
<1>8. FreshFits' /\ UpgradeFits' /\ RecoverFits' /\ PlanFits'
  BY <1>5, ModeFits
<1>9. UndoFits'
  BY <1>3, <1>4, <1>5 DEF UndoFits
<1>10. ForeignFits'
  <2> SUFFICES ASSUME foreign' = "spared"
               PROVE  /\ "appData" \in disk'
                      /\ mark' # None => ~Recorded("appData")'
                      /\ \A i \in 1..Len(run'.todo) : run'.todo[i] # "appData"
    BY <1>5, ForeignEnds
  <2>1. "appData" \in disk /\ (mark # None => ~Recorded("appData"))
    BY DEF ForeignFits, Exposed
  <2>2. mark' # None => ~Recorded("appData")'
    BY <2>1 DEF Recorded
  <2>3. \A i \in 1..Len(run'.todo) : run'.todo[i] # "appData"
    <3>1. CASE mark' = None
      BY <1>5, <3>1
    <3>2. CASE mark' # None
      <4>1. \A j \in 1..Len(mark.created) : mark.created[j] # "appData"
        BY <1>5, <2>1, <3>2 DEF Recorded
      <4> QED
        BY <1>5, <3>2, <4>1
    <3> QED
      BY <3>1, <3>2
  <2> QED
    BY <2>1, <2>2, <2>3
<1>11. SlotsFit'
  <2>1. release' = 1 /\ tx' = None /\ owned' = None
    BY <1>3 DEF SlotsFit
  <2>2. \A s \in Projects : plugin'[s] = 0 => Candidates' = {s}
    <3> SUFFICES ASSUME NEW s \in Projects, plugin'[s] = 0 PROVE FALSE
      OBVIOUS
    <3>1. s \in Slots /\ plugin'[s] # None
      BY NoneIs DEF Slots
    <3> QED
      BY <1>4, <3>1 DEF Candidates
  <2> QED
    BY ONLY <1>4, <2>1, <2>2 DEF SlotsFit
<1>12. KeptFits'
  BY <1>3 DEF KeptFits
<1> QED
  BY <1>6, <1>7, <1>8, <1>9, <1>10, <1>11, <1>12

(* A verification that fails behind the replacement: the binding goes back *)
(* to the retired generation, or is quarantined.                           *)
LEMMA UnbindsFits ==
  ASSUME OwnershipFits, Queue # <<>>, run.mode = "recover" \/ (run.mode = "upgrade" /\ Head(Queue) = "confirm"),
         run' = Idle, manifest' = tx.slot \/ manifest' = None, outdated' = outdated \/ outdated' = tx.outdated,
         failures' \in 0..MaxFailures,
         UNCHANGED <<disk, mark, plugin, active, backups, tx, release, owned, foreign, crashes>>
  PROVE  OwnershipFits'
<1> USE DEF OwnershipFits
<1>1. /\ tx \in Transactions /\ Unfinished /\ Candidates \subseteq {tx.slot, active} /\ "state" \in disk /\ HasPrior
  <2>1. CASE run.mode = "recover"
    BY <2>1, RecoverHas
  <2>2. CASE run.mode = "upgrade" /\ Head(Queue) = "confirm"
    <3>1. Has(Queue, "confirm") /\ ~Has(Queue, "installPlugin")
      BY <2>2, RunStepIs, UpgradeHead DEF Doing
    <3> QED
      BY <2>2, <3>1, UpgradeHas DEF Unfinished
  <2> QED
    BY <2>1, <2>2
<1>2. /\ run' \in InstallRuns /\ run'.mode = "none" /\ run'.todo = <<>> /\ ~run'.absent
      /\ RunFits' /\ FreshFits' /\ UndoFits' /\ UpgradeFits' /\ RecoverFits' /\ PlanFits'
  BY IdleFits
<1>3. OwnershipTypes'
  <2>1. tx.slot \in Slots /\ tx.outdated \in BOOLEAN
    BY <1>1 DEF Transactions
  <2> QED
    BY <1>1, <1>2, <2>1 DEF OwnershipTypes
<1>4. ForeignFits'
  <2>1. mark' = None \/ (mark # None /\ mark'.created = mark.created)
    OBVIOUS
  <2> QED
    BY <1>2, <2>1, ForeignStays
<1>5. SlotsFit'
  BY <1>1, RebindsUnfinished
<1>6. KeptFits'
  BY <1>1, KeptStays
<1> QED
  BY <1>2, <1>3, <1>4, <1>5, <1>6

(* A reviewed plan whose binding fails renames the retired generation back. *)
LEMMA RestoresFits ==
  ASSUME OwnershipFits, run.mode = "plan", Queue # <<>>, Head(Queue) = "apply",
         run' = Idle, plugin' = [plugin EXCEPT ![manifest] = run.old], failures' \in 0..MaxFailures,
         UNCHANGED <<disk, mark, manifest, outdated, active, backups, tx, release, owned, foreign, crashes>>
  PROVE  OwnershipFits'
<1> USE DEF OwnershipFits
<1>1. ~Has(Queue, "retire")
  BY RunStepIs, PlanHead DEF Doing
<1>2. /\ manifest \in Slots /\ manifest # active /\ owned # None /\ manifest # None
      /\ plugin[manifest] = None /\ run.old \in Releases
  BY <1>1, RemainsIs, SlotTypes DEF PlanFits
<1>3. run.old \in Payloads /\ run.old # 0
  BY <1>2 DEF Releases, Payloads
<1>4. /\ plugin' \in [Slots -> Payloads \cup {None}] /\ plugin'[manifest] = run.old
      /\ \A s \in Slots : s # manifest => plugin'[s] = plugin[s]
  BY <1>2, <1>3 DEF OwnershipTypes
<1>5. Unfinished /\ active \in Slots /\ plugin[active] # None /\ Candidates \subseteq {manifest, active}
  BY <1>2 DEF SlotsFit
<1>6. /\ run' \in InstallRuns /\ run'.mode = "none" /\ run'.todo = <<>> /\ ~run'.absent
      /\ RunFits' /\ FreshFits' /\ UndoFits' /\ UpgradeFits' /\ RecoverFits' /\ PlanFits'
  BY IdleFits
<1>7. OwnershipTypes'
  BY <1>4, <1>6 DEF OwnershipTypes
<1>8. ForeignFits'
  <2>1. mark' = None \/ (mark # None /\ mark'.created = mark.created)
    OBVIOUS
  <2> QED
    BY <1>6, <2>1, ForeignStays
<1>9. SlotsFit'
  <2>1. Unfinished' /\ active' \in Slots /\ plugin'[active'] # None
    BY <1>2, <1>4, <1>5 DEF Unfinished
  <2>2. Candidates' \subseteq {manifest', active'}
    BY <1>4, <1>5 DEF Candidates
  <2>3. owned' # None /\ manifest' # None /\ manifest' \in Slots /\ owned' # release'
    BY <1>2, <1>5 DEF Unfinished
  <2>4. \A s \in Projects : plugin'[s] = 0 => Candidates' = {s}
    <3> SUFFICES ASSUME NEW s \in Projects, plugin'[s] = 0 PROVE FALSE
      OBVIOUS
    <3>1. s \in Slots /\ s # manifest /\ plugin[s] = 0
      BY <1>3, <1>4 DEF Slots
    <3>2. s = active
      BY <1>5, <3>1, SlotTypes, NoneIs
    <3> QED
      BY <1>5, <3>1, <3>2, ReleaseIs DEF Unfinished
  <2> QED
    BY ONLY <2>1, <2>2, <2>3, <2>4 DEF SlotsFit
<1>10. KeptFits'
  <2>1. HasPrior
    BY <1>2, WorksOnKept
  <2>2. owned \in backups \/ \E s \in Slots : plugin'[s] = owned
    <3>1. CASE owned \in backups
      BY <3>1
    <3>2. CASE owned \notin backups
      <4>1. PICK s \in Slots : plugin[s] = owned
        BY <2>1, <3>2 DEF HasPrior
      <4> QED
        BY <1>2, <1>4, <4>1
    <3> QED
      BY <3>1, <3>2
  <2> QED
    BY <2>1, <2>2 DEF KeptFits, HasPrior
<1> QED
  BY <1>6, <1>7, <1>8, <1>9, <1>10

(* A step that raises: what is put back, and the undoing of a fresh        *)
(* attempt.                                                                *)
LEMMA UnwindFits ==
  ASSUME OwnershipFits, Queue # <<>>, NEW spent \in {0, 1}, spent = 1 => failures < MaxFailures,
         NEW torn \in BOOLEAN, Torn(torn), Unwind(spent)
  PROVE  OwnershipFits'
<1> USE DEF OwnershipFits
<1>1. UNCHANGED <<backups, tx, release, owned, foreign, crashes>>
  BY DEF Unwind
<1>2. /\ Queue \in Seq(InstallSteps)
      /\ \/ run.mode = "fresh" /\ Head(Queue) # "apply" /\ Head(Queue) # "confirm"
         \/ run.mode = "upgrade" /\ Head(Queue) # "apply"
         \/ run.mode = "recover" /\ Head(Queue) # "apply"
         \/ run.mode = "plan" /\ Head(Queue) # "confirm"
  BY RunStepIs DEF Doing, FreshNames, UpgradeNames
<1>3. \A a : Due(a) <=> Head(Queue) = a
  BY DueIs
<1>4. /\ mark' = mark \/ mark' = None
      /\ disk \subseteq disk' /\ disk' \subseteq disk \cup {"state"}
      /\ run.mode # "fresh" => mark' = mark /\ disk' = disk
  BY TornIs
<1>5. failures \in Nat /\ MaxFailures \in Nat /\ failures <= MaxFailures /\ crashes \in 0..MaxCrashes
  BY OwnershipAssumption DEF OwnershipTypes
<1>6. failures + spent \in 0..MaxFailures /\ (failures + spent < MaxFailures => failures + spent + 1 \in 0..MaxFailures)
  BY <1>5
<1>7. CASE run.mode = "fresh" /\ Head(Queue) # "begin"
  <2>1. manifest' = manifest /\ outdated' = outdated
    BY <1>7 DEF Unwind, Restored, PutsBack
  <2>2. \/ /\ run' = IF mark' = None THEN Idle
                     ELSE [Run("rollback", <<>>) EXCEPT !.todo = DeepestFirst(mark.created)]
           /\ plugin' = IF run.plugged THEN [plugin EXCEPT ![active] = None] ELSE plugin
           /\ active' = IF run.plugged THEN None ELSE active
           /\ failures' = failures + spent
        \/ /\ failures + spent < MaxFailures
           /\ failures' = failures + spent + 1
           /\ run' = Idle /\ UNCHANGED <<plugin, active>>
    BY <1>3, <1>7 DEF Unwind
  <2>3. CASE /\ run' = IF mark' = None THEN Idle
                       ELSE [Run("rollback", <<>>) EXCEPT !.todo = DeepestFirst(mark.created)]
             /\ plugin' = IF run.plugged THEN [plugin EXCEPT ![active] = None] ELSE plugin
             /\ active' = IF run.plugged THEN None ELSE active
             /\ failures' = failures + spent
    BY <1>1, <1>4, <1>6, <1>7, <2>1, <2>3, RollsBackFits
  <2>4. CASE /\ failures + spent < MaxFailures
             /\ failures' = failures + spent + 1
             /\ run' = Idle /\ UNCHANGED <<plugin, active>>
    BY <1>1, <1>4, <1>5, <1>6, <2>1, <2>4, EndsFit
  <2> QED
    BY <2>2, <2>3, <2>4
<1>8. CASE ~(run.mode = "fresh" /\ Head(Queue) # "begin")
  <2>1. /\ run' = Idle
        /\ plugin' = IF Head(Queue) = "apply" THEN [plugin EXCEPT ![manifest] = run.old] ELSE plugin
        /\ failures' = failures + spent /\ active' = active
    BY <1>3, <1>8 DEF Unwind
  <2>2. failures' \in 0..MaxFailures
    BY <1>6, <2>1
  <2>3. CASE run.mode = "recover" \/ (run.mode = "upgrade" /\ Head(Queue) = "confirm")
    <3>1. plugin' = plugin /\ mark' = mark /\ disk' = disk
      BY <1>2, <1>4, <2>1, <2>3
    <3>2. manifest' = tx.slot \/ manifest' = None
      BY <1>3, <2>3 DEF Unwind, Restored
    <3>3. outdated' = outdated \/ outdated' = tx.outdated
      BY DEF Unwind
    <3> QED
      BY <1>1, <2>1, <2>2, <2>3, <3>1, <3>2, <3>3, UnbindsFits
  <2>4. CASE run.mode = "plan" /\ Head(Queue) = "apply"
    <3>1. manifest' = manifest /\ outdated' = outdated
      BY <2>4 DEF Unwind, Restored, PutsBack
    <3> QED
      BY <1>1, <1>4, <2>1, <2>2, <2>4, <3>1, RestoresFits
  <2>5. CASE /\ ~(run.mode = "recover" \/ (run.mode = "upgrade" /\ Head(Queue) = "confirm"))
             /\ ~(run.mode = "plan" /\ Head(Queue) = "apply")
    <3>1. manifest' = manifest /\ outdated' = outdated
      BY <1>3, <2>5 DEF Unwind, Restored, PutsBack
    <3>2. plugin' = plugin
      BY <1>2, <2>1, <2>5
    <3> QED
      BY <1>1, <1>4, <1>5, <2>1, <2>2, <3>1, <3>2, EndsFit
  <2> QED
    BY <2>3, <2>4, <2>5
<1> QED
  BY <1>7, <1>8

-----------------------------------------------------------------------------
(* The inductive invariant holds.                                          *)

LEMMA CleanFits == OwnershipInit /\ Clean => OwnershipFits
<1> SUFFICES ASSUME OwnershipInit, Clean PROVE OwnershipFits
  OBVIOUS
<1> USE DEF OwnershipInit, Clean
<1>1. run \in InstallRuns /\ run.mode = "none" /\ run.todo = <<>> /\ run.steps = <<>> /\ ~run.absent /\ run = Idle
  BY IdleIs
<1>2. Candidates = {}
  BY DEF Candidates
<1>3. OwnershipTypes
  <2>1. release \in Releases /\ crashes \in 0..MaxCrashes /\ failures \in 0..MaxFailures
    BY OwnershipAssumption DEF Releases
  <2>2. plugin \in [Slots -> Payloads \cup {None}]
    OBVIOUS
  <2> QED
    BY <1>1, <2>1, <2>2 DEF OwnershipTypes
<1>4. RunFits
  BY <1>1 DEF RunFits
<1>5. FreshFits /\ UndoFits /\ UpgradeFits /\ RecoverFits /\ PlanFits
  BY <1>1 DEF FreshFits, UndoFits, UpgradeFits, RecoverFits, PlanFits
<1>6. \A s \in Projects : plugin[s] # 0
  BY NoneIs DEF Slots
<1>7. ForeignFits /\ SlotsFit /\ KeptFits
  BY <1>2, <1>6 DEF ForeignFits, SlotsFit, KeptFits
<1> QED
  BY <1>3, <1>4, <1>5, <1>7 DEF OwnershipFits

LEMMA PreviousFits == OwnershipInit /\ Previous => OwnershipFits
<1> SUFFICES ASSUME OwnershipInit, Previous PROVE OwnershipFits
  OBVIOUS
<1> USE DEF OwnershipInit
<1>1. run \in InstallRuns /\ run.mode = "none" /\ run.todo = <<>> /\ run.steps = <<>> /\ ~run.absent /\ run = Idle
  BY IdleIs
<1>2. /\ disk = Roots /\ manifest \in Slots /\ outdated = TRUE /\ active = manifest /\ owned = 0
      /\ plugin = [s \in Slots |-> IF s = manifest THEN 0 ELSE None]
  BY DEF Previous
<1>3. 0 # None /\ 0 \in Payloads /\ None \notin Slots
  BY OwnershipAssumption DEF Payloads, Slots
<1>4. Candidates = {manifest} /\ plugin[manifest] = 0
  BY <1>2, <1>3 DEF Candidates
<1>5. mark = None \/ mark \in InstallMarkers
  <2> DEFINE created == <<"skill", "state", "appData", "launcher">>
  <2>1. created \in Seq(Roots)
    BY DEF Roots
  <2>2. mark \in {None, [state |-> "committed", created |-> created, appPre |-> FALSE]}
    BY DEF Previous
  <2>3. \A c \in Seq(Roots) : [state |-> "committed", created |-> c, appPre |-> FALSE] \in InstallMarkers
    BY ONLY DEF InstallMarkers
  <2> HIDE DEF created
  <2> QED
    BY ONLY <2>1, <2>2, <2>3
<1>6. OwnershipTypes
  <2>1. release \in Releases /\ crashes \in 0..MaxCrashes /\ failures \in 0..MaxFailures
    BY OwnershipAssumption DEF Releases
  <2>2. plugin \in [Slots -> Payloads \cup {None}]
    BY <1>2, <1>3
  <2>3. "state" \in disk /\ disk \subseteq Roots
    BY <1>2 DEF Roots
  <2> QED
    BY <1>1, <1>2, <1>3, <1>5, <2>1, <2>2, <2>3 DEF OwnershipTypes
<1>7. RunFits
  BY <1>1 DEF RunFits
<1>8. FreshFits /\ UndoFits /\ UpgradeFits /\ RecoverFits /\ PlanFits
  BY <1>1 DEF FreshFits, UndoFits, UpgradeFits, RecoverFits, PlanFits
<1>9. \A s \in Projects : plugin[s] = 0 => Candidates = {s}
  BY <1>2, <1>3, <1>4 DEF Slots
<1>10. SlotsFit
  BY <1>2, <1>3, <1>4, <1>9 DEF SlotsFit
<1>11. ForeignFits /\ KeptFits
  BY <1>2, <1>4 DEF ForeignFits, KeptFits, HasPrior, Roots
<1> QED
  BY <1>6, <1>7, <1>8, <1>10, <1>11 DEF OwnershipFits

LEMMA OwnershipStarts == OwnershipInit => OwnershipFits
  BY CleanFits, PreviousFits DEF OwnershipInit

LEMMA OwnershipKept == OwnershipFits /\ [OwnershipNext]_ownershipVars => OwnershipFits'
<1> SUFFICES ASSUME OwnershipFits, [OwnershipNext]_ownershipVars PROVE OwnershipFits'
  OBVIOUS
<1>1. CASE UNCHANGED ownershipVars
  <2> USE DEF ownershipVars
  <2>1. OwnershipTypes'
    BY <1>1 DEF OwnershipFits, OwnershipTypes
  <2>2. RunFits'
    BY <1>1 DEF OwnershipFits, RunFits, LastOf
  <2>3. \A a : (Remains(a)' <=> Remains(a)) /\ (Covered(a)' <=> Covered(a)) /\ (Shared(a)' <=> Shared(a))
    BY <1>1 DEF Remains, Covered, Recorded, Shared
  <2>4. Candidates' = Candidates /\ (Unfinished' <=> Unfinished) /\ (Exposed' <=> Exposed) /\ (Retirable(manifest)' <=> Retirable(manifest))
    BY <1>1 DEF Candidates, Unfinished, Exposed, Due, Recorded, Retirable, Managed, Current
  <2>5. FreshFits'
    BY <1>1, <2>3, <2>4 DEF OwnershipFits, FreshFits
  <2>6. UndoFits' /\ ForeignFits'
    BY <1>1, <2>3, <2>4 DEF OwnershipFits, UndoFits, ForeignFits
  <2>7. SlotsFit'
    BY <1>1, SlotsStay DEF OwnershipFits
  <2>8. UpgradeFits'
    <3>1. CASE run.mode # "upgrade"
      BY <1>1, <3>1 DEF UpgradeFits
    <3>2. CASE run.mode = "upgrade"
      <4>1. UpgradeFits
        BY DEF OwnershipFits
      <4>2. UNCHANGED <<disk, manifest, plugin, active, backups, tx, run, release, owned>>
        BY <1>1
      <4> QED
        BY ONLY <2>3, <2>4, <4>1, <4>2 DEF UpgradeFits
    <3> QED
      BY <3>1, <3>2
  <2>9. RecoverFits'
    BY <1>1, <2>3, <2>4 DEF OwnershipFits, RecoverFits
  <2>10. PlanFits' /\ KeptFits'
    BY <1>1, <2>3 DEF OwnershipFits, PlanFits, KeptFits, HasPrior, Undone
  <2> QED
    BY <2>1, <2>2, <2>5, <2>6, <2>7, <2>8, <2>9, <2>10 DEF OwnershipFits
<1>2. CASE Raise
  <2>1. Queue # <<>> /\ Torn(FALSE) /\ Unwind(0)
    BY <1>2 DEF Raise, Queue
  <2>2. PICK torn \in BOOLEAN : Torn(torn)
    BY <2>1
  <2>3. PICK spent \in {0, 1} : spent = 0
    OBVIOUS
  <2> QED
    BY <2>1, <2>2, <2>3, UnwindFits
<1>3. CASE Fail
  <2>1. Queue # <<>> /\ failures < MaxFailures /\ Unwind(1)
    BY <1>3 DEF Fail, Queue
  <2>2. PICK torn \in BOOLEAN : Torn(torn)
    BY <1>3 DEF Fail
  <2> QED
    BY <2>1, <2>2, UnwindFits
<1>4. CASE InstallerStep
  BY <1>4, BeginFits, TestAppDataFits, RecordFits, PlaceRootFits, PrepareFits, InstallFits, BindFits, ConfirmFits,
     CompleteFits, RetireFits, ApplyFits, UndoRootFits, EndUndoFits, ClassifyFits DEF InstallerStep
<1>5. CASE Preflight \/ StartRecovery \/ StartPlan \/ NextRelease \/ RecordsFail \/ Crash \/ OtherWorkspace
  BY <1>5, PreflightFits, StartRecoveryFits, StartPlanFits, NextReleaseFits, RecordsFailFits, CrashFits, OtherWorkspaceFits
<1> QED
  BY <1>1, <1>2, <1>3, <1>4, <1>5 DEF OwnershipNext

-----------------------------------------------------------------------------
(* What it implies.                                                        *)

LEMMA JournalFits == OwnershipFits => ArtifactsAreJournalled
<1> SUFFICES ASSUME OwnershipFits, run.mode = "fresh", mark # None, NEW root \in disk
             PROVE  root = "state" \/ Recorded(root) \/ root \in run.missed \/ (root = "appData" /\ foreign # "no")
  BY DEF ArtifactsAreJournalled
<1>1. Covered(root) \/ root = "state"
  BY FreshHas
<1> QED
  BY <1>1 DEF Covered, Shared

LEMMA PriorFits == OwnershipFits => PriorGenerationIsKept
<1> SUFFICES ASSUME OwnershipFits, owned # None, Bindable
             PROVE  owned \in backups \/ \E s \in Slots : plugin[s] = owned
  BY DEF PriorGenerationIsKept
<1>1. manifest # None \/ (mark # None /\ mark.state = "committed")
  BY DEF Bindable
<1>2. HasPrior
  BY <1>1, WorksOnKept DEF OwnershipFits
<1> QED
  BY <1>2 DEF HasPrior

LEMMA PairSize ==
  ASSUME NEW a, NEW b, a # b
  PROVE  Cardinality({a, b}) > 1
<1>1. IsFiniteSet({a}) /\ Cardinality({a}) = 1
  BY FS_Singleton
<1>2. Cardinality({a} \cup {b}) = Cardinality({a}) + 1
  BY <1>1, FS_AddElement
<1>3. {a, b} = {a} \cup {b}
  OBVIOUS
<1> QED
  BY <1>1, <1>2, <1>3

(* Either one generation is there, or two of which the active one is the   *)
(* candidate.                                                              *)
LEMMA ReentrantFits == OwnershipFits => UpgradeIsReentrant
<1> SUFFICES ASSUME OwnershipFits, run = Idle, owned # None, manifest # None, ArtifactsExist
             PROVE  \/ Classified(release) # "refused"
                    \/ Cardinality(Candidates) > 1 /\ (Direct \in Candidates \/ manifest = active)
                    \/ outdated /\ plugin[manifest] = None
  BY DEF UpgradeIsReentrant
<1>1. manifest \in Slots
  BY DEF OwnershipFits, OwnershipTypes
<1>2. active \in Slots /\ plugin[active] # None /\ active # None /\ active \in Candidates
  BY SlotTypes DEF OwnershipFits, SlotsFit
<1>3. \/ manifest = active /\ (Candidates = {active} \/ Unfinished)
      \/ Unfinished /\ Candidates \subseteq {manifest, active}
  BY DEF OwnershipFits, SlotsFit
<1>4. manifest \in Candidates <=> plugin[manifest] # None
  BY <1>1, SlotTypes DEF OwnershipFits
<1>5. CASE manifest = active /\ Candidates = {active}
  BY <1>2, <1>5 DEF Classified
<1>6. CASE manifest = active /\ Candidates # {active}
  <2>1. PICK s \in Slots : Candidates \subseteq {s, active}
    BY DEF OwnershipFits, SlotsFit
  <2>2. Candidates = {s, active} /\ s # active
    BY <1>2, <1>6, <2>1
  <2>3. Cardinality(Candidates) > 1
    BY <2>2, PairSize
  <2> QED
    BY <1>6, <2>3
<1>7. CASE manifest # active
  <2>1. plugin[active] = release /\ Candidates \subseteq {manifest, active}
    BY <1>3, <1>7 DEF Unfinished
  <2>2. CASE plugin[manifest] = None
    <3>1. Candidates = {active}
      BY <1>2, <1>4, <2>1, <2>2
    <3>2. CASE outdated
      BY <2>2, <3>2
    <3>3. CASE ~outdated
      BY <1>2, <2>1, <2>2, <3>1, <3>3 DEF Classified, Reentry, Attested
    <3> QED
      BY <3>2, <3>3
  <2>3. CASE plugin[manifest] # None
    <3>1. Candidates = {manifest, active}
      BY <1>2, <1>4, <2>1, <2>3
    <3>2. Cardinality(Candidates) > 1
      BY <1>7, <3>1, PairSize
    <3>3. CASE Direct \in Candidates
      BY <3>2, <3>3
    <3>4. CASE Direct \notin Candidates
      <4>1. manifest \in Projects /\ active \in Projects
        BY <1>1, <1>2, <3>1, <3>4 DEF Slots
      <4>2. plugin[manifest] # 0 /\ plugin[active] # 0
        BY <1>7, <3>1, <4>1 DEF OwnershipFits, SlotsFit
      <4>3. Managed(manifest) /\ Managed(active)
        BY <3>1, <4>1, <4>2 DEF Managed, Current
      <4>4. ExactRollover(release)
        BY <1>2, <1>7, <2>1, <3>1, <4>3 DEF ExactRollover, Attested
      <4>5. Classified(release) = "exact"
        BY <1>7, <2>3, <3>1, <4>4 DEF Classified
      <4> QED
        BY <4>5
    <3> QED
      BY <3>3, <3>4
  <2> QED
    BY <2>2, <2>3
<1> QED
  BY <1>3, <1>5, <1>6, <1>7

LEMMA OwnershipImplies == OwnershipFits => OwnershipInv
  BY JournalFits, PriorFits, ReentrantFits DEF OwnershipFits, OwnershipInv

(* The state invariants of ownership hold: what a fresh attempt makes is   *)
(* recorded in its marker before it is made, unless the record failed; the *)
(* payload of the last completed installation survives every upgrade, crash *)
(* and failed step; and a workspace in which an upgrade stopped is accepted *)
(* again, unless the previous version's manifest lost its plugin or two    *)
(* generations are there that the rollover does not accept.                *)
THEOREM OwnershipIsSound == OwnershipSpec => []OwnershipInv
<1>1. OwnershipSpec => []OwnershipFits
  BY OwnershipStarts, OwnershipKept, PTL DEF OwnershipSpec
<1> QED
  BY <1>1, OwnershipImplies, PTL

-----------------------------------------------------------------------------
(* What a step may never do. *)

(* Without a binding and under a committed marker only a recovery runs, or *)
(* a command that ends at once.                                            *)
LEMMA QuarantineStep ==
  ASSUME OwnershipFits, [OwnershipNext]_ownershipVars, manifest = None, mark # None, mark.state = "committed"
  PROVE  disk \subseteq disk' /\ plugin' = plugin /\ mark' = mark
<1> USE DEF OwnershipFits
<1>1. run.mode \notin {"rollback", "preflight", "upgrade", "plan"}
  <2>1. ~(mark = None \/ mark.state = "incomplete")
    OBVIOUS
  <2>2. run.mode # "plan"
    BY SlotTypes DEF PlanFits
  <2> QED
    BY <2>1, <2>2 DEF UndoFits, UpgradeFits
<1>2. run.mode # "fresh"
  BY DEF FreshFits
<1>3. Queue # <<>> => run.mode = "recover" /\ Head(Queue) \in {"restore", "finalize", "confirm"}
  BY <1>1, <1>2, RunStepIs DEF Doing
<1>4. \A a : Due(a) => run.mode = "recover" /\ a \in {"restore", "finalize", "confirm"}
  BY <1>3, DueIs
<1>5. CASE UNCHANGED ownershipVars
  BY <1>5 DEF ownershipVars
<1>6. CASE Preflight \/ StartRecovery \/ StartPlan \/ NextRelease \/ OtherWorkspace
  BY <1>6 DEF Preflight, StartRecovery, StartPlan, NextRelease, OtherWorkspace
<1>7. ASSUME NEW torn \in BOOLEAN, Torn(torn) PROVE disk' = disk /\ mark' = mark
  BY <1>4, <1>7 DEF Torn, Writing
<1>8. CASE Crash
  BY <1>7, <1>8 DEF Crash
<1>9. CASE InstallerStep
  <2>1. CASE Bind
    BY <2>1 DEF Bind
  <2>2. CASE Confirm
    BY <2>2 DEF Confirm
  <2>3. CASE UndoRoot \/ EndUndo
    BY <1>1, <2>3 DEF UndoRoot, EndUndo
  <2>4. CASE Classify
    BY <2>4 DEF Classify
  <2>5. CASE Begin \/ TestAppData \/ RecordRoots \/ PrepareRollover \/ InstallPlugin \/ Complete \/ Retire \/ Apply
    BY <1>4, <2>5 DEF Begin, TestAppData, RecordRoots, Record, PrepareRollover, InstallPlugin, Complete, Retire, Apply
  <2>6. CASE PlaceRoot
    BY <1>4, <2>6 DEF PlaceRoot
  <2> QED
    BY <1>9, <2>1, <2>2, <2>3, <2>4, <2>5, <2>6 DEF InstallerStep
<1>10. CASE RecordsFail
  BY <1>4, <1>10 DEF RecordsFail, RecordFails
<1>11. CASE Raise \/ Fail
  <2>1. PICK spent \in {0, 1} : Unwind(spent) /\ \E torn \in BOOLEAN : Torn(torn)
    BY <1>11 DEF Raise, Fail
  <2>2. ~Due("apply")
    BY <1>4
  <2>3. plugin' = plugin
    BY <1>2, <2>1, <2>2 DEF Unwind
  <2> QED
    BY <1>7, <2>1, <2>3
<1> QED
  BY <1>5, <1>6, <1>8, <1>9, <1>10, <1>11 DEF OwnershipNext

(* While the ownership manifest is quarantined under a committed marker no *)
(* step removes a root, touches a plugin or rewrites the marker.           *)
THEOREM QuarantineHolds == OwnershipSpec => QuarantineAuthorisesNothing
<1> DEFINE Holds == (manifest = None /\ mark # None /\ mark.state = "committed")
                      => disk \subseteq disk' /\ plugin' = plugin /\ mark' = mark
<1>1. OwnershipFits /\ [OwnershipNext]_ownershipVars => [Holds]_ownershipVars
  BY QuarantineStep
<1>2. OwnershipSpec => [][Holds]_ownershipVars
  BY <1>1, OwnershipStarts, OwnershipKept, PTL DEF OwnershipSpec
<1> QED
  BY <1>2, PTL DEF QuarantineAuthorisesNothing

(* An application data root that another workspace made, and that this     *)
(* attempt has not taken for its own, is never among what it undoes.       *)
LEMMA ForeignStep ==
  ASSUME OwnershipFits, [OwnershipNext]_ownershipVars, foreign = "spared", "appData" \in disk
  PROVE  "appData" \in disk'
<1> USE DEF OwnershipFits
<1>1. CASE UNCHANGED ownershipVars
  BY <1>1 DEF ownershipVars
<1>2. CASE Preflight \/ StartRecovery \/ StartPlan \/ NextRelease \/ OtherWorkspace \/ RecordsFail
  BY <1>2 DEF Preflight, StartRecovery, StartPlan, NextRelease, OtherWorkspace, RecordsFail, RecordFails
<1>3. CASE Raise \/ Fail \/ Crash
  BY <1>3 DEF Raise, Fail, Crash, Torn
<1>4. CASE UndoRoot
  <2>1. run.todo # <<>> /\ run.todo \in Seq(Roots)
    BY <1>4, RunModes DEF UndoRoot
  <2>2. 1 \in 1..Len(run.todo) /\ Head(run.todo) = run.todo[1]
    BY <2>1
  <2>3. Head(run.todo) # "appData"
    BY <2>2 DEF ForeignFits, Exposed
  <2>4. disk' = disk \ {Head(run.todo)} \/ disk' = disk
    BY <1>4 DEF UndoRoot
  <2> QED
    BY <2>3, <2>4
<1>5. CASE InstallerStep /\ ~UndoRoot
  <2>1. CASE Begin \/ TestAppData \/ RecordRoots \/ PrepareRollover \/ InstallPlugin \/ Complete \/ Retire \/ Apply
    BY <2>1 DEF Begin, TestAppData, RecordRoots, Record, PrepareRollover, InstallPlugin, Complete, Retire, Apply
  <2>2. CASE Bind \/ Confirm \/ EndUndo \/ Classify
    BY <2>2 DEF Bind, Confirm, EndUndo, Classify
  <2>3. CASE PlaceRoot
    BY <2>3 DEF PlaceRoot
  <2> QED
    BY <1>5, <2>1, <2>2, <2>3 DEF InstallerStep
<1> QED
  BY <1>1, <1>2, <1>3, <1>4, <1>5 DEF OwnershipNext

(* No rollback removes the application data root that another workspace's  *)
(* installation made before this attempt took it for its own.              *)
THEOREM ForeignDataStays == OwnershipSpec => ForeignDataSurvives
<1>1. OwnershipFits /\ [OwnershipNext]_ownershipVars => [foreign = "spared" /\ "appData" \in disk => "appData" \in disk']_ownershipVars
  BY ForeignStep
<1>2. OwnershipSpec => [][foreign = "spared" /\ "appData" \in disk => "appData" \in disk']_ownershipVars
  BY <1>1, OwnershipStarts, OwnershipKept, PTL DEF OwnershipSpec
<1> QED
  BY <1>2, PTL DEF ForeignDataSurvives

-----------------------------------------------------------------------------
(* What an upgrade gives up for. *)

(* The registered plugin is the candidate's or the last complete one, and  *)
(* an upgrade replaces the last complete one, under that name.             *)
OriginFits ==
  /\ owned # None => plugin[active] \in {owned, release}
  /\ run.mode = "upgrade" /\ Has(Queue, "confirm") =>
       IF Has(Queue, "prepare") THEN plugin[manifest] = owned ELSE tx.old = owned

LEMMA OriginStays ==
  ASSUME OriginFits, run'.mode # "upgrade", UNCHANGED <<owned, release, plugin, active>>
  PROVE  OriginFits'
  BY DEF OriginFits

LEMMA OriginGoesOn ==
  ASSUME OwnershipFits, OriginFits, Queue # <<>>, Taken, Head(Queue) # "prepare",
         UNCHANGED <<owned, release, tx>>, owned # None => plugin'[active'] \in {owned, release},
         run.mode = "upgrade" =>
            UNCHANGED <<manifest, plugin, active>> \/ ~Has(Queue, "prepare") \/ ~Has(Queue, "confirm")
  PROVE  OriginFits'
<1>1. Queue \in Seq(InstallSteps) /\ Queue' = Tail(Queue) /\ run'.mode = run.mode
  BY RunModes DEF OwnershipFits, Taken, Queue
<1>2. /\ Has(Queue', "confirm") => Has(Queue, "confirm")
      /\ Has(Queue', "prepare") <=> Has(Queue, "prepare")
  BY <1>1, TailHas
<1>3. ASSUME run'.mode = "upgrade", Has(Queue', "confirm")
      PROVE  IF Has(Queue', "prepare") THEN plugin'[manifest'] = owned' ELSE tx'.old = owned'
  <2>1. run.mode = "upgrade" /\ Has(Queue, "confirm")
    BY <1>1, <1>2, <1>3
  <2> QED
    BY <1>2, <2>1 DEF OriginFits
<1> QED
  BY <1>3 DEF OriginFits

(* A step that leaves plugins and transaction alone.                       *)
LEMMA OriginOfSteps ==
  ASSUME OwnershipFits, OriginFits, TestAppData \/ RecordRoots \/ RecordsFail \/ PlaceRoot \/ Bind \/ Begin
  PROVE  OriginFits'
<1> USE DEF OwnershipFits
<1>1. /\ Queue # <<>> /\ Taken /\ Head(Queue) # "prepare"
      /\ UNCHANGED <<owned, release, tx, plugin, active>>
      /\ manifest' = manifest \/ Head(Queue) \in {"finalize", "restore", "create"}
  <2>1. CASE TestAppData
    <3> DEFINE absent == AppDataAbsent
    <3>1. Queue # <<>> /\ Head(Queue) = "testAppData" /\ run' = Looked(run, absent)
          /\ UNCHANGED <<owned, release, tx, plugin, active, manifest>>
      BY <2>1 DEF TestAppData, Due, Queue, Looked
    <3>2. absent \in BOOLEAN
      BY DEF AppDataAbsent
    <3> HIDE DEF absent
    <3>3. run.steps # <<>> /\ run \in InstallRuns
      BY <3>1, RunModes DEF Queue
    <3>4. Stepped(run, run')
      BY ONLY <3>1, <3>2, <3>3, RunAbsent
    <3> QED
      BY <3>1, <3>4 DEF Taken, Stepped
  <2>2. CASE RecordsFail
    BY <2>2, RunModes, RunMisses DEF RecordsFail, RecordFails, Taken, Stepped, Missing, Due, Queue, Roots
  <2>3. CASE RecordRoots \/ PlaceRoot \/ Bind \/ Begin
    <3>1. Queue # <<>> /\ Proceed
      BY <2>3 DEF RecordRoots, Record, PlaceRoot, Bind, Begin, Due, Queue
    <3>2. Taken
      BY <3>1, RunTakes
    <3> QED
      BY <2>3, <3>1, <3>2 DEF RecordRoots, Record, PlaceRoot, Bind, Begin, Due, Queue
  <2> QED
    BY <2>1, <2>2, <2>3
<1>2. ASSUME run.mode = "upgrade", manifest' # manifest
      PROVE  ~Has(Queue, "prepare") \/ ~Has(Queue, "confirm")
  <2>1. UpgradeList(Queue) /\ Queue \in Seq(InstallSteps) /\ Head(Queue) \in UpgradeNames
    BY <1>1, <1>2, RunStepIs DEF Doing
  <2>2. Head(Queue) \in {"finalize", "create"}
    BY <1>1, <1>2, <2>1 DEF UpgradeNames
  <2> QED
    BY <1>1, <2>1, <2>2, UpgradeHead
<1>3. owned # None => plugin'[active'] \in {owned, release}
  BY <1>1 DEF OriginFits
<1> QED
  BY <1>1, <1>2, <1>3, OriginGoesOn

LEMMA OriginOfInstall ==
  ASSUME OwnershipFits, OriginFits, InstallPlugin
  PROVE  OriginFits'
<1> USE DEF OwnershipFits
<1>1. PICK slot \in Slots, keep \in BOOLEAN :
        /\ plugin' = [s \in Slots |-> IF s = slot THEN release
                                      ELSE IF s = manifest /\ ~keep THEN None
                                      ELSE plugin[s]]
        /\ active' = slot
  BY DEF InstallPlugin
<1>2. plugin'[active'] = release /\ UNCHANGED <<owned, release, tx>>
  BY <1>1 DEF InstallPlugin
<1>3. Queue # <<>> /\ Head(Queue) = "installPlugin" /\ Taken
  <2> DEFINE b == run.mode = "fresh"
  <2>1. Queue # <<>> /\ Head(Queue) = "installPlugin" /\ run' = Plugging(run, b)
    BY DEF InstallPlugin, Due, Queue, Plugging
  <2>2. b \in BOOLEAN
    OBVIOUS
  <2> HIDE DEF b
  <2>3. run.steps # <<>> /\ run \in InstallRuns
    BY <2>1, RunModes DEF Queue
  <2>4. Stepped(run, run')
    BY ONLY <2>1, <2>2, <2>3, RunPlug
  <2> QED
    BY <2>1, <2>4 DEF Taken, Stepped
<1>4. run.mode = "upgrade" => ~Has(Queue, "prepare")
  BY <1>3, RunStepIs, UpgradeHead DEF Doing
<1> QED
  BY <1>2, <1>3, <1>4, OriginGoesOn

LEMMA OriginOfPrepare ==
  ASSUME OwnershipFits, OriginFits, PrepareRollover
  PROVE  OriginFits'
<1> USE DEF OwnershipFits
<1>1. /\ Queue # <<>> /\ Head(Queue) = "prepare" /\ Proceed
      /\ tx'.old = plugin[manifest] /\ UNCHANGED <<owned, release, plugin, active>>
  BY DEF PrepareRollover, Due, Queue
<1>2. Queue \in Seq(InstallSteps) /\ UpgradeList(Queue) /\ run.mode = "upgrade"
  BY <1>1, RunStepIs DEF Doing, FreshNames
<1>3. Queue' = Tail(Queue) /\ run'.mode = run.mode
  BY <1>1, RunTakes DEF Taken, Queue
<1>4. Has(Queue, "prepare") /\ ~Has(Queue', "prepare") /\ (Has(Queue', "confirm") => Has(Queue, "confirm"))
  BY <1>1, <1>2, <1>3, UpgradeHead, TailHas
<1> QED
  BY <1>1, <1>2, <1>4 DEF OriginFits

(* A step that ends in another mode.                                       *)
LEMMA OriginOfEnds ==
  ASSUME OwnershipFits, OriginFits,
         \/ Confirm \/ Retire \/ Apply \/ UndoRoot \/ EndUndo \/ Preflight \/ StartRecovery \/ StartPlan
         \/ NextRelease \/ Crash \/ OtherWorkspace
  PROVE  OriginFits'
<1> USE DEF OwnershipFits
<1>1. CASE Preflight \/ StartRecovery \/ StartPlan \/ EndUndo \/ Crash \/ Apply
  <2>1. UNCHANGED <<owned, release, plugin, active>>
    BY <1>1 DEF Preflight, StartRecovery, StartPlan, EndUndo, Crash, Apply
  <2>2. run'.mode # "upgrade"
    BY <1>1, IdleIs, ClassifyIs, StartIs, ScriptSteps DEF Preflight, StartRecovery, StartPlan, EndUndo, Crash, Apply, Run, Idle
  <2> QED
    BY <2>1, <2>2, OriginStays
<1>2. CASE UndoRoot
  <2>1. UNCHANGED <<owned, release, plugin, active>> /\ run.mode # "upgrade"
    BY <1>2 DEF UndoRoot
  <2>2. run' = [run EXCEPT !.todo = Tail(run.todo)] \/ run' = [run EXCEPT !.todo = Tail(run.todo), !.errors = TRUE]
    BY <1>2 DEF UndoRoot
  <2>3. run'.mode = run.mode
    BY <2>2, RunModes DEF InstallRuns
  <2> QED
    BY <2>1, <2>3, OriginStays
<1>3. CASE NextRelease
  <2>1. run' = Idle /\ owned = release /\ UNCHANGED <<owned, plugin, active>>
    BY <1>3 DEF NextRelease
  <2> QED
    BY <2>1, IdleIs DEF OriginFits
<1>4. CASE OtherWorkspace
  BY <1>4 DEF OtherWorkspace, OriginFits, Queue
<1>5. CASE Confirm
  <2>1. Queue # <<>> /\ Head(Queue) = "confirm" /\ UNCHANGED <<owned, release, tx, plugin, active, manifest>>
    BY <1>5 DEF Confirm, Due, Queue
  <2>2. CASE run.mode = "recover"
    BY <1>5, <2>1, <2>2, IdleIs, OriginStays DEF Confirm
  <2>3. CASE run.mode # "recover"
    <3>1. Proceed
      BY <1>5, <2>3 DEF Confirm, Proceed
    <3> QED
      BY <2>1, <3>1, RunTakes, OriginGoesOn DEF OriginFits
  <2> QED
    BY <2>2, <2>3
<1>6. CASE Retire
  <2>1. Queue # <<>> /\ Head(Queue) = "retire" /\ UNCHANGED <<owned, release, tx, active>>
        /\ plugin' = [plugin EXCEPT ![manifest] = None]
    BY <1>6 DEF Retire, Due, Queue
  <2>2. run.mode = "plan"
    BY <2>1, RunStepIs DEF Doing, FreshNames, UpgradeNames
  <2>3. manifest # active
    BY <2>2 DEF PlanFits
  <2>4. owned # None => plugin'[active] = plugin[active]
    BY <2>1, <2>3 DEF SlotsFit, OwnershipTypes
  <2>5. run'.mode = "plan"
    BY <1>6, <2>2, RunModes DEF Retire, InstallRuns
  <2> QED
    BY <2>1, <2>4, <2>5 DEF OriginFits
<1> QED
  BY <1>1, <1>2, <1>3, <1>4, <1>5, <1>6

LEMMA OriginOfComplete ==
  ASSUME OwnershipFits, OwnershipFits', Complete
  PROVE  OriginFits'
<1>1. owned' = plugin[manifest] /\ run' = Idle /\ UNCHANGED <<release, plugin, active, manifest>>
      /\ \E s \in Slots : s = manifest
  BY DEF Complete, Proven, Verified, Due, Current, Candidates
<1>2. ASSUME owned' # None PROVE plugin'[active'] \in {owned', release'}
  <2>1. manifest' # None
    BY <1>1, SlotTypes DEF OwnershipFits
  <2>2. manifest' = active' \/ Unfinished'
    BY <1>2, <2>1 DEF OwnershipFits, SlotsFit
  <2>3. manifest' = active' \/ plugin'[active'] = release'
    BY <2>2 DEF Unfinished
  <2> QED
    BY <1>1, <2>3
<1> QED
  BY <1>1, <1>2, IdleIs DEF OriginFits

LEMMA OriginOfClassify ==
  ASSUME OwnershipFits, OwnershipFits', OriginFits, Classify
  PROVE  OriginFits'
<1>1. UNCHANGED <<owned, release, plugin, active, manifest>>
  BY DEF Classify
<1>2. \/ run' = Run("upgrade", ExactSteps)
      \/ Classified(release) = "upgrade" /\ run' = Run("upgrade", UpgradeSteps)
      \/ run' = Run("fresh", FreshSteps) \/ run' = Idle
  BY DEF Classify
<1>3. CASE run' = Idle \/ run' = Run("fresh", FreshSteps)
  BY <1>1, <1>3, IdleIs, StartIs, ScriptSteps, OriginStays
<1>4. CASE run' = Run("upgrade", ExactSteps)
  <2>1. ~Has(Queue', "confirm")
    BY <1>4, StartIs, ScriptSteps, ScriptHas
  <2> QED
    BY <1>1, <2>1 DEF OriginFits
<1>5. CASE Classified(release) = "upgrade" /\ run' = Run("upgrade", UpgradeSteps)
  <2>1. plugin[manifest] # release
    BY <1>5 DEF Classified
  <2>2. run'.mode = "upgrade" /\ Has(Queue', "prepare") /\ Has(Queue', "installPlugin")
    BY <1>5, StartIs, ScriptSteps, ScriptHas
  <2>3. owned' # None /\ active' = manifest'
    BY <2>2, RemainsNext DEF OwnershipFits, UpgradeFits
  <2>4. plugin'[manifest'] = owned'
    BY <1>1, <2>1, <2>3 DEF OriginFits
  <2> QED
    BY <1>1, <2>2, <2>4 DEF OriginFits
<1> QED
  BY <1>2, <1>3, <1>4, <1>5

LEMMA OriginOfUnwind ==
  ASSUME OwnershipFits, OwnershipFits', OriginFits, NEW spent, Unwind(spent)
  PROVE  OriginFits'
<1> USE DEF OwnershipFits
<1>1. UNCHANGED <<release, owned>> /\ run'.mode # "upgrade"
  <2>1. run' = Idle \/ run' = [Run("rollback", <<>>) EXCEPT !.todo = DeepestFirst(mark.created)]
    BY DEF Unwind
  <2> QED
    BY <2>1, IdleIs DEF Unwind, Run, Idle
<1>2. CASE run.mode = "fresh"
  BY <1>1, <1>2 DEF OriginFits, FreshFits, Unwind
<1>3. CASE run.mode # "fresh" /\ Due("apply")
  <2>1. run.mode = "plan"
    BY <1>3, DueIs, RunStepIs DEF Doing, FreshNames, UpgradeNames
  <2>2. plugin' = [plugin EXCEPT ![manifest] = run.old] /\ active' = active
    BY <1>3 DEF Unwind
  <2>3. manifest # active
    BY <2>1 DEF PlanFits
  <2>4. owned # None => plugin'[active] = plugin[active]
    BY <2>2, <2>3 DEF SlotsFit, OwnershipTypes
  <2> QED
    BY <1>1, <2>2, <2>4 DEF OriginFits
<1>4. CASE run.mode # "fresh" /\ ~Due("apply")
  BY <1>1, <1>4, OriginStays DEF Unwind
<1> QED
  BY <1>2, <1>3, <1>4

LEMMA OriginStarts == OwnershipInit => OriginFits
<1> SUFFICES ASSUME OwnershipInit PROVE OriginFits
  OBVIOUS
<1>1. run.mode # "upgrade"
  BY IdleIs DEF OwnershipInit
<1>2. CASE Clean
  BY <1>1, <1>2 DEF Clean, OriginFits
<1>3. CASE Previous
  <2>1. plugin[active] = 0 /\ owned = 0
    BY <1>3 DEF Previous
  <2> QED
    BY <1>1, <2>1 DEF OriginFits
<1> QED
  BY <1>2, <1>3 DEF OwnershipInit

LEMMA OriginKept ==
  ASSUME OwnershipFits, OwnershipFits', OriginFits, [OwnershipNext]_ownershipVars
  PROVE  OriginFits'
<1>1. CASE UNCHANGED ownershipVars
  BY <1>1 DEF ownershipVars, OriginFits, Queue
<1>2. CASE Raise \/ Fail
  BY <1>2, OriginOfUnwind DEF Raise, Fail
<1>3. CASE InstallerStep
  BY <1>3, OriginOfSteps, OriginOfInstall, OriginOfPrepare, OriginOfEnds, OriginOfComplete, OriginOfClassify DEF InstallerStep
<1>4. CASE RecordsFail
  BY <1>4, OriginOfSteps
<1>5. CASE Preflight \/ StartRecovery \/ StartPlan \/ NextRelease \/ Crash \/ OtherWorkspace
  BY <1>5, OriginOfEnds
<1> QED
  BY <1>1, <1>2, <1>3, <1>4, <1>5 DEF OwnershipNext

LEMMA GivenUpStep ==
  ASSUME OwnershipFits, OriginFits, [OwnershipNext]_ownershipVars, run.mode = "upgrade", run' = Idle, manifest' # manifest
  PROVE  manifest' = IF plugin[tx.slot] = owned THEN tx.slot ELSE None
<1> USE DEF OwnershipFits
<1>1. Raise \/ Fail
  <2>1. ~UNCHANGED ownershipVars
    BY DEF ownershipVars
  <2>2. ~(Preflight \/ StartRecovery \/ StartPlan \/ NextRelease \/ Crash \/ OtherWorkspace \/ RecordsFail)
    BY DEF Preflight, StartRecovery, StartPlan, NextRelease, Crash, OtherWorkspace, RecordsFail, RecordFails
  <2>3. ~(Begin \/ TestAppData \/ RecordRoots \/ PlaceRoot \/ PrepareRollover \/ InstallPlugin)
    BY DEF Begin, TestAppData, RecordRoots, Record, PlaceRoot, PrepareRollover, InstallPlugin
  <2>4. ~(Confirm \/ Complete \/ Retire \/ UndoRoot \/ EndUndo \/ Classify)
    BY DEF Confirm, Complete, Retire, UndoRoot, EndUndo, Classify
  <2>5. ~Apply
    BY DueIs, RunStepIs DEF Apply, Doing, UpgradeNames
  <2>6. ~Bind
    <3>1. SUFFICES ASSUME Bind PROVE FALSE
      OBVIOUS
    <3>2. Queue # <<>> /\ Proceed
      BY <3>1 DEF Bind, Due, Queue
    <3> QED
      BY <3>2, RunTakes, IdleIs DEF Taken
  <2> QED
    BY <2>1, <2>2, <2>3, <2>4, <2>5, <2>6 DEF OwnershipNext, InstallerStep
<1>2. manifest' = Restored
  BY <1>1 DEF Raise, Fail, Unwind
<1>3. Due("confirm")
  BY <1>2 DEF Restored
<1>4. Queue # <<>> /\ Head(Queue) = "confirm"
  BY <1>3, DueIs
<1>5. Queue \in Seq(InstallSteps) /\ UpgradeList(Queue)
  BY <1>4, RunStepIs DEF Doing
<1>6. Has(Queue, "confirm") /\ ~Has(Queue, "installPlugin")
  BY <1>4, <1>5, UpgradeHead
<1>7. ~Has(Queue, "prepare")
  <2>1. Follows(Queue, "prepare", "installPlugin") /\ Len(Queue) \in Nat
    BY <1>5, LenProperties DEF UpgradeList
  <2> QED
    BY <1>6, <2>1 DEF Follows, Has
<1>8. tx.old = owned
  BY <1>6, <1>7 DEF OriginFits
<1> QED
  BY <1>2, <1>3, <1>8 DEF Restored, PutsBack, RetiredIsExact

(* An upgrade that gives up behind its replaced manifest binds what the    *)
(* last completed installation had, if that is still there unchanged, and  *)
(* otherwise nothing (finalize_plugin_rollover_transaction).               *)
THEOREM GivingUpIsExact == OwnershipSpec => GivenUpIsExact
<1> DEFINE Holds == run.mode = "upgrade" /\ run' = Idle /\ manifest' # manifest
                      => manifest' = IF plugin[tx.slot] = owned THEN tx.slot ELSE None
<1>1. OwnershipFits /\ OriginFits /\ [OwnershipNext]_ownershipVars => [Holds]_ownershipVars
  BY GivenUpStep
<1>2. OwnershipFits /\ OwnershipFits' /\ OriginFits /\ [OwnershipNext]_ownershipVars => OriginFits'
  BY OriginKept
<1>3. OwnershipSpec => [][Holds]_ownershipVars
  BY <1>1, <1>2, OriginStarts, OwnershipStarts, OwnershipKept, PTL DEF OwnershipSpec
<1> QED
  BY <1>3, PTL DEF GivenUpIsExact

=============================================================================
