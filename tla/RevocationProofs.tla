-------------------------- MODULE RevocationProofs --------------------------
(***************************************************************************)
(* Proofs about Revocation, for any certificates, CRL numbers and number   *)
(* of faults.  The inductive invariant says who is between its first read  *)
(* and its last write (Exclusive) and what it holds there (InHand).        *)
(***************************************************************************)
EXTENDS Revocation, FiniteSetTheorems, TLAPS

\* Nothing is in hand at the start, and an imported list is published as it is.
LEMMA InitInv == Init => IInv
  BY RevocationAssumption
  DEF Init, IInv, Shape, Exclusive, InHand, AckedIsPublished,
      EnforcedIsOnRecord, Processes, Free, None

\* The variables IInv does not mention may change freely.
LEMMA StutterInv ==
  ASSUME IInv, UNCHANGED <<registry, crl, pub, processes, loaded>>
  PROVE  IInv'
  BY DEF IInv, Shape, Exclusive, InHand, AckedIsPublished,
         EnforcedIsOnRecord, processes

\* Taking the lock with a list that covers both sources.
LEMMA SignInv ==
  ASSUME IInv, NEW p \in Processes, NEW s, NEW R,
         lock = Free, lock' = p,
         s \in Serials => s \in R,
         allRevocations \subseteq R,
         Sign(p, s, R),
         UNCHANGED <<files, acked, watcher>>
  PROVE  IInv'
<1>1. pc[p] = "idle" /\ \A q \in Processes : pc[q] = "idle"
  BY DEF IInv, Exclusive, Processes, Free
<1>2. Shape'
  BY DEF IInv, Shape, Sign
<1>3. /\ pc'[p] = "registry" /\ target'[p] = s /\ list'[p].revoked = R
      /\ \A q \in Processes \ {p} :
            pc'[q] = pc[q] /\ target'[q] = target[q] /\ list'[q] = list[q]
  BY DEF IInv, Shape, Sign
<1>4. Exclusive'
  BY <1>1, <1>3 DEF Exclusive, Processes, Free
<1>5. ASSUME NEW q \in Processes PROVE InHand(q)'
  <2>1. CASE q = p
    BY <2>1, <1>3 DEF InHand, allRevocations, files
  <2>2. CASE q # p
    BY <2>2, <1>1, <1>3 DEF IInv, InHand, files
  <2>3. QED BY <2>1, <2>2
<1>6. AckedIsPublished' /\ EnforcedIsOnRecord'
  BY DEF IInv, AckedIsPublished, EnforcedIsOnRecord, files, watcher
<1>7. QED BY <1>2, <1>4, <1>5, <1>6 DEF IInv

\* Giving the lock back, from any place in the operation.
LEMMA ReturnInv ==
  ASSUME IInv, NEW p \in Processes, pc[p] # "idle",
         Return(p),
         UNCHANGED <<registry, crl>>,
         AckedIsPublished', EnforcedIsOnRecord'
  PROVE  IInv'
<1>1. lock = p /\ \A q \in Processes \ {p} : pc[q] = "idle"
  BY DEF IInv, Exclusive
<1>2. Shape'
  BY DEF IInv, Shape, Return
<1>3. /\ pc'[p] = "idle" /\ target'[p] = "none" /\ lock' = Free
      /\ \A q \in Processes \ {p} :
            pc'[q] = pc[q] /\ target'[q] = target[q] /\ list'[q] = list[q]
  BY <1>1 DEF IInv, Shape, Return
<1>4. Exclusive'
  BY <1>1, <1>3 DEF Exclusive, Processes, Free
<1>5. ASSUME NEW q \in Processes PROVE InHand(q)'
  <2>1. pc'[q] = "idle" /\ target'[q] = "none"
    BY <1>1, <1>3 DEF IInv, InHand
  <2>2. QED BY <2>1, RevocationAssumption DEF InHand
<1>6. QED BY <1>2, <1>4, <1>5 DEF IInv

\* Every step keeps the invariant.
LEMMA StepInv == IInv /\ [Next]_vars => IInv'
<1> SUFFICES ASSUME IInv, [Next]_vars PROVE IInv'
  OBVIOUS
<1>1. ASSUME NEW s \in Serials, IssueCertificate(s) PROVE IInv'
  BY <1>1, StutterInv DEF IssueCertificate, watcher
<1>2. ASSUME NEW s \in Serials, RevokeCertificate(s) PROVE IInv'
  <2>1. "admin" \in Processes
    BY DEF Processes
  <2>2. QED BY <1>2, <2>1, SignInv DEF RevokeCertificate
<1>3. ASSUME NEW force \in BOOLEAN, RefreshCRL(force) PROVE IInv'
  <2>1. "renewer" \in Processes
    BY DEF Processes
  <2>2. CASE ~force /\ crl # None /\ ~near
    <3>1. /\ lock = Free /\ lock' = "renewer"
          /\ list' = [list EXCEPT !["renewer"] = crl]
          /\ pc' = [pc EXCEPT !["renewer"] = "publish"]
          /\ target' = target
          /\ UNCHANGED <<registry, crl, pub, acked, loaded>>
      BY <1>3, <2>2 DEF RefreshCRL, files, watcher
    <3>2. \A q \in Processes : pc[q] = "idle" /\ target[q] = "none"
      BY <3>1 DEF IInv, Exclusive, InHand, Processes, Free
    <3>3. /\ pc'["renewer"] = "publish" /\ list'["renewer"] = crl
          /\ \A q \in Processes \ {"renewer"} : pc'[q] = pc[q]
      BY <2>1, <3>1 DEF IInv, Shape
    <3>4. Shape'
      BY <3>1 DEF IInv, Shape
    <3>5. Exclusive'
      BY <3>1, <3>2, <3>3 DEF Exclusive, Processes, Free
    <3>6. ASSUME NEW q \in Processes PROVE InHand(q)'
      <4>1. target'[q] = "none" /\ (pc'[q] = "idle" \/ (pc'[q] = "publish" /\ list'[q] = crl'))
        BY <3>1, <3>2, <3>3
      <4>2. QED BY <4>1, RevocationAssumption DEF InHand
    <3>7. AckedIsPublished' /\ EnforcedIsOnRecord'
      BY <3>1 DEF IInv, AckedIsPublished, EnforcedIsOnRecord
    <3>8. QED BY <3>4, <3>5, <3>6, <3>7 DEF IInv
  <2>3. CASE ~(~force /\ crl # None /\ ~near)
    BY <1>3, <2>1, <2>3, SignInv, RevocationAssumption DEF RefreshCRL
  <2>4. QED BY <2>2, <2>3
<1>4. ASSUME NEW p \in Processes, WriteRegistry(p) PROVE IInv'
  <2>1. \A q \in Processes \ {p} : pc[q] = "idle"
    BY <1>4 DEF WriteRegistry, IInv, Exclusive
  <2>2. Shape' /\ Exclusive'
    BY <1>4 DEF WriteRegistry, IInv, Shape, Exclusive
  <2>3. /\ pc'[p] = "crl" /\ \A q \in Processes \ {p} : pc'[q] = pc[q]
        /\ registry \subseteq registry'
    BY <1>4 DEF WriteRegistry, IInv, Shape, InHand
  <2>4. ASSUME NEW q \in Processes PROVE InHand(q)'
    <3>1. CASE q = p
      BY <3>1, <1>4, <2>3 DEF WriteRegistry, IInv, InHand
    <3>2. CASE q # p
      BY <3>2, <1>4, <2>1, <2>3 DEF WriteRegistry, IInv, InHand
    <3>3. QED BY <3>1, <3>2
  <2>5. AckedIsPublished' /\ EnforcedIsOnRecord'
    BY <1>4, <2>3 DEF WriteRegistry, IInv, AckedIsPublished, EnforcedIsOnRecord, watcher
  <2>6. QED BY <2>2, <2>4, <2>5 DEF IInv
<1>5. ASSUME NEW p \in Processes, WriteCRL(p) PROVE IInv'
  <2>1. \A q \in Processes \ {p} : pc[q] = "idle"
    BY <1>5 DEF WriteCRL, IInv, Exclusive
  <2>2. Shape' /\ Exclusive'
    BY <1>5 DEF WriteCRL, IInv, Shape, Exclusive
  <2>3. /\ pc'[p] = "publish" /\ \A q \in Processes \ {p} : pc'[q] = pc[q]
        /\ crl.revoked \subseteq crl'.revoked
        /\ registry = crl'.revoked
    BY <1>5 DEF WriteCRL, IInv, Shape, InHand
  <2>4. ASSUME NEW q \in Processes PROVE InHand(q)'
    <3>1. CASE q = p
      BY <3>1, <1>5, <2>3 DEF WriteCRL, IInv, InHand
    <3>2. CASE q # p
      BY <3>2, <1>5, <2>1, <2>3 DEF WriteCRL, IInv, InHand
    <3>3. QED BY <3>1, <3>2
  <2>5. AckedIsPublished' /\ EnforcedIsOnRecord'
    BY <1>5, <2>3 DEF WriteCRL, IInv, AckedIsPublished, EnforcedIsOnRecord, watcher
  <2>6. QED BY <2>2, <2>4, <2>5 DEF IInv
<1>6. ASSUME NEW p \in Processes, Publish(p) PROVE IInv'
  <2>1. /\ pc[p] = "publish" /\ pub' = crl
        /\ target[p] \in Serials => target[p] \in registry \cap crl.revoked
    BY <1>6 DEF Publish, IInv, InHand
  <2>2. AckedIsPublished'
    BY <1>6, <2>1 DEF Publish, IInv, AckedIsPublished
  <2>3. EnforcedIsOnRecord'
    BY <1>6, <2>1 DEF Publish, IInv, EnforcedIsOnRecord, watcher
  <2>4. QED BY <1>6, <2>1, <2>2, <2>3, ReturnInv DEF Publish
<1>7. ASSUME NEW p \in Processes, GiveUp(p) PROVE IInv'
  <2>1. AckedIsPublished' /\ EnforcedIsOnRecord'
    BY <1>7 DEF GiveUp, IInv, AckedIsPublished, EnforcedIsOnRecord, files, watcher
  <2>2. QED BY <1>7, <2>1, ReturnInv DEF GiveUp, files
<1>8. CASE NearsExpiry
  BY <1>8, StutterInv DEF NearsExpiry, watcher
<1>9. CASE WatchStart \/ Checksum \/ SignalReload \/ ReloadFails
  BY <1>9, StutterInv DEF WatchStart, Checksum, SignalReload, ReloadFails, files
<1>10. CASE NginxStart \/ NginxReload \/ NginxStops
  BY <1>10 DEF NginxStart, NginxReload, NginxStops, files, processes, None,
               IInv, Shape, Exclusive, InHand, AckedIsPublished, EnforcedIsOnRecord
<1>11. CASE UNCHANGED vars
  BY <1>11, StutterInv DEF vars, files, watcher
<1>12. QED
  BY <1>1, <1>2, <1>3, <1>4, <1>5, <1>6, <1>7, <1>8, <1>9, <1>10, <1>11
  DEF Next, AdminRequest, maintainCRL, Writes, Watch

\* The inductive invariant of the two writers and nginx.
THEOREM Invariance == Spec => []IInv
  BY InitInv, StepInv, PTL DEF Spec

\* A revocation reported as done is in the registry, in ca.crl and in the
\* public copy, at all times and whatever fails afterwards.
THEOREM AcknowledgedRevocations == Spec => []AckedIsPublished
<1>1. IInv => AckedIsPublished
  BY DEF IInv
<1>2. QED BY <1>1, Invariance, PTL

\* nginx enforces only what the public copy lists, and that only what ca.crl
\* lists.
THEOREM EnforcedOnRecord == Spec => []EnforcedIsOnRecord
<1>1. IInv => EnforcedIsOnRecord
  BY DEF IInv
<1>2. QED BY <1>1, Invariance, PTL

\* No step of the invariant's states drops a revocation.
LEMMA StepKeeps == IInv /\ [Next]_vars => [KeepsRevocations]_vars
<1> SUFFICES ASSUME IInv, Next PROVE KeepsRevocations
  OBVIOUS
<1>1. ASSUME NEW s \in Serials, IssueCertificate(s) \/ RevokeCertificate(s)
      PROVE  KeepsRevocations
  BY <1>1 DEF IssueCertificate, RevokeCertificate, files, watcher, KeepsRevocations
<1>2. ASSUME NEW force \in BOOLEAN, RefreshCRL(force) PROVE KeepsRevocations
  BY <1>2 DEF RefreshCRL, files, watcher, KeepsRevocations
<1>3. ASSUME NEW p \in Processes, Writes(p) PROVE KeepsRevocations
  BY <1>3 DEF Writes, WriteRegistry, WriteCRL, Publish, IInv, InHand,
              EnforcedIsOnRecord, watcher, KeepsRevocations
<1>4. ASSUME NEW p \in Processes, GiveUp(p) PROVE KeepsRevocations
  BY <1>4 DEF GiveUp, files, watcher, KeepsRevocations
<1>5. CASE NearsExpiry
  BY <1>5 DEF NearsExpiry, watcher, KeepsRevocations
<1>6. CASE Watch \/ ReloadFails \/ NginxReload \/ NginxStops
  BY <1>6 DEF Watch, WatchStart, NginxStart, Checksum, SignalReload, ReloadFails,
              NginxReload, NginxStops, files, IInv, EnforcedIsOnRecord,
              KeepsRevocations
<1>7. QED BY <1>1, <1>2, <1>3, <1>4, <1>5, <1>6 DEF Next, AdminRequest, maintainCRL

\* "A partially completed write must never reinstate a revoked certificate"
\* (crl.go), for any interleaving of revocations, renewals and failures.
THEOREM NoReinstatement == Spec => NeverReinstated
<1>1. IInv /\ [Next]_vars => [KeepsRevocations]_vars
  BY StepKeeps
<1>2. QED BY <1>1, Invariance, PTL DEF Spec, NeverReinstated

\* Adding one element makes a small set at most one larger.
LEMMA OneMore ==
  ASSUME NEW S, NEW x, NEW n \in Nat, IsFiniteSet(S), Cardinality(S) <= n
  PROVE  IsFiniteSet(S \cup {x}) /\ Cardinality(S \cup {x}) <= n + 1
<1>1. Cardinality(S) \in Nat
  BY FS_CardinalityType
<1>2. Cardinality(S \cup {x}) \in {Cardinality(S), Cardinality(S) + 1}
  BY FS_AddElement
<1>3. QED BY <1>1, <1>2, FS_AddElement

\* Seven places can hold a list, so seven numbers are in use at most.
LEMMA SevenInUse == IsFiniteSet(InUse) /\ Cardinality(InUse) <= 7
<1> DEFINE A == {crl.number}
           B == A \cup {pub.number}
           C == B \cup {previous.number}
           D == C \cup {current.number}
           E == D \cup {loaded.number}
           F == E \cup {list["admin"].number}
           G == F \cup {list["renewer"].number}
<1>1. IsFiniteSet(A) /\ Cardinality(A) <= 1
  <2>1. IsFiniteSet(A) /\ Cardinality(A) = 1
    BY FS_Singleton, Zenon
  <2>2. QED BY <2>1
<1>2. IsFiniteSet(B) /\ Cardinality(B) <= 2
  <2> HIDE DEF A
  <2> QED BY <1>1, OneMore, 1 + 1 = 2
<1>3. IsFiniteSet(C) /\ Cardinality(C) <= 3
  <2> HIDE DEF B
  <2> QED BY <1>2, OneMore, 2 + 1 = 3
<1>4. IsFiniteSet(D) /\ Cardinality(D) <= 4
  <2> HIDE DEF C
  <2> QED BY <1>3, OneMore, 3 + 1 = 4
<1>5. IsFiniteSet(E) /\ Cardinality(E) <= 5
  <2> HIDE DEF D
  <2> QED BY <1>4, OneMore, 4 + 1 = 5
<1>6. IsFiniteSet(F) /\ Cardinality(F) <= 6
  <2> HIDE DEF E
  <2> QED BY <1>5, OneMore, 5 + 1 = 6
<1>7. IsFiniteSet(G) /\ Cardinality(G) <= 7
  <2> HIDE DEF F
  <2> QED BY <1>6, OneMore, 6 + 1 = 7
<1>8. InUse = G
  BY DEF InUse, Processes
<1>9. QED BY <1>7, <1>8

\* A list signed now has a number that no list in use has.
LEMMA FreshNumber == NewNumber \in Numbers /\ NewNumber \notin InUse
<1> DEFINE S == InUse \cap Numbers
<1>1. S \in SUBSET InUse
  OBVIOUS
<1>2. IsFiniteSet(S) /\ Cardinality(S) <= Cardinality(InUse)
  <2> HIDE DEF S
  <2> QED BY <1>1, SevenInUse, FS_Subset
<1>3. Cardinality(S) <= 7
  <2>1. Cardinality(S) \in Nat /\ Cardinality(InUse) \in Nat
    BY <1>2, SevenInUse, FS_CardinalityType
  <2>2. QED BY <1>2, <2>1, SevenInUse
<1>4. S # Numbers
  <2>1. S \in SUBSET Numbers
    OBVIOUS
  <2>2. QED BY <1>3, <2>1, RevocationAssumption
<1>5. \E n \in Numbers : n \notin InUse
  BY <1>4
<1>6. QED BY <1>5 DEF NewNumber

\* So it differs from every list on disk and in the watcher's memory.
LEMMA SignedUnseen ==
  ASSUME NEW p \in Processes, NEW s, NEW R, Shape, Sign(p, s, R),
         UNCHANGED <<pub, previous, current>>
  PROVE  Unseen(list[p])'
<1>1. list'[p].number = NewNumber
  BY DEF Shape, Sign
<1>2. {pub.number, previous.number, current.number} \subseteq InUse
  BY DEF InUse
<1>3. None.number \notin Numbers
  BY RevocationAssumption DEF None
<1>4. QED BY <1>1, <1>2, <1>3, FreshNumber DEF Unseen

\* The invariant of the watcher: what is not yet published it has not seen,
\* and a list that nginx lacks it will see.
WatchInv == NotYetSeen /\ NoLostReload

\* At the start nothing is in hand and the watcher is down.
LEMMA WatchInit == Init => WatchInv
  BY DEF Init, WatchInv, NotYetSeen, NoLostReload, Unseen, Processes

\* Every step keeps it.
LEMMA WatchStep == IInv /\ WatchInv /\ [Next]_vars => WatchInv'
<1> SUFFICES ASSUME IInv, WatchInv, [Next]_vars PROVE WatchInv'
  OBVIOUS
<1>1. ASSUME NEW s \in Serials, IssueCertificate(s) PROVE WatchInv'
  BY <1>1 DEF IssueCertificate, processes, watcher, WatchInv, NotYetSeen,
              NoLostReload, Unseen
<1>2. ASSUME NEW p \in Processes, NEW s, NEW R, Sign(p, s, R),
             UNCHANGED <<files, watcher>>
      PROVE  WatchInv'
  <2>1. UNCHANGED <<crl, pub, wpc, previous, current, hup, loaded>>
    BY <1>2 DEF files, watcher
  <2>2. Unseen(list[p])'
    BY <1>2, <2>1, SignedUnseen DEF IInv
  <2>3. \A q \in Processes \ {p} : pc'[q] = pc[q] /\ list'[q] = list[q]
    BY <1>2 DEF IInv, Shape, Sign
  <2>4. QED BY <2>1, <2>2, <2>3 DEF WatchInv, NotYetSeen, NoLostReload, Unseen
<1>3. ASSUME NEW s \in Serials, RevokeCertificate(s) PROVE WatchInv'
  <2>1. "admin" \in Processes
    BY DEF Processes
  <2>2. QED BY <1>2, <1>3, <2>1 DEF RevokeCertificate
<1>4. ASSUME NEW force \in BOOLEAN, RefreshCRL(force) PROVE WatchInv'
  <2>1. "renewer" \in Processes
    BY DEF Processes
  <2>2. CASE ~force /\ crl # None /\ ~near
    <3>1. /\ list' = [list EXCEPT !["renewer"] = crl]
          /\ pc' = [pc EXCEPT !["renewer"] = "publish"]
          /\ UNCHANGED <<crl, pub, wpc, previous, current, hup, loaded>>
      BY <1>4, <2>2 DEF RefreshCRL, files, watcher
    <3>2. /\ pc'["renewer"] = "publish"
          /\ \A q \in Processes \ {"renewer"} : pc'[q] = pc[q] /\ list'[q] = list[q]
      BY <2>1, <3>1 DEF IInv, Shape
    <3>3. QED BY <3>1, <3>2 DEF WatchInv, NotYetSeen, NoLostReload, Unseen
  <2>3. CASE ~(~force /\ crl # None /\ ~near)
    BY <1>2, <1>4, <2>1, <2>3 DEF RefreshCRL
  <2>4. QED BY <2>2, <2>3
<1>5. ASSUME NEW p \in Processes, WriteRegistry(p) PROVE WatchInv'
  <2>1. \A q \in Processes : pc'[q] = IF q = p THEN "crl" ELSE pc[q]
    BY <1>5 DEF WriteRegistry, IInv, Shape
  <2>2. QED BY <1>5, <2>1 DEF WriteRegistry, watcher, WatchInv, NotYetSeen,
                              NoLostReload, Unseen
<1>6. ASSUME NEW p \in Processes, WriteCRL(p) PROVE WatchInv'
  <2>1. \A q \in Processes : pc'[q] = IF q = p THEN "publish" ELSE pc[q]
    BY <1>6 DEF WriteCRL, IInv, Shape
  <2>2. QED BY <1>6, <2>1 DEF WriteCRL, watcher, WatchInv, NotYetSeen,
                              NoLostReload, Unseen
<1>7. ASSUME NEW p \in Processes, pc[p] # "idle", Return(p)
      PROVE  \A q \in Processes : pc'[q] = "idle"
  BY <1>7 DEF Return, IInv, Shape, Exclusive
<1>8. ASSUME NEW p \in Processes, Publish(p) PROVE WatchInv'
  <2>1. /\ pub' = crl /\ crl' = crl
        /\ UNCHANGED <<wpc, previous, current, hup, loaded>>
    BY <1>8 DEF Publish, IInv, InHand, watcher
  <2>2. \A q \in Processes : pc'[q] = "idle"
    BY <1>7, <1>8 DEF Publish
  <2>3. NotYetSeen'
    BY <2>1, <2>2 DEF NotYetSeen
  <2>4. NoLostReload'
    BY <2>1 DEF WatchInv, NotYetSeen, NoLostReload, Unseen
  <2>5. QED BY <2>3, <2>4 DEF WatchInv
<1>9. ASSUME NEW p \in Processes, GiveUp(p) PROVE WatchInv'
  <2>1. \A q \in Processes : pc'[q] = "idle"
    BY <1>7, <1>9 DEF GiveUp
  <2>2. QED BY <1>9, <2>1 DEF GiveUp, files, watcher, WatchInv, NotYetSeen,
                              NoLostReload, Unseen
<1>10. CASE NearsExpiry
  BY <1>10 DEF NearsExpiry, processes, watcher, WatchInv, NotYetSeen,
               NoLostReload, Unseen
<1>11. CASE Watch \/ ReloadFails \/ NginxReload \/ NginxStops
  <2>1. UNCHANGED <<crl, pub, pc, list>>
    BY <1>11 DEF Watch, WatchStart, NginxStart, Checksum, SignalReload, ReloadFails,
                 NginxReload, NginxStops, files, processes
  <2>2. {previous', current'} \subseteq {None, pub, previous, current}
    BY <1>11 DEF Watch, WatchStart, NginxStart, Checksum, SignalReload, ReloadFails,
                 NginxReload, NginxStops
  <2>3. NotYetSeen'
    BY <2>1, <2>2 DEF WatchInv, NotYetSeen, Unseen
  <2>4. NoLostReload'
    BY <1>11, <2>1 DEF Watch, WatchStart, NginxStart, Checksum, SignalReload,
                       ReloadFails, NginxReload, NginxStops, WatchInv, NoLostReload
  <2>5. QED BY <2>3, <2>4 DEF WatchInv
<1>12. CASE UNCHANGED vars
  BY <1>12 DEF vars, files, processes, watcher, WatchInv, NotYetSeen,
               NoLostReload, Unseen
<1>13. QED
  BY <1>1, <1>3, <1>4, <1>5, <1>6, <1>8, <1>9, <1>10, <1>11, <1>12
  DEF Next, AdminRequest, maintainCRL, Writes

\* nginx-crl-watch.sh takes its checksum before nginx reads the file and keeps
\* it only after a reload was signalled: whenever nginx lacks the published
\* list, a reload is under way or the next round sees the difference.
THEOREM ReloadsAreNotLost == Spec => []NoLostReload
<1>1. WatchInv => NoLostReload
  BY DEF WatchInv
<1>2. QED BY <1>1, WatchInit, WatchStep, Invariance, PTL DEF Spec

-----------------------------------------------------------------------------
(* Type correctness *)

\* At the start there is no list, or one that was imported with the CA.
LEMMA InitType == Init => TypeOK
<1> SUFFICES ASSUME Init PROVE TypeOK
  OBVIOUS
<1>1. Numbers # {}
  BY FreshNumber
<1>2. (CHOOSE n \in Numbers : TRUE) \in Numbers
  BY <1>1
<1>3. crl \in Lists \cup {None}
  BY <1>2 DEF Init, Lists
<1>4. {crl, pub, previous, current, loaded} \subseteq Lists \cup {None}
  BY <1>3 DEF Init
<1>5. /\ pc \in [Processes -> {"idle", "registry", "crl", "publish"}]
      /\ target \in [Processes -> Target]
      /\ list \in [Processes -> Lists \cup {None}]
  BY DEF Init, Target
<1>6. revokes \in 0..MaxRevokes /\ faults \in 0..MaxFaults
  BY RevocationAssumption DEF Init
<1>7. QED BY <1>4, <1>5, <1>6 DEF Init, TypeOK

\* Every list has entries among the serial numbers.
LEMMA RevokedType ==
  ASSUME NEW l \in Lists \cup {None}
  PROVE  l.revoked \in SUBSET Serials
  BY DEF Lists, None

\* What an operation signs is a list.
LEMMA SignType ==
  ASSUME TypeOK, NEW p \in Processes, NEW s \in Target, NEW R \in SUBSET Serials,
         Sign(p, s, R)
  PROVE  /\ pc' \in [Processes -> {"idle", "registry", "crl", "publish"}]
         /\ target' \in [Processes -> Target]
         /\ list' \in [Processes -> Lists \cup {None}]
<1> DEFINE l == [number |-> NewNumber, revoked |-> R]
<1>1. l \in Lists
  BY FreshNumber DEF Lists
<1>2. list' = [list EXCEPT ![p] = l]
  BY DEF Sign
<1>3. list' \in [Processes -> Lists \cup {None}]
  <2> HIDE DEF l
  <2> QED BY <1>1, <1>2 DEF TypeOK
<1>4. QED BY <1>3 DEF Sign, TypeOK

\* Every step keeps the types.
LEMMA StepType == TypeOK /\ [Next]_vars => TypeOK'
<1> SUFFICES ASSUME TypeOK, [Next]_vars PROVE TypeOK'
  OBVIOUS
<1>0. /\ allRevocations \in SUBSET Serials
      /\ \A p \in Processes : list[p].revoked \in SUBSET Serials
  BY RevokedType DEF TypeOK, allRevocations
<1>1. ASSUME NEW s \in Serials, IssueCertificate(s) PROVE TypeOK'
  BY <1>1 DEF IssueCertificate, TypeOK, processes, watcher
<1>2. ASSUME NEW s \in Serials, RevokeCertificate(s) PROVE TypeOK'
  <2>1. "admin" \in Processes /\ s \in Target /\ allRevocations \cup {s} \in SUBSET Serials
    BY <1>0 DEF Processes, Target
  <2>2. Sign("admin", s, allRevocations \cup {s})
    BY <1>2 DEF RevokeCertificate
  <2>3. revokes' \in 0..MaxRevokes
    BY <1>2, RevocationAssumption DEF RevokeCertificate, TypeOK
  <2>4. QED
    BY <1>2, <2>1, <2>2, <2>3, SignType DEF RevokeCertificate, TypeOK, files, watcher
<1>3. ASSUME NEW force \in BOOLEAN, RefreshCRL(force) PROVE TypeOK'
  <2>1. "renewer" \in Processes /\ "none" \in Target
    BY DEF Processes, Target
  <2>2. /\ pc' \in [Processes -> {"idle", "registry", "crl", "publish"}]
        /\ target' \in [Processes -> Target]
        /\ list' \in [Processes -> Lists \cup {None}]
    <3>1. CASE ~force /\ crl # None /\ ~near
      BY <1>3, <3>1 DEF RefreshCRL, TypeOK
    <3>2. CASE ~(~force /\ crl # None /\ ~near)
      BY <1>0, <1>3, <2>1, <3>2, SignType DEF RefreshCRL
    <3>3. QED BY <3>1, <3>2
  <2>3. QED BY <1>3, <2>1, <2>2 DEF RefreshCRL, TypeOK, files, watcher
<1>4. ASSUME NEW p \in Processes, WriteRegistry(p) PROVE TypeOK'
  BY <1>0, <1>4 DEF WriteRegistry, TypeOK, watcher
<1>5. ASSUME NEW p \in Processes, WriteCRL(p) PROVE TypeOK'
  BY <1>5 DEF WriteCRL, TypeOK, watcher
<1>6. ASSUME NEW p \in Processes, Return(p)
      PROVE  /\ pc' \in [Processes -> {"idle", "registry", "crl", "publish"}]
             /\ target' \in [Processes -> Target]
             /\ list' \in [Processes -> Lists \cup {None}]
             /\ lock' \in Processes \cup {Free}
  BY <1>6 DEF Return, TypeOK, Target
<1>7. ASSUME NEW p \in Processes, Publish(p) PROVE TypeOK'
  BY <1>6, <1>7 DEF Publish, TypeOK, watcher
<1>8. ASSUME NEW p \in Processes, GiveUp(p) PROVE TypeOK'
  <2>1. faults' \in 0..MaxFaults
    BY <1>8, RevocationAssumption DEF GiveUp, TypeOK
  <2>2. QED BY <1>6, <1>8, <2>1 DEF GiveUp, TypeOK, files, watcher
<1>9. CASE NearsExpiry
  BY <1>9 DEF NearsExpiry, TypeOK, processes, watcher
<1>10. CASE Watch \/ NginxReload
  BY <1>10 DEF Watch, WatchStart, NginxStart, Checksum, SignalReload, NginxReload,
               TypeOK, files, processes
<1>11. CASE ReloadFails \/ NginxStops
  <2>1. faults' \in 0..MaxFaults
    BY <1>11, RevocationAssumption DEF ReloadFails, NginxStops, TypeOK
  <2>2. QED BY <1>11, <2>1 DEF ReloadFails, NginxStops, TypeOK, files, processes
<1>12. CASE UNCHANGED vars
  BY <1>12 DEF vars, files, processes, watcher, TypeOK
<1>13. QED
  BY <1>1, <1>2, <1>3, <1>4, <1>5, <1>7, <1>8, <1>9, <1>10, <1>11, <1>12
  DEF Next, AdminRequest, maintainCRL, Writes

\* The files, the processes and the watcher keep their types: a rename never
\* leaves a file that is neither missing nor a signed list.
THEOREM TypeCorrectness == Spec => []TypeOK
  BY InitType, StepType, PTL DEF Spec
=============================================================================
