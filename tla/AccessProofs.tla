---------------------------- MODULE AccessProofs ----------------------------
(***************************************************************************)
(* Proofs about Access, for any systems, sessions, numbers of changes, keys *)
(* and faults.  The invariant has four parts: types, the change that holds *)
(* the mutex, the key files, and the versions that the manager handles.    *)
(***************************************************************************)
EXTENDS Access, TLAPS

\* The values that the records of the model take.
LEMMA RecordTypes ==
  /\ Absent \in Entries /\ NoConsumer \in Consumers
  /\ \A e \in Entries : Meaning(e) \in Consumers
  /\ \A e \in Entries, b \in BOOLEAN : [e EXCEPT !.anonymous = b] \in Entries
  /\ \A e \in Entries, n \in 0..MaxKey : [e EXCEPT !.key = n] \in Entries
<1>1. NoKey \in 0..MaxKey
  BY AccessAssumption DEF NoKey
<1>2. QED BY <1>1 DEF Absent, NoConsumer, Entries, Consumers, Meaning

\* configureAccess makes an entry, present and with the old key or none.
LEMMA ConfiguredEntry ==
  ASSUME NEW old \in Entries, NEW mode \in {"anonymous", "disabled", "api_key"},
         NEW enabled \in BOOLEAN
  PROVE  /\ configureAccess(old, mode, enabled) \in Entries
         /\ configureAccess(old, mode, enabled).present
         /\ configureAccess(old, mode, enabled).key \in {NoKey, old.key}
<1>1. NoKey \in 0..MaxKey
  BY AccessAssumption DEF NoKey
<1>2. QED BY <1>1 DEF configureAccess, Entries

\* The three changes differ in the entry they prepare only.
LEMMA ChangeBegins ==
  ASSUME IInv, NEW a \in Admins, NEW x \in Systems,
         UpsertSystem(a, x) \/ RotateAPIKey(a, x) \/ DeleteSystem(a, x)
  PROVE  /\ pc = "free" /\ form[a] = doc.version
         /\ \E e \in Entries, generate \in BOOLEAN :
               /\ Begin(a, x, e, generate)
               /\ e.enabled => e.present
               /\ e.key \in {NoKey, doc.systems[x].key}
               /\ x = Default => e.present
<1>1. /\ doc.systems[x] \in Entries
      /\ doc.systems[x].enabled => doc.systems[x].present
      /\ doc.systems[Default].present
  BY DEF IInv, TypeOK, DocInv
<1>2. CASE UpsertSystem(a, x)
  <2>1. PICK mode \in {"anonymous", "disabled", "api_key"}, enabled, generateKey \in BOOLEAN :
           Begin(a, x, configureAccess(doc.systems[x], mode, enabled),
                 mode = "api_key" /\ generateKey)
    BY <1>2 DEF UpsertSystem
  <2>2. QED BY <1>1, <1>2, <2>1, ConfiguredEntry DEF UpsertSystem, matchRevision
<1>3. CASE RotateAPIKey(a, x)
  <2>1. [doc.systems[x] EXCEPT !.anonymous = FALSE] \in Entries
    BY <1>1, RecordTypes
  <2>2. /\ [doc.systems[x] EXCEPT !.anonymous = FALSE].present
        /\ [doc.systems[x] EXCEPT !.anonymous = FALSE].key = doc.systems[x].key
    BY <1>1, <1>3 DEF RotateAPIKey, Entries
  <2>3. QED BY <1>3, <2>1, <2>2 DEF RotateAPIKey, matchRevision
<1>4. CASE DeleteSystem(a, x)
  <2>1. ~Absent.enabled /\ Absent.key = NoKey
    BY DEF Absent
  <2>2. QED BY <1>4, <2>1, RecordTypes DEF DeleteSystem, matchRevision
<1>5. QED BY <1>2, <1>3, <1>4

\* A deployment starts from one consistent document.
LEMMA InitInv == Init => IInv
<1> SUFFICES ASSUME Init PROVE IInv
  OBVIOUS
<1> USE AccessAssumption
<1>1. /\ doc.version = 1 /\ doc.systems \in [Systems -> Entries]
      /\ doc \in [version: 1..MaxVersion, systems: [Systems -> Entries]]
      /\ doc.systems[Default].present
      /\ \A x \in Systems : /\ doc.systems[x].enabled => doc.systems[x].present
                            /\ doc.systems[x].key \in {NoKey, 1}
  BY RecordTypes DEF Init, Absent, NoKey, Entries
<1>2. \A x \in Systems : Meaning(doc.systems[x]) \in Consumers
  BY <1>1, RecordTypes
<1>3. NoChange \in [by: Admins \cup {"none"}, system: Systems, entry: Entries, generate: BOOLEAN]
  BY RecordTypes DEF NoChange
<1>4. cand \in [version: 0..MaxVersion, systems: [Systems -> Entries]]
  BY RecordTypes DEF Init
<1>5. snapshot \in [version: 0..MaxVersion, systems: [Systems -> Consumers]]
  BY RecordTypes DEF Init, NotLoaded
<1>6. written \in [1..MaxVersion -> [Systems -> Consumers]] /\ built \in [Systems -> Consumers]
  BY <1>2, RecordTypes DEF Init
<1>7. TypeOK
  <2>1. /\ files \in [Names -> 0..MaxKey] /\ mock \in Names /\ named \in Names
        /\ form \in [Admins -> 0..MaxVersion] /\ faults \in 0..MaxFaults
    BY DEF Init, Names, NoKey
  <2>2. /\ pc \in {"free", "key", "commit", "sync"}
        /\ todo \subseteq Systems /\ retired \subseteq Names
        /\ op = NoChange
    BY DEF Init
  <2>3. QED BY <1>1, <1>3, <1>4, <1>5, <1>6, <2>1, <2>2 DEF TypeOK
<1>8. OpInv
  BY DEF Init, OpInv, NoChange, Absent
<1>9. Referenced \subseteq {1}
  BY <1>1 DEF Init, Referenced, Absent, NoKey
<1>10. KeyInv
  BY <1>9 DEF Init, KeyInv, NoDanglingKey, Names
<1>11. DocInv
  BY <1>1 DEF Init, DocInv, SnapshotIsADocument, NotLoaded, Absent
<1>12. QED BY <1>7, <1>8, <1>10, <1>11 DEF IInv

-----------------------------------------------------------------------------
(* The steps of the admin store *)

\* What the documents refer to are names, drawn and on disk.
LEMMA ReferencedNames ==
  ASSUME IInv
  PROVE  Referenced \subseteq Names /\ (\A n \in Referenced : n <= named /\ files[n] = n)
<1>1. \A x \in Systems : doc.systems[x].key \in 0..MaxKey /\ cand.systems[x].key \in 0..MaxKey
  BY DEF IInv, TypeOK, Entries
<1>2. mock \in Names
  BY DEF IInv, TypeOK
<1>3. QED BY <1>1, <1>2, AccessAssumption
          DEF Referenced, Names, NoKey, IInv, KeyInv, NoDanglingKey

\* A change is prepared: nothing on disk moves.
LEMMA BeginInv ==
  ASSUME IInv, NEW a \in Admins, NEW x \in Systems,
         UpsertSystem(a, x) \/ RotateAPIKey(a, x) \/ DeleteSystem(a, x)
  PROVE  IInv'
<1>1. pc = "free" /\ form[a] = doc.version
  BY ChangeBegins
<1>2. PICK e \in Entries, generate \in BOOLEAN :
         /\ Begin(a, x, e, generate)
         /\ e.enabled => e.present
         /\ e.key \in {NoKey, doc.systems[x].key}
         /\ x = Default => e.present
  BY ChangeBegins
<1>3. /\ doc' = doc /\ files' = files /\ mock' = mock /\ named' = named /\ form' = form
      /\ written' = written /\ retired' = retired /\ faults' = faults
      /\ cand' = cand /\ todo' = todo /\ built' = built /\ snapshot' = snapshot
      /\ pc' = IF generate THEN "key" ELSE "commit"
      /\ op' = [by |-> a, system |-> x, entry |-> e, generate |-> generate]
      /\ doc.version < MaxVersion /\ (generate => named < MaxKey)
  BY <1>2 DEF Begin, managerVars
<1>4. op' \in [by: Admins \cup {"none"}, system: Systems, entry: Entries, generate: BOOLEAN]
  BY <1>3
<1>5. pc' \in {"free", "key", "commit", "sync"}
  BY <1>3
<1>6. TypeOK'
  BY <1>3, <1>4, <1>5 DEF IInv, TypeOK
<1>7. OpInv'
  BY <1>1, <1>2, <1>3 DEF OpInv
<1>8. Referenced' = Referenced
  BY <1>3 DEF Referenced
<1>9. e.key # NoKey => e.key \in Referenced
  BY <1>2 DEF Referenced
<1>10. KeyInv'
  BY <1>3, <1>8, <1>9 DEF IInv, KeyInv, NoDanglingKey
<1>11. DocInv'
  BY <1>3 DEF IInv, DocInv, SnapshotIsADocument
<1>12. QED BY <1>6, <1>7, <1>10, <1>11 DEF IInv

\* A new name for a new key: nothing referred to it before.
LEMMA WriteKeyInv == IInv /\ writeAPIKey => IInv'
<1> SUFFICES ASSUME IInv, writeAPIKey PROVE IInv'
  OBVIOUS
<1> USE AccessAssumption
<1>1. /\ doc' = doc /\ mock' = mock /\ form' = form /\ written' = written
      /\ retired' = retired /\ faults' = faults /\ cand' = cand /\ todo' = todo
      /\ built' = built /\ snapshot' = snapshot
      /\ pc = "key" /\ pc' = "commit" /\ named' = named + 1
      /\ files' = [files EXCEPT ![named + 1] = named + 1]
      /\ op' = [op EXCEPT !.entry.key = named + 1]
  BY DEF writeAPIKey, managerVars
<1>2. named + 1 \in Names /\ named \in Nat /\ op.generate
  BY <1>1 DEF IInv, TypeOK, OpInv, Names
<1>3. op \in [by: Admins \cup {"none"}, system: Systems, entry: Entries, generate: BOOLEAN]
  BY DEF IInv, TypeOK
<1>4. /\ op' = [op EXCEPT !.entry = [op.entry EXCEPT !.key = named + 1]]
      /\ op'.entry = [op.entry EXCEPT !.key = named + 1]
      /\ op'.by = op.by /\ op'.system = op.system /\ op'.generate = op.generate
  BY <1>1, <1>3
<1>5. op'.entry \in Entries
  BY <1>2, <1>3, <1>4, RecordTypes DEF Names
<1>6. /\ op'.entry.key = named + 1
      /\ op'.entry.enabled = op.entry.enabled /\ op'.entry.present = op.entry.present
  BY <1>3, <1>4 DEF Entries
<1>7. op' \in [by: Admins \cup {"none"}, system: Systems, entry: Entries, generate: BOOLEAN]
  BY <1>3, <1>4, <1>5
<1>8. files \in [Names -> 0..MaxKey] /\ files' \in [Names -> 0..MaxKey]
  BY <1>1, <1>2 DEF IInv, TypeOK, Names
<1>9. TypeOK'
  BY <1>1, <1>2, <1>7, <1>8 DEF IInv, TypeOK
<1>10. OpInv'
  BY <1>1, <1>4, <1>6 DEF IInv, OpInv
<1>11. Referenced' = Referenced
  BY <1>1 DEF Referenced
<1>12. Referenced \subseteq Names /\ (\A n \in Referenced : n <= named /\ files[n] = n)
  BY ReferencedNames
<1>13. \A n \in Referenced : n # named + 1 /\ files'[n] = n
  BY <1>1, <1>2, <1>8, <1>12 DEF Names
<1>14. files'[named + 1] = named + 1
  BY <1>1, <1>2, <1>8
<1>15. \A n \in Referenced : n <= named + 1
  BY <1>2, <1>12 DEF Names
<1>16. KeyInv'
  BY <1>1, <1>2, <1>6, <1>11, <1>13, <1>14, <1>15 DEF KeyInv, NoDanglingKey, NoKey
<1>17. DocInv'
  BY <1>1 DEF IInv, DocInv, SnapshotIsADocument
<1>18. QED BY <1>9, <1>10, <1>16, <1>17 DEF IInv

\* The rename: the old versions keep their meaning, the new one has its key on
\* disk.
LEMMA CommitInv == IInv /\ commitBackend => IInv'
<1> SUFFICES ASSUME IInv, commitBackend PROVE IInv'
  OBVIOUS
<1> USE AccessAssumption
<1> DEFINE new == [doc.systems EXCEPT ![op.system] = op.entry]
<1>1. /\ files' = files /\ mock' = mock /\ named' = named /\ form' = form /\ op' = op
      /\ retired' = retired /\ faults' = faults /\ cand' = cand /\ todo' = todo
      /\ built' = built /\ snapshot' = snapshot
      /\ pc = "commit" /\ pc' = "sync"
  BY DEF commitBackend, managerVars
<1>2. doc'.version = doc.version + 1 /\ doc'.systems = new
  BY DEF commitBackend, NewDocument
<1>3. written' = [written EXCEPT ![doc.version + 1] = [x \in Systems |-> Meaning(new[x])]]
  BY <1>2 DEF commitBackend
<1>4. /\ op.system \in Systems /\ op.entry \in Entries
      /\ doc.systems \in [Systems -> Entries]
      /\ doc.version \in 1..MaxVersion /\ doc.version < MaxVersion
      /\ written \in [1..MaxVersion -> [Systems -> Consumers]]
  BY <1>1 DEF IInv, TypeOK, OpInv
<1>5. /\ new \in [Systems -> Entries]
      /\ \A x \in Systems : new[x] = IF x = op.system THEN op.entry ELSE doc.systems[x]
  BY <1>4
<1>6. doc.version + 1 \in 1..MaxVersion
  BY <1>4
<1>7. TypeOK'
  <2>1. doc' \in [version: 1..MaxVersion, systems: [Systems -> Entries]]
    BY <1>5, <1>6 DEF commitBackend, NewDocument
  <2>2. doc'.systems[Default].present
    BY <1>1, <1>2, <1>5 DEF IInv, TypeOK, OpInv
  <2>3. [x \in Systems |-> Meaning(new[x])] \in [Systems -> Consumers]
    BY <1>5, RecordTypes
  <2>4. written' \in [1..MaxVersion -> [Systems -> Consumers]]
    BY <1>3, <1>4, <1>6, <2>3
  <2>5. QED BY <1>1, <2>1, <2>2, <2>4 DEF IInv, TypeOK
<1>8. OpInv'
  BY <1>1 DEF IInv, OpInv
<1>9. Referenced' \subseteq Referenced \cup ({op.entry.key} \ {NoKey})
  BY <1>1, <1>2, <1>5 DEF Referenced
<1>10. KeyInv'
  <2>1. op.entry.key # NoKey => files[op.entry.key] = op.entry.key /\ op.entry.key <= named
    BY <1>1 DEF IInv, KeyInv
  <2>2. \A n \in Referenced' : files[n] = n /\ n <= named
    BY <1>9, <2>1, ReferencedNames
  <2>3. op.generate => op.entry.key # NoKey
    BY <1>1 DEF IInv, KeyInv
  <2>4. QED BY <1>1, <2>1, <2>2, <2>3 DEF KeyInv, NoDanglingKey
<1>11. DocInv'
  <2>1. /\ cand.version \in 0..MaxVersion /\ cand.version <= doc.version
        /\ snapshot.version \in 0..MaxVersion /\ snapshot.version <= doc.version
    BY DEF IInv, TypeOK, DocInv
  <2>2. \A v \in 1..MaxVersion : v <= doc.version => written'[v] = written[v]
    BY <1>3, <1>4, <1>6
  <2>3. \A x \in Systems :
           /\ doc'.systems[x].enabled => doc'.systems[x].present
           /\ written'[doc'.version][x] = Meaning(doc'.systems[x])
    <3>1. op.entry.enabled => op.entry.present
      BY DEF IInv, OpInv
    <3>2. \A x \in Systems : doc.systems[x].enabled => doc.systems[x].present
      BY DEF IInv, DocInv
    <3>3. written'[doc.version + 1] = [x \in Systems |-> Meaning(new[x])]
      BY <1>3, <1>4, <1>6
    <3>4. QED BY <1>2, <1>5, <3>1, <3>2, <3>3
  <2>4. cand.version # 0 => written'[cand.version] = written[cand.version]
    BY <2>1, <2>2
  <2>5. snapshot.version # 0 => written'[snapshot.version] = written[snapshot.version]
    BY <2>1, <2>2
  <2>6. cand'.version <= doc'.version /\ snapshot'.version <= doc'.version
    BY <1>1, <1>2, <1>4, <2>1
  <2>7. SnapshotIsADocument'
    BY <1>1, <2>5 DEF IInv, DocInv, SnapshotIsADocument
  <2>8. QED BY <1>1, <2>3, <2>4, <2>6, <2>7 DEF IInv, DocInv
<1>12. QED BY <1>7, <1>8, <1>10, <1>11 DEF IInv

\* The end of a change, with or without the mock-client's document, by an
\* error or by a crash; and a session that only looks.
LEMMA EndInv ==
  ASSUME IInv, syncMockAPIKey \/ SyncFails \/ WriteFails \/ AdminCrash
                 \/ (\E a \in Admins : AccessSnapshot(a))
  PROVE  IInv'
<1> USE AccessAssumption
<1>1. /\ doc' = doc /\ named' = named /\ written' = written
      /\ cand' = cand /\ todo' = todo /\ built' = built /\ snapshot' = snapshot
      /\ pc' = "free"
  BY DEF syncMockAPIKey, SyncFails, WriteFails, AdminCrash, AccessSnapshot, Acknowledge,
         managerVars
<1>2. op' = NoChange \/ (op' = op /\ pc = "free")
  BY DEF syncMockAPIKey, SyncFails, WriteFails, AdminCrash, AccessSnapshot, Acknowledge
<1>3. faults' \in 0..MaxFaults
  BY DEF syncMockAPIKey, SyncFails, WriteFails, AdminCrash, AccessSnapshot, Fault, IInv, TypeOK
<1>4. form' \in [Admins -> 0..MaxVersion]
  BY DEF syncMockAPIKey, SyncFails, WriteFails, AdminCrash, AccessSnapshot, Acknowledge,
         IInv, TypeOK
<1>5. retired' \subseteq Names
  <2>1. retired' = retired \/ retired' \subseteq 1..named
    BY DEF syncMockAPIKey, SyncFails, WriteFails, AdminCrash, AccessSnapshot, Acknowledge
  <2>2. retired \subseteq Names /\ named \in Names
    BY DEF IInv, TypeOK
  <2>3. 1..named \subseteq Names
    BY <2>2 DEF Names
  <2>4. QED BY <2>1, <2>2, <2>3
<1>6. op' \in [by: Admins \cup {"none"}, system: Systems, entry: Entries, generate: BOOLEAN]
  <2>1. NoChange \in
           [by: Admins \cup {"none"}, system: Systems, entry: Entries, generate: BOOLEAN]
    BY RecordTypes DEF NoChange
  <2>2. op \in [by: Admins \cup {"none"}, system: Systems, entry: Entries, generate: BOOLEAN]
    BY DEF IInv, TypeOK
  <2>3. QED BY <1>2, <2>1, <2>2
<1>7. op'.entry.enabled => op'.entry.present
  BY <1>2 DEF NoChange, Absent, IInv, OpInv
<1>8. mock' \in Names /\ Referenced' \subseteq Referenced \cup {mock'}
      /\ files'[mock'] = mock' /\ mock' <= named
  <2>1. mock \in Referenced /\ mock \in Names
    BY DEF Referenced, IInv, TypeOK, Names, NoKey
  <2>2. Referenced' \subseteq Referenced \cup {mock'}
    BY <1>1 DEF Referenced
  <2>3. CASE syncMockAPIKey
    <3>1. files' = files /\ pc = "sync"
      BY <2>3 DEF syncMockAPIKey
    <3>2. CASE mock' = mock
      BY <2>1, <2>2, <3>1, <3>2, ReferencedNames
    <3>3. CASE mock' # mock
      <4>1. mock' = op.entry.key /\ op.generate
        BY <2>3, <3>3 DEF syncMockAPIKey
      <4>2. op.entry.key \in 0..MaxKey
        BY DEF IInv, TypeOK, Entries
      <4>3. QED BY <2>2, <3>1, <4>1, <4>2 DEF IInv, KeyInv, Names, NoKey
    <3>4. QED BY <3>2, <3>3
  <2>4. CASE WriteFails
    <3>1. mock' = mock
      BY <2>4 DEF WriteFails
    <3>2. files'[mock] = files[mock]
      BY <2>1, <2>4 DEF WriteFails, IInv, TypeOK, KeyInv
    <3>3. QED BY <2>1, <2>2, <3>1, <3>2, ReferencedNames
  <2>5. CASE SyncFails \/ AdminCrash \/ (\E a \in Admins : AccessSnapshot(a))
    <3>1. mock' = mock /\ files' = files
      BY <2>5 DEF SyncFails, AdminCrash, AccessSnapshot
    <3>2. QED BY <2>1, <2>2, <3>1, ReferencedNames
  <2>6. QED BY <2>3, <2>4, <2>5
<1>9. files' \in [Names -> 0..MaxKey] /\ (\A n \in Referenced : files'[n] = files[n])
  <2>1. files \in [Names -> 0..MaxKey]
    BY DEF IInv, TypeOK
  <2>2. CASE WriteFails
    <3>1. \/ files' = files
          \/ /\ files' = [files EXCEPT ![op.entry.key] = NoKey]
             /\ op.entry.key \notin Referenced
      BY <2>2 DEF WriteFails, IInv, KeyInv
    <3>2. NoKey \in 0..MaxKey
      BY DEF NoKey
    <3>3. QED BY <2>1, <3>1, <3>2, ReferencedNames
  <2>3. CASE ~WriteFails
    BY <2>1, <2>3 DEF syncMockAPIKey, SyncFails, AdminCrash, AccessSnapshot
  <2>4. QED BY <2>2, <2>3
<1>10. TypeOK'
  BY <1>1, <1>3, <1>4, <1>5, <1>6, <1>8, <1>9 DEF IInv, TypeOK
<1>11. OpInv'
  BY <1>1, <1>7 DEF OpInv
<1>12. KeyInv'
  BY <1>1, <1>8, <1>9, ReferencedNames DEF KeyInv, NoDanglingKey
<1>13. DocInv'
  BY <1>1 DEF IInv, DocInv, SnapshotIsADocument
<1>14. QED BY <1>10, <1>11, <1>12, <1>13 DEF IInv

-----------------------------------------------------------------------------
(* The steps of the manager *)

\* What the admin store keeps is not touched, and what the manager refers to
\* is referred to already.
LEMMA ManagerKeepsAdmin ==
  ASSUME IInv, UNCHANGED adminVars,
         \A x \in Systems : cand'.systems[x].key \in Referenced \cup {NoKey}
  PROVE  OpInv' /\ KeyInv'
<1>1. /\ doc' = doc /\ files' = files /\ mock' = mock /\ named' = named /\ form' = form
      /\ pc' = pc /\ op' = op
  BY DEF adminVars
<1>2. Referenced' \subseteq Referenced
  BY <1>1 DEF Referenced
<1>3. OpInv'
  BY <1>1 DEF IInv, OpInv
<1>4. KeyInv'
  BY <1>1, <1>2 DEF IInv, KeyInv, NoDanglingKey
<1>5. QED BY <1>3, <1>4

\* Nothing is in the manager's hands.
LEMMA StopKeeps ==
  ASSUME IInv, Stop, UNCHANGED adminVars
  PROVE  /\ cand' \in [version: 0..MaxVersion, systems: [Systems -> Entries]]
         /\ todo' = {} /\ built' \in [Systems -> Consumers]
         /\ cand'.version = 0 /\ (\A x \in Systems : ~cand'.systems[x].enabled)
         /\ OpInv' /\ KeyInv'
<1>1. cand' = [version |-> 0, systems |-> [x \in Systems |-> Absent]]
  BY DEF Stop
<1>2. /\ cand' \in [version: 0..MaxVersion, systems: [Systems -> Entries]]
      /\ todo' = {} /\ built' \in [Systems -> Consumers]
  BY <1>1, RecordTypes, AccessAssumption DEF Stop
<1>3. \A x \in Systems : cand'.systems[x].key = NoKey /\ ~cand'.systems[x].enabled
  BY <1>1 DEF Absent
<1>4. QED BY <1>1, <1>2, <1>3, ManagerKeepsAdmin

\* A document is read whole.
LEMMA ReadDocumentInv == IInv /\ ReadDocument => IInv'
<1> SUFFICES ASSUME IInv, ReadDocument PROVE IInv'
  OBVIOUS
<1>1. /\ UNCHANGED adminVars /\ snapshot' = snapshot /\ faults' = faults
      /\ cand' = doc /\ built' = [x \in Systems |-> NoConsumer]
      /\ todo' = {x \in Systems : doc.systems[x].present}
  BY DEF ReadDocument
<1>2. /\ doc' = doc /\ files' = files /\ mock' = mock /\ named' = named /\ form' = form
      /\ pc' = pc /\ op' = op /\ written' = written /\ retired' = retired
  BY <1>1 DEF adminVars
<1>3. doc \in [version: 1..MaxVersion, systems: [Systems -> Entries]]
  BY DEF IInv, TypeOK
<1>4. TypeOK'
  <2>1. cand' \in [version: 0..MaxVersion, systems: [Systems -> Entries]]
    BY <1>1, <1>3, AccessAssumption
  <2>2. built' \in [Systems -> Consumers] /\ todo' \subseteq Systems
    BY <1>1, RecordTypes
  <2>3. QED BY <1>1, <1>2, <2>1, <2>2 DEF IInv, TypeOK
<1>5. \A x \in Systems : cand'.systems[x].key \in Referenced \cup {NoKey}
  BY <1>1 DEF Referenced
<1>6. DocInv'
  <2>1. \A x \in Systems :
           /\ doc.systems[x].enabled => doc.systems[x].present
           /\ written[doc.version][x] = Meaning(doc.systems[x])
    BY DEF IInv, DocInv
  <2>2. \A x \in Systems :
           ~doc.systems[x].present => Agrees(NoConsumer, Meaning(doc.systems[x]))
    BY <1>3, <2>1 DEF Agrees, NoConsumer, Meaning, Entries
  <2>3. SnapshotIsADocument'
    BY <1>1, <1>2 DEF IInv, DocInv, SnapshotIsADocument
  <2>4. doc.version \in Nat /\ doc.version # 0 /\ snapshot.version <= doc.version
    BY <1>3 DEF IInv, DocInv
  <2>5. QED BY <1>1, <1>2, <2>1, <2>2, <2>3, <2>4 DEF DocInv
<1>7. QED BY <1>1, <1>4, <1>5, <1>6, ManagerKeepsAdmin DEF IInv

\* A reload ends, or the process does, with a snapshot that is a document.
LEMMA StopInv ==
  ASSUME IInv, Stop, UNCHANGED adminVars, faults' \in 0..MaxFaults,
         snapshot' \in [version: 0..MaxVersion, systems: [Systems -> Consumers]],
         snapshot'.version <= doc.version,
         SnapshotIsADocument'
  PROVE  IInv'
<1>1. /\ doc' = doc /\ files' = files /\ mock' = mock /\ named' = named /\ form' = form
      /\ pc' = pc /\ op' = op /\ written' = written /\ retired' = retired
  BY DEF adminVars
<1>2. TypeOK'
  BY <1>1, StopKeeps DEF IInv, TypeOK
<1>3. doc.version \in Nat
  BY DEF IInv, TypeOK
<1>4. DocInv'
  BY <1>1, <1>3, StopKeeps DEF IInv, DocInv
<1>5. QED BY <1>2, <1>4, StopKeeps DEF IInv

\* The snapshot a manager keeps.
LEMMA KeptSnapshot ==
  ASSUME IInv, UNCHANGED adminVars, snapshot' = snapshot
  PROVE  /\ snapshot' \in [version: 0..MaxVersion, systems: [Systems -> Consumers]]
         /\ snapshot'.version <= doc.version
         /\ SnapshotIsADocument'
<1>1. written' = written
  BY DEF adminVars
<1>2. SnapshotIsADocument'
  BY <1>1 DEF IInv, DocInv, SnapshotIsADocument
<1>3. QED BY <1>2 DEF IInv, TypeOK, DocInv

\* A secret is read: an enabled system gets its own key or stops the reload.
LEMMA BuildInv ==
  ASSUME IInv, UNCHANGED adminVars, snapshot' = snapshot, faults' \in 0..MaxFaults,
         NEW x \in todo, NEW secret \in 0..MaxKey, NEW failed \in BOOLEAN,
         failed \/ secret = cand.systems[x].key,
         buildConsumer(x, secret, failed)
  PROVE  IInv'
<1> DEFINE e == cand.systems[x]
<1>1. /\ doc' = doc /\ files' = files /\ mock' = mock /\ named' = named /\ form' = form
      /\ pc' = pc /\ op' = op /\ written' = written /\ retired' = retired
  BY DEF adminVars
<1>2. CASE Stop
  BY <1>2, StopInv, KeptSnapshot
<1>3. CASE ~Stop
  <2>1. /\ ~(e.enabled /\ (failed \/ (secret = NoKey /\ ~e.anonymous)))
        /\ built' = [built EXCEPT ![x] =
                        [present |-> TRUE, enabled |-> e.enabled, key |-> secret]]
        /\ todo' = todo \ {x} /\ cand' = cand
    BY <1>3 DEF buildConsumer
  <2>2. /\ x \in Systems /\ e \in Entries /\ todo \subseteq Systems
        /\ built \in [Systems -> Consumers]
        /\ cand \in [version: 0..MaxVersion, systems: [Systems -> Entries]]
    BY DEF IInv, TypeOK
  <2>3. cand.version # 0 /\ e.present
    BY <2>2 DEF IInv, DocInv
  <2>4. [present |-> TRUE, enabled |-> e.enabled, key |-> secret] \in Consumers
    BY <2>2 DEF Entries, Consumers
  <2>5. Agrees([present |-> TRUE, enabled |-> e.enabled, key |-> secret], Meaning(e))
    BY <2>1, <2>2, <2>3 DEF Agrees, Meaning, Entries
  <2>6. /\ built' \in [Systems -> Consumers] /\ todo' \subseteq Systems
        /\ built'[x] = [present |-> TRUE, enabled |-> e.enabled, key |-> secret]
        /\ \A y \in Systems : y # x => built'[y] = built[y]
    BY <2>1, <2>2, <2>4
  <2>7. TypeOK'
    BY <1>1, <2>1, <2>6 DEF IInv, TypeOK
  <2>8. \A y \in Systems : cand'.systems[y].key \in Referenced \cup {NoKey}
    BY <2>1 DEF Referenced
  <2>9. \A y \in Systems : y \notin todo' => Agrees(built'[y], Meaning(cand.systems[y]))
    BY <2>1, <2>3, <2>5, <2>6 DEF IInv, DocInv
  <2>10. DocInv'
    BY <1>1, <2>1, <2>3, <2>9, KeptSnapshot DEF IInv, DocInv
  <2>11. QED BY <2>7, <2>8, <2>10, ManagerKeepsAdmin DEF IInv
<1>4. QED BY <1>2, <1>3

\* The files that the document in hand names are on disk whatever the admin
\* store has done since, so what is read is the key the document meant.
LEMMA ReadKeyInv ==
  ASSUME IInv, NEW x \in Systems, ReadKey(x) \/ ReadKeyFails(x)
  PROVE  IInv'
<1>1. NoKey \in 0..MaxKey /\ cand.systems[x].key \in 0..MaxKey
  BY AccessAssumption DEF NoKey, IInv, TypeOK, Entries
<1>2. CASE ReadKey(x)
  <2> DEFINE name == cand.systems[x].key
             secret == IF name = NoKey THEN NoKey ELSE files[name]
             failed == name # NoKey /\ secret = NoKey
  <2>1. /\ x \in todo /\ buildConsumer(x, secret, failed)
        /\ UNCHANGED adminVars /\ snapshot' = snapshot /\ faults' = faults
    BY <1>2 DEF ReadKey
  <2>2. name # NoKey => name \in Referenced
    BY DEF Referenced
  <2>3. secret = name /\ secret \in 0..MaxKey
    BY <1>1, <2>2, ReferencedNames
  <2>4. failed \in BOOLEAN /\ faults' \in 0..MaxFaults
    BY <2>1 DEF IInv, TypeOK
  <2> HIDE DEF secret, failed
  <2>5. QED BY <2>1, <2>3, <2>4, BuildInv
<1>3. CASE ReadKeyFails(x)
  <2>1. /\ x \in todo /\ buildConsumer(x, NoKey, TRUE)
        /\ UNCHANGED adminVars /\ snapshot' = snapshot
    BY <1>3 DEF ReadKeyFails
  <2>2. faults' \in 0..MaxFaults
    BY <1>3, AccessAssumption DEF ReadKeyFails, Fault, IInv, TypeOK
  <2>3. QED BY <1>1, <2>1, <2>2, BuildInv
<1>4. QED BY <1>2, <1>3

\* A new snapshot is the candidate, whose systems have all been built.
LEMMA PublishInv == IInv /\ (Publish \/ ProxyCrash) => IInv'
<1> SUFFICES ASSUME IInv, Publish \/ ProxyCrash PROVE IInv'
  OBVIOUS
<1>1. Stop /\ UNCHANGED adminVars /\ written' = written
  BY DEF Publish, ProxyCrash, adminVars
<1>2. faults' \in 0..MaxFaults
  BY AccessAssumption DEF Publish, ProxyCrash, Fault, IInv, TypeOK
<1>3. CASE snapshot' = snapshot
  BY <1>1, <1>2, <1>3, StopInv, KeptSnapshot
<1>4. CASE snapshot' = NotLoaded
  <2>1. /\ snapshot' \in [version: 0..MaxVersion, systems: [Systems -> Consumers]]
        /\ snapshot'.version = 0
    BY <1>4, RecordTypes, AccessAssumption DEF NotLoaded
  <2>2. SnapshotIsADocument' /\ snapshot'.version <= doc.version
    BY <2>1 DEF SnapshotIsADocument, IInv, TypeOK
  <2>3. QED BY <1>1, <1>2, <2>1, <2>2, StopInv
<1>5. CASE snapshot' # snapshot /\ snapshot' # NotLoaded
  <2>1. /\ snapshot' = [version |-> cand.version, systems |-> built]
        /\ cand.version # 0 /\ todo = {}
    BY <1>5 DEF Publish, ProxyCrash, Idle
  <2>2. snapshot' \in [version: 0..MaxVersion, systems: [Systems -> Consumers]]
    BY <2>1 DEF IInv, TypeOK
  <2>3. cand.version <= doc.version
    BY DEF IInv, DocInv
  <2>4. \A x \in Systems : Agrees(built[x], written[cand.version][x])
    BY <2>1 DEF IInv, DocInv
  <2>5. SnapshotIsADocument'
    BY <1>1, <2>1, <2>4 DEF SnapshotIsADocument
  <2>6. QED BY <1>1, <1>2, <2>1, <2>2, <2>3, <2>5, StopInv
<1>6. QED BY <1>3, <1>4, <1>5

-----------------------------------------------------------------------------

\* The four parts hold together in every reachable state.
THEOREM Invariance == Spec => []IInv
<1>1. IInv /\ [Next]_vars => IInv'
  <2> SUFFICES ASSUME IInv, [Next]_vars PROVE IInv'
    OBVIOUS
  <2>1. CASE \E a \in Admins, x \in Systems :
                UpsertSystem(a, x) \/ RotateAPIKey(a, x) \/ DeleteSystem(a, x)
    BY <2>1, BeginInv
  <2>2. CASE AdminStep
    BY <2>2, WriteKeyInv, CommitInv, EndInv DEF AdminStep
  <2>3. CASE WriteFails \/ SyncFails \/ AdminCrash \/ (\E a \in Admins : AccessSnapshot(a))
    BY <2>3, EndInv
  <2>4. CASE ManagerStep \/ (\E x \in Systems : ReadKeyFails(x)) \/ ProxyCrash
    BY <2>4, ReadDocumentInv, ReadKeyInv, PublishInv DEF ManagerStep
  <2>5. CASE UNCHANGED vars
    <3>1. UNCHANGED <<doc, files, mock, named, form, pc, op, written, retired,
                      cand, todo, built, snapshot, faults>>
      BY <2>5 DEF vars, adminVars, managerVars
    <3>2. TypeOK' /\ OpInv'
      BY <3>1 DEF IInv, TypeOK, OpInv
    <3>3. KeyInv'
      BY <3>1 DEF IInv, KeyInv, NoDanglingKey, Referenced
    <3>4. DocInv'
      BY <3>1 DEF IInv, DocInv, SnapshotIsADocument
    <3>5. QED BY <3>2, <3>3, <3>4 DEF IInv
  <2>6. QED BY <2>1, <2>2, <2>3, <2>4, <2>5 DEF Next, AdminRequest
<1>2. QED BY <1>1, InitInv, PTL DEF Spec

\* Every key file in use is on disk: no failure or crash of the admin service
\* leaves the proxy or the mock-client with a name that leads nowhere.
THEOREM KeysOnDisk == Spec => []NoDanglingKey
<1>1. IInv => NoDanglingKey
  BY DEF IInv, KeyInv
<1>2. QED BY <1>1, Invariance, PTL

\* What the proxy enforces is one document that was written, keys included.
THEOREM UntornSnapshot == Spec => []SnapshotIsADocument
<1>1. IInv => SnapshotIsADocument
  BY DEF IInv, DocInv
<1>2. QED BY <1>1, Invariance, PTL

\* A change replaces only the document it was made from.
THEOREM Serial == Spec => NoLostUpdate
<1>1. IInv /\ [Next]_vars => [BasedOnCurrent]_vars
  <2> SUFFICES ASSUME IInv, Next PROVE BasedOnCurrent
    OBVIOUS
  <2>1. CASE commitBackend
    BY <2>1 DEF commitBackend, BasedOnCurrent, IInv, OpInv
  <2>2. CASE ~commitBackend
    <3>1. AdminRequest => doc' = doc
      BY DEF AdminRequest, AccessSnapshot, UpsertSystem, RotateAPIKey, DeleteSystem, Begin
    <3>2. ManagerStep => doc' = doc
      BY DEF ManagerStep, ReadDocument, ReadKey, Publish, adminVars
    <3>3. AdminStep \/ WriteFails \/ SyncFails \/ AdminCrash => doc' = doc
      BY <2>2 DEF AdminStep, writeAPIKey, syncMockAPIKey, WriteFails, SyncFails, AdminCrash
    <3>4. ProxyCrash \/ (\E x \in Systems : ReadKeyFails(x)) => doc' = doc
      BY DEF ReadKeyFails, ProxyCrash, adminVars
    <3>5. QED BY <3>1, <3>2, <3>3, <3>4 DEF Next, BasedOnCurrent
  <2>3. QED BY <2>1, <2>2
<1>2. QED BY <1>1, Invariance, PTL DEF Spec, NoLostUpdate
=============================================================================
