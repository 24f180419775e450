------------------------------- MODULE Access -------------------------------
(***************************************************************************)
(* API keys and access rules: Store.UpsertSystem, RotateAPIKey and         *)
(* DeleteSystem of internal/admin/store.go, which write key files and the  *)
(* backend document, against Manager.ReloadContext of                      *)
(* internal/platform/config/manager.go, which reads the document first and *)
(* the key files after it.  The two processes share nothing but the files. *)
(*                                                                         *)
(* A change holds the store's mutex from its first read to its answer:     *)
(*                                                                         *)
(*     free -> (key) -> commit -> (sync) -> free                           *)
(*                                                                         *)
(* One API key is drawn for each generated file, so a file name and the    *)
(* key written to it carry the same number; files maps names to contents.  *)
(***************************************************************************)
EXTENDS Naturals, FiniteSets

CONSTANTS
    Systems,
    Default,        \* default_system, an immutable field
    MockSystem,     \* the system_id of the mock-client document
    Admins,         \* browser sessions of the admin page
    MaxVersion,
    MaxKey,
    MaxFaults

ASSUME AccessAssumption ==
    /\ IsFiniteSet(Systems)
    /\ Default \in Systems
    /\ MockSystem \in Systems
    /\ MaxVersion \in Nat \ {0}
    /\ MaxKey \in Nat \ {0}
    /\ MaxFaults \in Nat

VARIABLES
    doc,        \* the backend document
    files,      \* the key directory
    mock,       \* api_key_file of the mock-client document
    named,      \* key names drawn so far
    form,       \* the revision each session holds
    pc,         \* the change that holds the mutex, and its data
    op,
    cand,       \* the document buildCandidate has read
    todo,       \* systems whose secret is still to be read
    built,      \* the consumers built so far
    snapshot,   \* Manager.current
    faults,
    written,    \* history: what each version of the document said
    retired     \* history: keys whose replacement has been acknowledged

adminVars == <<doc, files, mock, named, form, pc, op, written, retired>>
managerVars == <<cand, todo, built, snapshot>>
vars == <<adminVars, managerVars, faults>>

NoKey == 0

Names == 1..MaxKey

Entries == [present: BOOLEAN, enabled: BOOLEAN, anonymous: BOOLEAN, key: 0..MaxKey]

Consumers == [present: BOOLEAN, enabled: BOOLEAN, key: 0..MaxKey]

Absent == [present |-> FALSE, enabled |-> FALSE, anonymous |-> FALSE, key |-> NoKey]

NoConsumer == [present |-> FALSE, enabled |-> FALSE, key |-> NoKey]

NoChange == [by |-> "none", system |-> Default, entry |-> Absent, generate |-> FALSE]

\* Version 0 is a manager that has not loaded anything.
NotLoaded == [version |-> 0, systems |-> [x \in Systems |-> NoConsumer]]

\* The consumer that an entry stands for, with its secret.
Meaning(e) == [present |-> e.present, enabled |-> e.enabled, key |-> e.key]

\* A hand-written first document: the default system has a key file, and may
\* allow anonymous access besides.
Init ==
    /\ \E a \in BOOLEAN :
          doc = [version |-> 1,
                 systems |-> [x \in Systems |->
                     IF x = Default
                     THEN [present |-> TRUE, enabled |-> TRUE, anonymous |-> a, key |-> 1]
                     ELSE Absent]]
    /\ files = [n \in Names |-> IF n = 1 THEN 1 ELSE NoKey]
    /\ mock = 1
    /\ named = 1
    /\ form = [a \in Admins |-> 0]
    /\ pc = "free"
    /\ op = NoChange
    /\ cand = [version |-> 0, systems |-> [x \in Systems |-> Absent]]
    /\ todo = {}
    /\ built = [x \in Systems |-> NoConsumer]
    /\ snapshot = NotLoaded
    /\ faults = 0
    /\ written = [v \in 1..MaxVersion |->
                    IF v = 1 THEN [x \in Systems |-> Meaning(doc.systems[x])]
                    ELSE [x \in Systems |-> NoConsumer]]
    /\ retired = {}

-----------------------------------------------------------------------------
(* The admin store *)

AccessSnapshot(a) ==
    /\ pc = "free"
    /\ form' = [form EXCEPT ![a] = doc.version]
    /\ UNCHANGED <<doc, files, mock, named, pc, op, written, retired, managerVars, faults>>

\* The form was loaded from the document as it is now.
matchRevision(a) == form[a] = doc.version

\* A change passes loadBackendLocked and matchRevision and goes on to write.
Begin(a, x, e, generate) ==
    /\ doc.version < MaxVersion
    /\ generate => named < MaxKey
    /\ pc' = IF generate THEN "key" ELSE "commit"
    /\ op' = [by |-> a, system |-> x, entry |-> e, generate |-> generate]
    /\ UNCHANGED <<doc, files, mock, named, form, written, retired, managerVars, faults>>

\* configureAccess on the entry the document has, without the key file.
configureAccess(old, mode, enabled) ==
    CASE mode = "anonymous" ->
            [present |-> TRUE, enabled |-> enabled, anonymous |-> TRUE, key |-> NoKey]
      [] mode = "disabled" ->
            [present |-> TRUE, enabled |-> FALSE, anonymous |-> old.anonymous, key |-> old.key]
      [] mode = "api_key" ->
            [present |-> TRUE, enabled |-> enabled, anonymous |-> FALSE, key |-> old.key]

UpsertSystem(a, x) ==
    /\ pc = "free"
    /\ matchRevision(a)
    /\ \E mode \in {"anonymous", "disabled", "api_key"}, enabled, generateKey \in BOOLEAN :
          LET generate == mode = "api_key" /\ generateKey
              entry == configureAccess(doc.systems[x], mode, enabled) IN
          /\ mode = "api_key" /\ enabled => generate \/ entry.key # NoKey
          /\ Begin(a, x, entry, generate)

\* Mutant: the revision is not compared.
RotateAPIKeyUnchecked(a, x) ==
    /\ pc = "free"
    /\ form[a] # 0
    /\ doc.systems[x].present
    /\ Begin(a, x, [doc.systems[x] EXCEPT !.anonymous = FALSE], TRUE)

RotateAPIKey(a, x) ==
    /\ pc = "free"
    /\ matchRevision(a)
    /\ doc.systems[x].present
    /\ Begin(a, x, [doc.systems[x] EXCEPT !.anonymous = FALSE], TRUE)

DeleteSystem(a, x) ==
    /\ pc = "free"
    /\ matchRevision(a)
    /\ x # Default
    /\ doc.systems[x].present
    /\ Begin(a, x, Absent, FALSE)

\* writeAPIKeyLocked: a new key under a new name.
writeAPIKey ==
    /\ pc = "key"
    /\ named' = named + 1
    /\ files' = [files EXCEPT ![named + 1] = named + 1]
    /\ op' = [op EXCEPT !.entry.key = named + 1]
    /\ pc' = "commit"
    /\ UNCHANGED <<doc, mock, form, written, retired, managerVars, faults>>

NewDocument ==
    [version |-> doc.version + 1,
     systems |-> [doc.systems EXCEPT ![op.system] = op.entry]]

\* Mutant: the rename keeps the version of the document.
commitSameVersion ==
    /\ pc = "commit"
    /\ doc' = [NewDocument EXCEPT !.version = doc.version]
    /\ written' = [written EXCEPT ![doc.version] =
                      [x \in Systems |-> Meaning(NewDocument.systems[x])]]
    /\ pc' = "sync"
    /\ UNCHANGED <<files, mock, named, form, op, retired, managerVars, faults>>

\* Mutant: the file of the replaced key is removed.
commitRemovesOld ==
    /\ pc = "commit"
    /\ doc' = NewDocument
    /\ written' = [written EXCEPT ![doc'.version] =
                      [x \in Systems |-> Meaning(doc'.systems[x])]]
    /\ files' = [n \in Names |->
                   IF n = doc.systems[op.system].key /\ n # op.entry.key
                   THEN NoKey ELSE files[n]]
    /\ pc' = "sync"
    /\ UNCHANGED <<mock, named, form, op, retired, managerVars, faults>>

\* commitBackend: the new document is valid, is renamed into place.
commitBackend ==
    /\ pc = "commit"
    /\ doc' = NewDocument
    /\ written' = [written EXCEPT ![doc'.version] =
                      [x \in Systems |-> Meaning(doc'.systems[x])]]
    /\ pc' = "sync"
    /\ UNCHANGED <<files, mock, named, form, op, retired, managerVars, faults>>

\* The mutation result: the caller learns the revision, and a key that no
\* entry names any more is out of use.
Acknowledge ==
    /\ pc' = "free"
    /\ op' = NoChange
    /\ form' = [form EXCEPT ![op.by] = doc.version]
    /\ retired' = (1..named) \ {doc.systems[x].key : x \in Systems}

\* syncMockAPIKeyLocked, for a generated key of the mock-client's system.
syncMockAPIKey ==
    /\ pc = "sync"
    /\ mock' = IF op.generate /\ op.system = MockSystem THEN op.entry.key ELSE mock
    /\ Acknowledge
    /\ UNCHANGED <<doc, files, named, written, managerVars, faults>>

Fault ==
    /\ faults < MaxFaults
    /\ faults' = faults + 1

\* A write of the key file or of the document fails: the caller gets an
\* error, and a key file already written is removed.
WriteFails ==
    /\ Fault
    /\ pc \in {"key", "commit"}
    /\ files' = IF pc = "commit" /\ op.generate
                THEN [files EXCEPT ![op.entry.key] = NoKey] ELSE files
    /\ pc' = "free"
    /\ op' = NoChange
    /\ UNCHANGED <<doc, mock, named, form, written, retired, managerVars>>

\* The document is in place, the mock-client's is not: a message says so.
SyncFails ==
    /\ Fault
    /\ pc = "sync"
    /\ op.generate
    /\ Acknowledge
    /\ UNCHANGED <<doc, files, mock, named, written, managerVars>>

\* The admin process dies in the middle of a change.
AdminCrash ==
    /\ Fault
    /\ pc # "free"
    /\ pc' = "free"
    /\ op' = NoChange
    /\ UNCHANGED <<doc, files, mock, named, form, written, retired, managerVars>>

-----------------------------------------------------------------------------
(* The configuration manager *)

Idle == cand.version = 0

Stop ==
    /\ cand' = [version |-> 0, systems |-> [x \in Systems |-> Absent]]
    /\ todo' = {}
    /\ built' = [x \in Systems |-> NoConsumer]

\* A document without its default system is rejected.
validateSystems(d) == d.systems[Default].present

\* buildCandidate of NewManagerFromSource or of a poll.
ReadDocument ==
    /\ Idle
    /\ validateSystems(doc)
    /\ cand' = doc
    /\ todo' = {x \in Systems : doc.systems[x].present}
    /\ built' = [x \in Systems |-> NoConsumer]
    /\ UNCHANGED <<adminVars, snapshot, faults>>

\* Mutant: a secret that cannot be read counts as none.
buildConsumerOpen(x, secret, failed) ==
    LET e == cand.systems[x] IN
    IF e.enabled /\ secret = NoKey /\ ~e.anonymous
    THEN Stop
    ELSE /\ built' = [built EXCEPT ![x] =
                        [present |-> TRUE, enabled |-> e.enabled, key |-> secret]]
         /\ todo' = todo \ {x}
         /\ UNCHANGED cand

\* buildConsumer: the secret of an enabled system must resolve.
buildConsumer(x, secret, failed) ==
    LET e == cand.systems[x] IN
    IF e.enabled /\ (failed \/ (secret = NoKey /\ ~e.anonymous))
    THEN Stop
    ELSE /\ built' = [built EXCEPT ![x] =
                        [present |-> TRUE, enabled |-> e.enabled, key |-> secret]]
         /\ todo' = todo \ {x}
         /\ UNCHANGED cand

ReadKey(x) ==
    LET name == cand.systems[x].key
        secret == IF name = NoKey THEN NoKey ELSE files[name] IN
    /\ x \in todo
    /\ buildConsumer(x, secret, name # NoKey /\ secret = NoKey)
    /\ UNCHANGED <<adminVars, snapshot, faults>>

\* The file is there and cannot be read.
ReadKeyFails(x) ==
    /\ Fault
    /\ x \in todo
    /\ cand.systems[x].key # NoKey
    /\ buildConsumer(x, NoKey, TRUE)
    /\ UNCHANGED <<adminVars, snapshot>>

\* The rest of ReloadContext: nothing new, a version that says two things, or
\* a new snapshot.
Publish ==
    /\ ~Idle
    /\ todo = {}
    /\ snapshot' = IF cand.version = snapshot.version THEN snapshot
                   ELSE [version |-> cand.version, systems |-> built]
    /\ Stop
    /\ UNCHANGED <<adminVars, faults>>

\* The proxy dies; its successor starts from the files.
ProxyCrash ==
    /\ Fault
    /\ snapshot' = NotLoaded
    /\ Stop
    /\ UNCHANGED adminVars

\* The handlers of the admin page.
AdminRequest ==
    \/ \E a \in Admins : AccessSnapshot(a)
    \/ \E a \in Admins, x \in Systems :
          UpsertSystem(a, x) \/ RotateAPIKey(a, x) \/ DeleteSystem(a, x)

AdminStep ==
    \/ writeAPIKey
    \/ commitBackend
    \/ syncMockAPIKey

ManagerStep ==
    \/ ReadDocument
    \/ \E x \in Systems : ReadKey(x)
    \/ Publish

Next ==
    \/ AdminRequest
    \/ AdminStep
    \/ WriteFails
    \/ SyncFails
    \/ AdminCrash
    \/ ManagerStep
    \/ \E x \in Systems : ReadKeyFails(x)
    \/ ProxyCrash

Spec == Init /\ [][Next]_vars

\* The manager polls for ever, and a change that holds the mutex goes on.
Fairness == WF_vars(AdminStep) /\ WF_vars(ManagerStep)

FairSpec == Spec /\ Fairness

-----------------------------------------------------------------------------
(* Properties *)

TypeOK ==
    /\ doc \in [version: 1..MaxVersion, systems: [Systems -> Entries]]
    /\ doc.systems[Default].present
    /\ files \in [Names -> 0..MaxKey]
    /\ mock \in Names
    /\ named \in Names
    /\ form \in [Admins -> 0..MaxVersion]
    /\ pc \in {"free", "key", "commit", "sync"}
    /\ op \in [by: Admins \cup {"none"}, system: Systems, entry: Entries, generate: BOOLEAN]
    /\ cand \in [version: 0..MaxVersion, systems: [Systems -> Entries]]
    /\ todo \subseteq Systems
    /\ built \in [Systems -> Consumers]
    /\ snapshot \in [version: 0..MaxVersion, systems: [Systems -> Consumers]]
    /\ faults \in 0..MaxFaults
    /\ written \in [1..MaxVersion -> [Systems -> Consumers]]
    /\ retired \subseteq Names

\* The key files that the document, the document in the hands of the manager
\* or the mock-client's document names.
Referenced ==
    ({mock} \cup {doc.systems[x].key : x \in Systems}
            \cup {cand.systems[x].key : x \in Systems}) \ {NoKey}

\* Every key file in use is on disk with its key: a reload never fails because
\* of what the admin service does, whichever of its writes fails.
NoDanglingKey == \A n \in Referenced : files[n] = n

\* A consumer does what the document says; the key of a disabled one is moot.
Agrees(c, said) ==
    /\ c.present = said.present
    /\ c.enabled = said.enabled
    /\ said.enabled => c.key = said.key

\* What the proxy enforces for its systems is one whole document, keys
\* included, never a mixture of two, and never open where the document names a
\* key that could not be read.
SnapshotIsADocument ==
    snapshot.version # 0 =>
        \A x \in Systems : Agrees(snapshot.systems[x], written[snapshot.version][x])

\* A document is replaced only by a change that its author made looking at
\* that very document.
BasedOnCurrent == doc' # doc => form[op.by] = doc.version

NoLostUpdate == [][BasedOnCurrent]_vars

\* What makes these inductive.  The change that holds the mutex: nothing has
\* happened to the document since its revision was compared.
OpInv ==
    /\ pc # "free" => op.by \in Admins
    /\ pc \in {"key", "commit"} => form[op.by] = doc.version /\ doc.version < MaxVersion
    /\ pc = "key" => op.generate /\ named < MaxKey
    /\ op.entry.enabled => op.entry.present
    /\ pc \in {"key", "commit"} /\ op.system = Default => op.entry.present

\* Its key file is on disk, and before the commit nothing names it.
KeyInv ==
    /\ NoDanglingKey
    /\ \A n \in Referenced : n <= named
    /\ pc \in {"commit", "sync"} /\ op.entry.key # NoKey =>
          files[op.entry.key] = op.entry.key /\ op.entry.key <= named
    /\ pc \in {"commit", "sync"} /\ op.generate => op.entry.key # NoKey
    /\ pc = "commit" /\ op.generate => op.entry.key \notin Referenced

\* The manager reads, builds and publishes versions that were written.
DocInv ==
    /\ \A x \in Systems :
          /\ doc.systems[x].enabled => doc.systems[x].present
          /\ cand.systems[x].enabled => cand.systems[x].present
          /\ written[doc.version][x] = Meaning(doc.systems[x])
    /\ cand.version <= doc.version
    /\ snapshot.version <= doc.version
    /\ cand.version # 0 =>
          \A x \in Systems :
              /\ written[cand.version][x] = Meaning(cand.systems[x])
              /\ x \in todo => cand.systems[x].present
              /\ x \notin todo => Agrees(built[x], Meaning(cand.systems[x]))
    /\ cand.version = 0 => todo = {}
    /\ SnapshotIsADocument

IInv == TypeOK /\ OpInv /\ KeyInv /\ DocInv

\* consumer of internal/proxy/server.go compares the key of a request for x
\* with k.
Accepts(x, k) ==
    /\ snapshot.systems[x].present
    /\ snapshot.systems[x].enabled
    /\ snapshot.systems[x].key = k

\* A key whose replacement was acknowledged is in the end nobody's key any
\* more, whatever the manager was reading and whichever process crashed.
RetiredKeyRefused ==
    \A k \in Names : (k \in retired) ~> [](\A x \in Systems : ~Accepts(x, k))
=============================================================================
