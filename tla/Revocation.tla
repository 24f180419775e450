----------------------------- MODULE Revocation -----------------------------
(***************************************************************************)
(* Revocation of client certificates (internal/admin/pki.go, crl.go).  Two *)
(* processes rewrite the same three files: the admin service, which revokes *)
(* a certificate, and the renewer (cmd/admin -maintain-crl), which renews  *)
(* the revocation list before it expires.  Each holds the flock of         *)
(* .pki.lock from its first read to its last write, and either may fail or *)
(* crash between two writes.  nginx refuses the certificates of the list   *)
(* it has loaded; scripts/nginx-crl-watch.sh makes it load a new one.      *)
(*                                                                         *)
(*   revocations.json  ->  ca.crl  ->  public/ca.crl  ->  nginx            *)
(***************************************************************************)
EXTENDS Naturals, FiniteSets

CONSTANTS
    Serials,        \* serial numbers of client certificates
    Numbers,        \* CRL numbers, the identity of a list
    MaxRevokes,     \* bound on the revocations asked for
    MaxFaults       \* bound on failed writes, crashes and restarts

ASSUME RevocationAssumption ==
    /\ "none" \notin Serials
    /\ Numbers \subseteq Nat \ {0}
    /\ \A S \in SUBSET Numbers : Cardinality(S) <= 7 => S # Numbers
    /\ MaxRevokes \in Nat
    /\ MaxFaults \in Nat

Processes == {"admin", "renewer"}

Free == "free"

\* A file that does not exist, or nginx when it is down.
None == [number |-> 0, revoked |-> {}]

\* A signed list.  Two lists are the same file when number and entries agree.
Lists == [number: Numbers, revoked: SUBSET Serials]

Target == Serials \cup {"none"}

VARIABLES
    issued,     \* the certificates saved under clients/
    registry,   \* revocations.json
    crl,        \* ca.crl
    near,       \* ca.crl has at most 24 hours left
    pub,        \* public/ca.crl
    lock,       \* holder of .pki.lock
    pc,         \* what each process writes next
    target,     \* the serial it revokes
    list,       \* the list it has signed
    acked,      \* serials whose revocation was reported as done
    wpc,        \* the watcher script
    previous,   \* its checksums
    current,    \* (only while a round of the watcher uses it)
    hup,        \* a reload was signalled and not yet carried out
    loaded,     \* the list nginx enforces
    revokes,
    faults

files == <<issued, registry, crl, near, pub>>
processes == <<lock, pc, target, list, acked>>
watcher == <<wpc, previous, current, hup, loaded>>
vars == <<files, processes, watcher, revokes, faults>>

Init ==
    /\ issued = {}
    /\ registry = {}
    /\ \/ crl = None
       \/ \E R \in SUBSET Serials :
             crl = [number |-> CHOOSE n \in Numbers : TRUE, revoked |-> R]
    /\ near = FALSE
    /\ pub \in {None, crl}
    /\ lock = Free
    /\ pc = [p \in Processes |-> "idle"]
    /\ target = [p \in Processes |-> "none"]
    /\ list = [p \in Processes |-> None]
    /\ acked = {}
    /\ wpc = "down"
    /\ previous = None
    /\ current = None
    /\ hup = FALSE
    /\ loaded = None
    /\ revokes = 0
    /\ faults = 0

-----------------------------------------------------------------------------
(* The two processes *)

IssueCertificate(s) ==
    /\ s \notin issued
    /\ issued' = issued \cup {s}
    /\ UNCHANGED <<registry, crl, near, pub, processes, watcher, revokes, faults>>

InUse ==
    {l.number : l \in {crl, pub, previous, current, loaded}
                      \cup {list[p] : p \in Processes}}

\* The number of a list is the time at which it is signed.
NewNumber == CHOOSE n \in Numbers : n \notin InUse

\* Mutant: the entries that only ca.crl holds are forgotten.
RegistryOnly == registry

\* Mutant: the registry is written and never read back.
ListOnly == crl.revoked

\* allRevocationsLocked: both sources, so that neither half of an
\* interrupted write and no imported list is lost.
allRevocations == registry \cup crl.revoked

\* The part of an operation from the lock to the first write; the lists are
\* read and the new one is signed in memory.
Sign(p, s, revoked) ==
    /\ list' = [list EXCEPT ![p] = [number |-> NewNumber, revoked |-> revoked]]
    /\ target' = [target EXCEPT ![p] = s]
    /\ pc' = [pc EXCEPT ![p] = "registry"]

RevokeCertificate(s) ==
    /\ pc["admin"] = "idle"
    /\ lock = Free
    /\ s \in issued
    /\ revokes < MaxRevokes
    /\ revokes' = revokes + 1
    /\ lock' = "admin"
    /\ Sign("admin", s, allRevocations \cup {s})
    /\ UNCHANGED <<files, acked, watcher, faults>>

\* Mutant: the renewer does not take the lock.
RefreshCRLUnlocked(force) ==
    /\ pc["renewer"] = "idle"
    /\ Sign("renewer", "none", allRevocations)
    /\ UNCHANGED <<files, lock, acked, watcher, revokes, faults>>

\* A list with more than a day left is only published again.
RefreshCRL(force) ==
    /\ pc["renewer"] = "idle"
    /\ lock = Free
    /\ lock' = "renewer"
    /\ IF ~force /\ crl # None /\ ~near
       THEN /\ list' = [list EXCEPT !["renewer"] = crl]
            /\ pc' = [pc EXCEPT !["renewer"] = "publish"]
            /\ UNCHANGED target
       ELSE Sign("renewer", "none", allRevocations)
    /\ UNCHANGED <<files, acked, watcher, revokes, faults>>

\* writeRevocationsAndCRLLocked, one atomic rename per step.
WriteRegistry(p) ==
    /\ pc[p] = "registry"
    /\ registry' = list[p].revoked
    /\ pc' = [pc EXCEPT ![p] = "crl"]
    /\ UNCHANGED <<issued, crl, near, pub, lock, target, list, acked, watcher,
                   revokes, faults>>

WriteCRL(p) ==
    /\ pc[p] = "crl"
    /\ crl' = list[p]
    /\ near' = FALSE
    /\ pc' = [pc EXCEPT ![p] = "publish"]
    /\ UNCHANGED <<issued, registry, pub, lock, target, list, acked, watcher,
                   revokes, faults>>

\* The operation returns: its deferred calls release the lock.
Return(p) ==
    /\ pc' = [pc EXCEPT ![p] = "idle"]
    /\ list' = [list EXCEPT ![p] = None]
    /\ target' = [target EXCEPT ![p] = "none"]
    /\ lock' = IF lock = p THEN Free ELSE lock

\* publishCRLLocked
Publish(p) ==
    /\ pc[p] = "publish"
    /\ pub' = list[p]
    /\ acked' = acked \cup ({target[p]} \cap Serials)
    /\ Return(p)
    /\ UNCHANGED <<issued, registry, crl, near, watcher, revokes, faults>>

\* A write fails, or the process dies and the kernel drops its lock.
GiveUp(p) ==
    /\ pc[p] # "idle"
    /\ faults < MaxFaults
    /\ faults' = faults + 1
    /\ Return(p)
    /\ UNCHANGED <<files, acked, watcher, revokes>>

\* The list on disk comes within 24 hours of its NextUpdate.
NearsExpiry ==
    /\ crl # None
    /\ ~near
    /\ near' = TRUE
    /\ UNCHANGED <<issued, registry, crl, pub, processes, watcher, revokes, faults>>

-----------------------------------------------------------------------------
(* nginx and its watcher *)

\* The checksum is taken before nginx reads the file.
WatchStart ==
    /\ wpc = "down"
    /\ pub # None
    /\ previous' = pub
    /\ wpc' = "start"
    /\ UNCHANGED <<files, processes, current, hup, loaded, revokes, faults>>

NginxStart ==
    /\ wpc = "start"
    /\ loaded' = pub
    /\ wpc' = "sleep"
    /\ UNCHANGED <<files, processes, previous, current, hup, revokes, faults>>

Checksum ==
    /\ wpc = "sleep"
    /\ IF pub # previous
       THEN current' = pub /\ wpc' = "reload"
       ELSE UNCHANGED <<current, wpc>>
    /\ UNCHANGED <<files, processes, previous, hup, loaded, revokes, faults>>

\* nginx -t && nginx -s reload; the sum taken before it is the one kept.
SignalReload ==
    /\ wpc = "reload"
    /\ hup' = TRUE
    /\ previous' = current
    /\ current' = None
    /\ wpc' = "sleep"
    /\ UNCHANGED <<files, processes, loaded, revokes, faults>>

\* Mutant: the new checksum is kept although the reload failed.
ReloadFailsForgets ==
    /\ wpc = "reload"
    /\ faults < MaxFaults
    /\ faults' = faults + 1
    /\ previous' = current
    /\ current' = None
    /\ wpc' = "sleep"
    /\ UNCHANGED <<files, processes, hup, loaded, revokes>>

\* nginx -t or the signal fails: previous stays, the next round tries again.
ReloadFails ==
    /\ wpc = "reload"
    /\ faults < MaxFaults
    /\ faults' = faults + 1
    /\ current' = None
    /\ wpc' = "sleep"
    /\ UNCHANGED <<files, processes, previous, hup, loaded, revokes>>

\* The nginx master reads the file some time after the signal.
NginxReload ==
    /\ hup
    /\ hup' = FALSE
    /\ loaded' = pub
    /\ UNCHANGED <<files, processes, wpc, previous, current, revokes, faults>>

\* The container is stopped; it is restarted by WatchStart.
NginxStops ==
    /\ wpc # "down"
    /\ faults < MaxFaults
    /\ faults' = faults + 1
    /\ wpc' = "down"
    /\ previous' = None
    /\ current' = None
    /\ hup' = FALSE
    /\ loaded' = None
    /\ UNCHANGED <<files, processes, revokes>>

Writes(p) == WriteRegistry(p) \/ WriteCRL(p) \/ Publish(p)

Watch == WatchStart \/ NginxStart \/ Checksum \/ SignalReload

\* The handlers of the admin page.
AdminRequest == \E s \in Serials : IssueCertificate(s) \/ RevokeCertificate(s)

\* The renewer: at its start, by force if asked to, and every hour.
maintainCRL == \E force \in BOOLEAN : RefreshCRL(force)

Next ==
    \/ AdminRequest
    \/ maintainCRL
    \/ \E p \in Processes : Writes(p) \/ GiveUp(p)
    \/ NearsExpiry
    \/ Watch
    \/ ReloadFails
    \/ NginxReload
    \/ NginxStops

Spec == Init /\ [][Next]_vars

\* An operation that holds the lock finishes, the renewer's hourly ticker
\* fires, time passes, and the watcher's loop and nginx go on.
Fairness ==
    /\ \A p \in Processes : WF_vars(Writes(p))
    /\ SF_vars(RefreshCRL(FALSE))
    /\ WF_vars(NearsExpiry)
    /\ WF_vars(Watch)
    /\ WF_vars(NginxReload)

FairSpec == Spec /\ Fairness

-----------------------------------------------------------------------------
(* Properties *)

TypeOK ==
    /\ issued \subseteq Serials
    /\ registry \subseteq Serials
    /\ {crl, pub, previous, current, loaded} \subseteq Lists \cup {None}
    /\ near \in BOOLEAN
    /\ lock \in Processes \cup {Free}
    /\ pc \in [Processes -> {"idle", "registry", "crl", "publish"}]
    /\ target \in [Processes -> Target]
    /\ list \in [Processes -> Lists \cup {None}]
    /\ acked \subseteq Serials
    /\ wpc \in {"down", "start", "sleep", "reload"}
    /\ hup \in BOOLEAN
    /\ revokes \in 0..MaxRevokes
    /\ faults \in 0..MaxFaults

\* What no step may do to the files and to a running nginx.
KeepsRevocations ==
    /\ registry \subseteq registry'
    /\ crl.revoked \subseteq crl'.revoked
    /\ pub.revoked \subseteq pub'.revoked
    /\ wpc' = "down" \/ loaded.revoked \subseteq loaded'.revoked

\* Whatever write fails and whichever process comes next, a revocation that
\* has reached one of the files, or nginx, is never taken back there.
NeverReinstated == [][KeepsRevocations]_vars

\* A revocation the admin page reports as done is in all three files, and
\* stays there through every renewal.
AckedIsPublished ==
    acked \subseteq registry \cap crl.revoked \cap pub.revoked

\* nginx refuses nothing that the files it was copied from do not list: what
\* it enforces survives the loss of the public copy.
EnforcedIsOnRecord ==
    /\ loaded.revoked \subseteq pub.revoked
    /\ pub.revoked \subseteq crl.revoked

\* Who is between its first read and its last write, and with what: the
\* list in hand covers what both sources hold, the registry is written
\* first and the list that is published is the one on disk.
Exclusive ==
    /\ lock \in Processes \cup {Free}
    /\ \A p \in Processes : pc[p] = "idle" <=> lock # p

InHand(p) ==
    /\ pc[p] \in {"registry", "crl"} => crl.revoked \subseteq list[p].revoked
    /\ pc[p] = "registry" => registry \subseteq list[p].revoked
    /\ pc[p] = "crl" => registry = list[p].revoked
    /\ pc[p] = "publish" => list[p] = crl
    /\ pc[p] = "idle" => target[p] = "none"
    /\ target[p] \in Serials => target[p] \in list[p].revoked
    /\ target[p] \in Serials /\ pc[p] = "publish" => target[p] \in registry

Shape ==
    /\ pc \in [Processes -> {"idle", "registry", "crl", "publish"}]
    /\ target = [p \in Processes |-> target[p]]
    /\ list = [p \in Processes |-> list[p]]

\* The inductive invariant.
IInv ==
    /\ Shape
    /\ Exclusive
    /\ \A p \in Processes : InHand(p)
    /\ AckedIsPublished
    /\ EnforcedIsOnRecord

\* While nginx runs with an older list than the published one, a reload is
\* under way or the watcher is going to see the difference: no change of the
\* file falls between its checksum, nginx's read and a failed reload.
NoLostReload ==
    wpc \in {"sleep", "reload"} /\ loaded # pub => hup \/ previous # pub

\* A list that is not yet published is one the watcher has never seen: its
\* checksum cannot be taken for that of an earlier one.
Unseen(l) == l \notin {None, pub, previous, current}

NotYetSeen ==
    /\ crl # pub => Unseen(crl)
    /\ \A p \in Processes : pc[p] \in {"registry", "crl"} => Unseen(list[p])

\* Once the registry lists a certificate, nginx comes to refuse it, also when
\* the revocation failed half way and nobody repeats it.
RevokedIsEnforced ==
    \A s \in Serials : s \in registry ~> s \in loaded.revoked
=============================================================================
