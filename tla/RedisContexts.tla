---------------------------- MODULE RedisContexts ----------------------------
(***************************************************************************)
(* The engine over store.RedisStore (internal/pii/store/redis.go), with    *)
(* the sealing of records (codec.go).  Every command is a message: it can  *)
(* fail, its reply can be lost, go-redis repeats it, and the server may    *)
(* execute a SETNX after the client that sent it has given up.             *)
(*                                                                         *)
(* CreateIfAbsent sends SETNX with the time the record has left when the   *)
(* command is built.  The server counts that time from the moment it       *)
(* executes the command, so an entry may outlive its record; the engine's  *)
(* own expiry tests are what hides it.                                     *)
(***************************************************************************)
EXTENDS Processor

CONSTANTS
    Ring,       \* the codec of the backend that serves the request: its active
                \* key and the keys it knows
    MaxCopies,  \* bound: copies of one SETNX on their way at the same time
    NoEntry

VARIABLES
    server,     \* Redis: sealed records with the time each is dropped
    cmd,        \* the SETNX of the request
    flying,     \* flying[r]: how many copies of it are on their way
    reply       \* the reply to it on its way back

redisVars == <<server, cmd, flying, reply>>

vars == <<engineVars, redisVars>>

KeyIDs == UNION {Ring[r].known : r \in Requests}

Entries == [rec: Records, seal: KeyIDs, drop: Nat]

Commands == [rec: Records, seal: KeyIDs, ttl: Nat]

\* NewCodec refuses a configuration whose active key is not among its keys.
ASSUME RingAssumption == \A r \in Requests : Ring[r].active \in Ring[r].known

ASSUME CopiesAssumption == MaxCopies \in Nat \ {0}

ASSUME NoEntryAssumption == NoEntry \notin Entries \cup Commands

Key(r) == job[r].key

Present(k) == server[k] # NoEntry /\ clock < server[k].drop

Init ==
    /\ EngineInit
    /\ server = [k \in Keys |-> NoEntry]
    /\ cmd = [r \in Requests |-> NoEntry]
    /\ flying = [r \in Requests |-> 0]
    /\ reply = [r \in Requests |-> "none"]

\* Codec.Open: the backend's codec has the key that sealed the entry.
Open(r, e) == e.seal \in Ring[r].known

-----------------------------------------------------------------------------
(* RedisStore.Get: redis.Nil is absence; any other failure, a record sealed *)
(* with an unknown key included, is an error and never absence.             *)

Get(r) ==
    LET e == server[Key(r)]
    IN  /\ pc[r] = "read"
        /\ ~cancelled[r]
        /\ \/ /\ ~Present(Key(r))
              /\ rec' = [rec EXCEPT ![r] = NoRecord]
              /\ Goto(r, "got")
              /\ UNCHANGED ans
           \/ /\ Present(Key(r))
              /\ Open(r, e)
              /\ rec' = [rec EXCEPT ![r] = e.rec]
              /\ Goto(r, "got")
              /\ UNCHANGED ans
           \/ /\ Present(Key(r))
              /\ ~Open(r, e)
              /\ Finish(r, Failure("store"))
              /\ UNCHANGED rec
        /\ UNCHANGED <<clock, cancelled, job, draft, obs, redisVars>>

\* Mutant: the loser looks for the winner's record until it finds one.
GetWinnerWaits(r) ==
    /\ pc[r] = "winner"
    /\ ~cancelled[r]
    /\ Present(Key(r))
    /\ Open(r, server[Key(r)])
    /\ rec' = [rec EXCEPT ![r] = server[Key(r)].rec]
    /\ Goto(r, "saved")
    /\ UNCHANGED <<clock, cancelled, job, draft, obs, ans, redisVars>>

\* The same, for the loser of SETNX: now absence is an error as well.
GetWinner(r) ==
    LET e == server[Key(r)]
    IN  /\ pc[r] = "winner"
        /\ ~cancelled[r]
        /\ \/ /\ Present(Key(r))
              /\ Open(r, e)
              /\ rec' = [rec EXCEPT ![r] = e.rec]
              /\ Goto(r, "saved")
              /\ UNCHANGED ans
           \/ /\ Present(Key(r)) => ~Open(r, e)
              /\ Finish(r, Failure("store"))
              /\ UNCHANGED rec
        /\ UNCHANGED <<clock, cancelled, job, draft, obs, redisVars>>

\* The connection, the pool or the server failed, or its memory is full.
RedisFail(r) ==
    /\ pc[r] \in {"read", "setnx", "winner"}
    /\ ~cancelled[r]
    /\ Finish(r, Failure("store"))
    /\ draft' = [draft EXCEPT ![r] = NoRecord]
    /\ UNCHANGED <<clock, cancelled, job, rec, obs, redisVars>>

-----------------------------------------------------------------------------
(* RedisStore.CreateIfAbsent *)

SendSetNX(r) ==
    /\ pc[r] = "save"
    /\ ~cancelled[r]
    /\ ~Expired(draft[r], clock)
    /\ cmd' = [cmd EXCEPT ![r] = [rec |-> draft[r], seal |-> Ring[r].active,
                                  ttl |-> draft[r].expires - clock]]
    /\ flying' = [flying EXCEPT ![r] = 1]
    /\ Goto(r, "setnx")
    /\ UNCHANGED <<clock, cancelled, job, draft, rec, obs, ans, server, reply>>

\* "redis store: expired record"
SaveTooLate(r) ==
    /\ pc[r] = "save"
    /\ ~cancelled[r]
    /\ Expired(draft[r], clock)
    /\ draft' = [draft EXCEPT ![r] = NoRecord]
    /\ Finish(r, Failure("store"))
    /\ UNCHANGED <<clock, cancelled, job, rec, obs, redisVars>>

\* The server executes a copy of the command, whether or not the client still
\* waits.  The reply is lost, or the client reads it as the answer to them all.
ExecSetNX(r) ==
    LET c   == cmd[r]
        won == ~Present(Key(r))
    IN  /\ flying[r] > 0
        /\ flying' = [flying EXCEPT ![r] = @ - 1]
        /\ server' = IF won
                     THEN [server EXCEPT ![Key(r)] =
                              [rec |-> c.rec, seal |-> c.seal, drop |-> clock + c.ttl]]
                     ELSE server
        /\ \/ UNCHANGED reply
           \/ /\ pc[r] = "setnx"
              /\ reply[r] = "none"
              /\ reply' = [reply EXCEPT ![r] = IF won THEN "created" ELSE "exists"]
        /\ UNCHANGED <<engineVars, cmd>>

\* go-redis sends the same command again when no reply came in time, over
\* another connection: earlier copies may still be on their way.
ResendSetNX(r) ==
    /\ pc[r] = "setnx"
    /\ ~cancelled[r]
    /\ flying[r] < MaxCopies
    /\ reply[r] = "none"
    /\ flying' = [flying EXCEPT ![r] = @ + 1]
    /\ UNCHANGED <<engineVars, server, cmd, reply>>

\* Mutant: a lost race is taken for a won one.
RecvSetNXAlwaysWon(r) ==
    /\ pc[r] = "setnx"
    /\ ~cancelled[r]
    /\ reply[r] # "none"
    /\ reply' = [reply EXCEPT ![r] = "none"]
    /\ draft' = [draft EXCEPT ![r] = NoRecord]
    /\ rec' = [rec EXCEPT ![r] = draft[r]]
    /\ Goto(r, "saved")
    /\ UNCHANGED <<clock, cancelled, job, obs, ans, server, cmd, flying>>

RecvSetNX(r) ==
    /\ pc[r] = "setnx"
    /\ ~cancelled[r]
    /\ reply[r] # "none"
    /\ reply' = [reply EXCEPT ![r] = "none"]
    /\ draft' = [draft EXCEPT ![r] = NoRecord]
    /\ IF reply[r] = "created"
       THEN rec' = [rec EXCEPT ![r] = draft[r]] /\ Goto(r, "saved")
       ELSE UNCHANGED rec /\ Goto(r, "winner")
    /\ UNCHANGED <<clock, cancelled, job, obs, ans, server, cmd, flying>>

\* The step a request takes when Redis answers it.
Serve(r) ==
    \/ Get(r)
    \/ GetWinner(r)
    \/ SendSetNX(r)
    \/ SaveTooLate(r)
    \/ ResendSetNX(r)
    \/ RecvSetNX(r)
    \/ EngineStep(r) /\ UNCHANGED redisVars

RequestStep(r) == Serve(r) \/ RedisFail(r)

Environment ==
    \/ Tick /\ UNCHANGED redisVars
    \/ \E r \in Requests :
          \/ Cancel(r) /\ UNCHANGED redisVars
          \/ ClientCall(r) /\ UNCHANGED redisVars
          \/ ExecSetNX(r)

Next == Environment \/ \E r \in Requests : RequestStep(r)

Spec == Init /\ [][Next]_vars

\* A goroutine runs on, and a SETNX whose replies keep being lost is given up:
\* go-redis retries a bounded number of times, each with a ReadTimeout.
Fairness ==
    \A r \in Requests :
        /\ WF_vars(Serve(r))
        /\ WF_vars(pc[r] = "setnx" /\ RedisFail(r))

FairSpec == Spec /\ Fairness

-----------------------------------------------------------------------------
(* Properties *)

TypeOK ==
    /\ EngineTypeOK
    /\ server \in [Keys -> Entries \cup {NoEntry}]
    /\ cmd \in [Requests -> Commands \cup {NoEntry}]
    /\ flying \in [Requests -> 0..MaxCopies]
    /\ reply \in [Requests -> {"none", "created", "exists"}]

\* The binding of a key: what Redis keeps, as long as the record is in force.
LiveBinding(k) ==
    IF Present(k) /\ InForce(server[k].rec, clock) THEN server[k].rec ELSE NoRecord

Register == INSTANCE ContextRegister WITH
    bind <- [k \in Keys |-> LiveBinding(k)],
    seen <- [r \in Requests |->
                IF pc[r] \in {"respond", "done"} THEN rec[r] ELSE NoRecord]

\* Over Redis too, with lost replies, repeated and late commands, the engine's
\* operations are atomic operations on a write-once register with expiry.
ImplementsRegister == Register!Spec

Observed(r) == pc[r] \in {"respond", "done"} /\ rec[r] # NoRecord

\* Two backends never answer from two bindings of one key that are both in
\* force, although each decides from its own reads (SETNX, then the winner).
OneBindingAtATime ==
    \A p, q \in Requests :
        /\ Observed(p) /\ Observed(q)
        /\ Key(p) = Key(q)
        /\ rec[p] # rec[q]
        => Expired(rec[p], obs[q]) \/ Expired(rec[q], obs[p])

\* 409 is never the fate of a retry: it means that some call brought another
\* text under the identifier, whatever commands were lost, repeated or late.
ConflictHasACause ==
    \A r \in Requests :
        ans[r].kind = "conflict" =>
            \E q \in Requests :
                /\ job[q] # NoJob
                /\ job[q].key = job[r].key
                /\ job[q].text # job[r].text

\* x is the record that request q made of its job j by the time now: of its own
\* text, under its own policy, verified.  It is the only record q ever sends.
MadeOf(x, q, j, now) ==
    /\ j # NoJob
    /\ j.op # "demask"
    /\ \E t \in 0..now : x = NewRecord(q, j.text, j.pol, j.op = "mask", t)
    /\ Verified(j.text, x.masked, j.pol)

MadeBy(x, q) == MadeOf(x, q, job[q], clock)

MadeUnder(x, k) == MadeBy(x, x.id) /\ job[x.id].key = k

\* What a request holds at each step.
Hands(r) ==
    /\ job[r] = NoJob <=> pc[r] = "idle"
    /\ pc[r] # "done" => ans[r] = Failure("none")
    /\ pc[r] \in {"idle", "read", "mask", "save", "setnx", "winner"} => rec[r] = NoRecord
    /\ pc[r] \in {"saved", "respond"} => rec[r] # NoRecord
    /\ rec[r] # NoRecord => MadeUnder(rec[r], Key(r))
    /\ pc[r] \in {"mask", "save", "setnx", "winner"} => job[r].op # "demask"
    /\ pc[r] \in {"save", "setnx"} => draft[r] # NoRecord /\ MadeBy(draft[r], r)
    /\ pc[r] # "evict"
    /\ obs[r] <= clock

\* A request sends one command; it carries the request's own record and keeps
\* it at least until it expires, whenever it is executed.  Copies of it may be
\* on their way long after the request has its answer.
Command(r) ==
    /\ cmd[r] # NoEntry =>
          MadeBy(cmd[r].rec, r) /\ cmd[r].rec.expires <= clock + cmd[r].ttl
    /\ pc[r] = "setnx" => cmd[r] # NoEntry /\ cmd[r].rec = draft[r]
    /\ pc[r] \in {"idle", "read", "got", "mask", "save"} => cmd[r] = NoEntry
    /\ flying[r] > 0 =>
          cmd[r] # NoEntry /\ ans[r].kind \notin {"invalid", "detection"}
    /\ reply[r] # "none" => pc[r] \in {"setnx", "done"}

\* An entry outlives its record, which some request made under the key.
Kept(k) ==
    server[k] # NoEntry =>
        MadeUnder(server[k].rec, k) /\ server[k].rec.expires <= server[k].drop

\* A record in force, in the hand of a request or announced to it as created,
\* is the one that Redis keeps.
Held(r) ==
    /\ InForce(rec[r], clock) =>
          server[Key(r)] # NoEntry /\ server[Key(r)].rec = rec[r]
    /\ pc[r] = "setnx" /\ reply[r] = "created" /\ InForce(draft[r], clock) =>
          server[Key(r)] # NoEntry /\ server[Key(r)].rec = draft[r]

\* Every record that is kept or in a hand is that of the one command its
\* request sent: a late copy brings back no other.
Sent(x) == cmd[x.id] # NoEntry /\ cmd[x.id].rec = x

OneCommandEach ==
    /\ \A k \in Keys : server[k] # NoEntry => Sent(server[k].rec)
    /\ \A r \in Requests : rec[r] # NoRecord => Sent(rec[r])

\* The inductive invariant: together these survive every step.
IInv ==
    /\ TypeOK
    /\ \A r \in Requests : Hands(r) /\ Command(r) /\ Held(r)
    /\ \A k \in Keys : Kept(k)
    /\ OneCommandEach
    /\ OneBindingAtATime
    /\ ConflictHasACause

\* Every call over Redis ends: with commands and replies lost or late, with
\* entries that another backend sealed or that are dropped between the lost
\* SETNX and the read of the winner, which is not repeated.
EveryCallAnswered ==
    \A r \in Requests : pc[r] \notin {"idle", "done"} ~> pc[r] = "done"
=============================================================================
