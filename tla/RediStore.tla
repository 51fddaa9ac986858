----------------------------- MODULE RediStore ------------------------------
(***************************************************************************)
(* redistore/redistore.go: the Store kept in Redis hashes, driven by the   *)
(* Begin and Finish of idemlease.go on hosts whose clocks disagree.        *)
(*                                                                         *)
(* Redis is modelled from how the scripts use it: a script is atomic, and  *)
(* a key exists up to and including the instant its TTL ends, where PTTL   *)
(* is 0.  The client (go-redis) sends a command again when its answer does *)
(* not come, while the first request may still be on its way.              *)
(***************************************************************************)
EXTENDS Record, FiniteSets

CONSTANTS MaxTime,      \* bound: the clock stops here
          MaxLate,      \* bound: unanswered requests on their way
          MaxRetries,   \* the client's option of that name
          Skews         \* how far the hosts' clocks may be ahead of Redis

ASSUME BoundAssumption ==
    /\ MaxTime \in Nat /\ MaxLate \in Nat /\ MaxRetries \in Nat
    /\ Skews \subseteq Nat

VARIABLES
    now,        \* the clock of Redis
    hash,       \* the fields under each key
    ends,       \* the instant each key's TTL ends
    late,       \* requests on their way that nobody waits for
    skew,       \* how far the clock of each call's host is ahead
    pc, attempt,
    retries,    \* times the command under way was sent again
    key, fp,
    stamp,      \* Record.LeaseExpiresAt, on the host's clock
    px,         \* the TTL sent with the claim
    reply,      \* what the script answered
    until,      \* the end of the TTL the claim got
    outcome, result

vars == <<now, hash, ends, late, skew, pc, attempt, retries, key, fp, stamp,
          px, reply, until, outcome, result>>

redis == <<now, hash, ends, late>>
host == <<skew, key, fp>>

NoReply == [pttl |-> 0, rec |-> NoRecord]

Pending == [action |-> "pending", payload |-> None, retryAfter |-> 0]

maxAttempts == 3

Init ==
    /\ now = 0
    /\ hash = [k \in Key |-> NoRecord]
    /\ ends = [k \in Key |-> 0]
    /\ late = {}
    /\ skew \in [Call -> Skews]
    /\ pc = [c \in Call |-> "begin"]
    /\ attempt = [c \in Call |-> 1]
    /\ retries = [c \in Call |-> 0]
    /\ key \in [Call -> Key]
    /\ fp \in [Call -> Fingerprint]
    /\ stamp = [c \in Call |-> 0]
    /\ px = [c \in Call |-> 0]
    /\ reply = [c \in Call |-> NoReply]
    /\ until = [c \in Call |-> 0]
    /\ outcome = [c \in Call |-> Pending]
    /\ result = [c \in Call |-> "none"]

goto(c, l) == pc' = [pc EXCEPT ![c] = l]

(* time.Now on the host of c. *)
local(c) == now + skew[c]

-----------------------------------------------------------------------------
(* The scripts *)

exists(k) == hash[k] # NoRecord /\ now <= ends[k]

fields(c) ==
    [state |-> StateReserved, token |-> c, fp |-> fp[c],
     lease |-> stamp[c], expires |-> 0, payload |-> None]

reserveScript(c, ttl) ==
    IF exists(key[c])
    THEN UNCHANGED <<hash, ends>>
    ELSE /\ hash' = [hash EXCEPT ![key[c]] = fields(c)]
         /\ ends' = [ends EXCEPT ![key[c]] = now + ttl]

(* Mutant: the token is not compared. *)
casStatusAnyToken(c) ==
    IF ~exists(key[c]) \/ hash[key[c]].state # StateReserved
    THEN "NOT_FOUND" ELSE "OK"

(* Mutant: the state is not looked at. *)
casStatusAnyState(c) ==
    IF ~exists(key[c]) THEN "NOT_FOUND"
    ELSE IF hash[key[c]].token # c THEN "TOKEN_MISMATCH"
    ELSE "OK"

(* The checks of completeScript and releaseScript. *)
casStatus(c) ==
    IF ~exists(key[c]) THEN "NOT_FOUND"
    ELSE IF hash[key[c]].token # c THEN "TOKEN_MISMATCH"
    ELSE IF hash[key[c]].state # StateReserved THEN "NOT_FOUND"
    ELSE "OK"

(* The payload goes in and the TTL becomes the record's.  rec_exp_ms is    *)
(* informational: every reader replaces it, so that the host stamps it     *)
(* when it sends the command and not here makes no difference.             *)
completeScript(c) ==
    IF casStatus(c) = "OK"
    THEN /\ hash' = [hash EXCEPT ![key[c]].state = StateCompleted,
                                 ![key[c]].payload = c,
                                 ![key[c]].expires = local(c) + recordTTL]
         /\ ends' = [ends EXCEPT ![key[c]] = now + recordTTL]
    ELSE UNCHANGED <<hash, ends>>

releaseScript(c) ==
    IF casStatus(c) = "OK"
    THEN /\ hash' = [hash EXCEPT ![key[c]] = NoRecord]
         /\ UNCHANGED ends
    ELSE UNCHANGED <<hash, ends>>

finishScript(c, op) ==
    IF op = "complete" THEN completeScript(c) ELSE releaseScript(c)

-----------------------------------------------------------------------------
(* Begin over Reserve *)

(* Mutant: a deadline that has passed is sent as it is. *)
pxUntilRaw(deadline, t) == deadline - t

(* The absolute deadline as a TTL, clamped. *)
pxUntil(deadline, t) == IF deadline - t < 1 THEN 1 ELSE deadline - t

Stamp(c) ==
    /\ pc[c] = "begin"
    /\ stamp' = [stamp EXCEPT ![c] = local(c) + leaseTTL]
    /\ goto(c, "send")
    /\ UNCHANGED <<redis, host, attempt, retries, px, reply, until, outcome, result>>

Send(c) ==
    /\ pc[c] = "send"
    /\ px' = [px EXCEPT ![c] = pxUntil(stamp[c], local(c))]
    /\ goto(c, "reserve")
    /\ UNCHANGED <<redis, host, attempt, retries, stamp, reply, until, outcome, result>>

(* Mutant: EXISTS is not asked. *)
RunReserveBlind(c) ==
    /\ pc[c] = "reserve"
    /\ hash' = [hash EXCEPT ![key[c]] = fields(c)]
    /\ ends' = [ends EXCEPT ![key[c]] = now + px[c]]
    /\ until' = [until EXCEPT ![c] = now + px[c]]
    /\ outcome' = [outcome EXCEPT ![c].action = "Proceed"]
    /\ goto(c, "running")
    /\ retries' = [retries EXCEPT ![c] = 0]
    /\ UNCHANGED <<now, late, host, attempt, stamp, px, reply, result>>

RunReserve(c) ==
    /\ pc[c] = "reserve"
    /\ reserveScript(c, px[c])
    /\ \/ /\ ~exists(key[c])
          /\ until' = [until EXCEPT ![c] = now + px[c]]
          /\ outcome' = [outcome EXCEPT ![c].action = "Proceed"]
          /\ goto(c, "running")
          /\ UNCHANGED reply
       \/ /\ exists(key[c])
          /\ reply' = [reply EXCEPT ![c] = [pttl |-> ends[key[c]] - now,
                                            rec |-> hash[key[c]]]]
          /\ goto(c, "reply")
          /\ UNCHANGED <<until, outcome>>
    /\ retries' = [retries EXCEPT ![c] = 0]
    /\ UNCHANGED <<now, late, host, attempt, stamp, px, result>>

(* Mutant: the deadlines in the fields are believed. *)
recordFromReplyFields(c) == reply[c].rec

(* The active deadline is rebuilt from PTTL on the host's clock. *)
recordFromReply(c) ==
    LET r == reply[c].rec  deadline == local(c) + reply[c].pttl IN
    [state |-> r.state, token |-> r.token, fp |-> r.fp,
     lease |-> IF r.state = StateReserved THEN deadline ELSE r.lease,
     expires |-> IF r.state = StateCompleted THEN deadline ELSE r.expires,
     payload |-> r.payload]

Decode(c) ==
    /\ pc[c] = "reply"
    /\ reply' = [reply EXCEPT ![c].rec = recordFromReply(c), ![c].pttl = 0]
    /\ goto(c, "judge")
    /\ UNCHANGED <<redis, host, attempt, retries, stamp, px, until, outcome, result>>

(* Begin's verdict on the record it got back. *)
Judge(c) ==
    LET r == reply[c].rec IN
    /\ pc[c] = "judge"
    /\ \/ /\ Expired(r, local(c)) /\ attempt[c] < maxAttempts
          /\ attempt' = [attempt EXCEPT ![c] = @ + 1]
          /\ goto(c, "begin")
          /\ UNCHANGED outcome
       \/ /\ Expired(r, local(c)) /\ attempt[c] >= maxAttempts
          /\ outcome' = [outcome EXCEPT ![c].action = "contractViolation"]
          /\ goto(c, "failed")
          /\ UNCHANGED attempt
       \/ /\ ~Expired(r, local(c))
          /\ outcome' = [outcome EXCEPT ![c] =
                IF r.state = StateReserved
                THEN [action |-> "RejectInFlight", payload |-> None,
                      retryAfter |-> r.lease - local(c)]
                ELSE IF r.fp = fp[c]
                THEN [action |-> "Replay", payload |-> r.payload, retryAfter |-> 0]
                ELSE [action |-> "RejectFingerprintMismatch", payload |-> None,
                      retryAfter |-> 0]]
          /\ goto(c, "answered")
          /\ UNCHANGED attempt
    /\ reply' = [reply EXCEPT ![c] = NoReply]
    /\ UNCHANGED <<redis, host, retries, stamp, px, until, result>>

-----------------------------------------------------------------------------
(* Finish over Complete and Release *)

BeginFinish(c, op) ==
    /\ pc[c] = "running"
    /\ goto(c, op)
    /\ UNCHANGED <<redis, host, attempt, retries, stamp, px, reply, until, outcome, result>>

(* statusToErr, and Finish's leaseLost. *)
RunFinish(c) ==
    /\ pc[c] \in {"complete", "release"}
    /\ finishScript(c, pc[c])
    /\ result' = [result EXCEPT ![c] =
                    IF casStatus(c) # "OK" THEN "leaseLost"
                    ELSE IF pc[c] = "complete" THEN "persisted" ELSE "discarded"]
    /\ goto(c, "finished")
    /\ retries' = [retries EXCEPT ![c] = 0]
    /\ UNCHANGED <<now, late, host, attempt, stamp, px, reply, until, outcome>>

-----------------------------------------------------------------------------
(* The network and the environment *)

(* The answer does not come: the client sends the command again, or gives  *)
(* up with an error.  The first request may still reach Redis.             *)
Timeout(c) ==
    /\ pc[c] \in {"reserve", "complete", "release"}
    /\ Cardinality(late) < MaxLate
    /\ late' = late \cup {[op |-> pc[c], call |-> c, px |-> px[c]]}
    /\ \/ /\ retries[c] < MaxRetries
          /\ retries' = [retries EXCEPT ![c] = @ + 1]
          /\ UNCHANGED <<pc, outcome, result>>
       \/ /\ retries[c] >= MaxRetries
          /\ retries' = [retries EXCEPT ![c] = 0]
          /\ IF pc[c] = "reserve"
             THEN /\ outcome' = [outcome EXCEPT ![c].action = "error"]
                  /\ goto(c, "failed")
                  /\ UNCHANGED result
             ELSE /\ result' = [result EXCEPT ![c] = "unknown"]
                  /\ goto(c, "finished")
                  /\ UNCHANGED outcome
    /\ UNCHANGED <<now, hash, ends, host, attempt, stamp, px, reply, until>>

LateArrival(o) ==
    /\ o \in late
    /\ late' = late \ {o}
    /\ IF o.op = "reserve" THEN reserveScript(o.call, o.px)
       ELSE finishScript(o.call, o.op)
    /\ UNCHANGED <<now, host, pc, attempt, retries, stamp, px, reply, until, outcome, result>>

Crash(c) ==
    /\ pc[c] = "running"
    /\ goto(c, "crashed")
    /\ UNCHANGED <<redis, host, attempt, retries, stamp, px, reply, until, outcome, result>>

Tick ==
    /\ now < MaxTime
    /\ now' = now + 1
    /\ UNCHANGED <<hash, ends, late, host, pc, attempt, retries, stamp, px, reply,
                   until, outcome, result>>

Step(c) ==
    \/ Stamp(c) \/ Send(c) \/ RunReserve(c) \/ Decode(c) \/ Judge(c)
    \/ BeginFinish(c, "complete") \/ BeginFinish(c, "release") \/ RunFinish(c)
    \/ Timeout(c) \/ Crash(c)

Next ==
    \/ \E c \in Call : Step(c)
    \/ \E o \in late : LateArrival(o)
    \/ Tick

Spec == Init /\ [][Next]_vars

-----------------------------------------------------------------------------
(* Properties *)

Requests ==
    [op : {"reserve", "complete", "release"}, call : Call, px : 1 .. leaseTTL]

Replies == [pttl : Nat, rec : Records]

Outcomes ==
    [action : {"pending", "Proceed", "RejectInFlight", "Replay",
               "RejectFingerprintMismatch", "contractViolation", "error"},
     payload : Call \cup {None}, retryAfter : Nat]

(* Every variable holds a value of the shape the code gives it; a TTL that *)
(* is sent is positive and no longer than the lease.                       *)
TypeOK ==
    /\ now \in Nat
    /\ hash \in [Key -> Records]
    /\ ends \in [Key -> Nat]
    /\ late \subseteq Requests
    /\ skew \in [Call -> Skews]
    /\ pc \in [Call -> {"begin", "send", "reserve", "reply", "judge", "running",
                        "complete", "release", "answered", "finished", "failed",
                        "crashed"}]
    /\ attempt \in [Call -> 1 .. maxAttempts]
    /\ retries \in [Call -> 0 .. MaxRetries]
    /\ key \in [Call -> Key]
    /\ fp \in [Call -> Fingerprint]
    /\ stamp \in [Call -> Nat]
    /\ px \in [Call -> 0 .. leaseTTL]
    /\ reply \in [Call -> Replies]
    /\ until \in [Call -> Nat]
    /\ outcome \in [Call -> Outcomes]
    /\ result \in [Call -> {"none", "persisted", "discarded", "leaseLost", "unknown"}]

(* At most one handler runs for a key under a lease Redis has not ended,   *)
(* with hosts whose clocks disagree and commands that are sent twice.      *)
LeaseExclusive ==
    \A c, d \in Call :
        /\ pc[c] = "running" /\ now <= until[c]
        /\ pc[d] = "running" /\ now <= until[d]
        /\ key[c] = key[d]
        => c = d

(* A replayed payload is the result of an execution of the same key and    *)
(* fingerprint that reached its Complete.                                  *)
ReplayFaithful ==
    \A c \in Call :
        outcome[c].action = "Replay" =>
            LET p == outcome[c].payload IN
            /\ p \in Call \ {c}
            /\ key[p] = key[c] /\ fp[p] = fp[c]
            /\ pc[p] \in {"complete", "finished"}
            /\ result[p] # "discarded"

(* Whatever the clocks of its writer and its reader, a reservation turns a *)
(* request away for the rest of its lease at most, and for some time.      *)
RetrySane ==
    \A c \in Call :
        outcome[c].action = "RejectInFlight" => outcome[c].retryAfter \in 1 .. leaseTTL

(* A stored result stays as it is for the record TTL: no retry of Complete *)
(* and no late or second request changes it or its end.                    *)
CompletedStable ==
    [][\A k \in Key :
          exists(k) /\ hash[k].state = StateCompleted
              => hash'[k] = hash[k] /\ ends'[k] = ends[k]]_vars

(* Redis seen through EXISTS is the contract, with the instant at which a  *)
(* TTL ends still counted in.                                              *)
entry(k) ==
    IF ~exists(k)
    THEN [kind |-> "free", by |-> None, until |-> 0]
    ELSE IF hash[k].state = StateReserved
    THEN [kind |-> "leased", by |-> hash[k].token, until |-> ends[k] + 1]
    ELSE [kind |-> "stored", by |-> hash[k].payload, until |-> ends[k] + 1]

view == [k \in Key |-> entry(k)]

Contract == INSTANCE LeaseContract
    WITH clock <- now, held <- view,
         MaxLease <- leaseTTL + 1, MaxRecord <- recordTTL + 1

(* TTLs that Redis keeps, commands that are sent twice and requests that   *)
(* arrive after their caller gave up implement the contract every Store    *)
(* has to.                                                                 *)
Implements == Contract!ContractSpec

(* leaseLost means that "the caller's result was not persisted and will    *)
(* not be replayed".                                                       *)
LeaseLostNotReplayed ==
    \A c \in Call :
        outcome[c].action = "Replay" => result[outcome[c].payload] # "leaseLost"

(* The inductive strengthening. *)

(* c has sent its Complete, and nothing tells it that it was released.     *)
Persisting(c) == pc[c] \in {"complete", "finished"} /\ result[c] # "discarded"

(* r was left under key k by a call of that key.                           *)
Genuine(r, k) ==
    /\ r.token \in Call /\ key[r.token] = k /\ fp[r.token] = r.fp
    /\ r.state = StateCompleted => r.payload = r.token /\ Persisting(r.token)

RedisInv ==
    \A k \in Key : hash[k] # NoRecord =>
        /\ hash[k].state # 0
        /\ Genuine(hash[k], k)
        /\ hash[k].state = StateReserved => ends[k] <= now + leaseTTL

(* What is on its way was sent by its call, with a TTL within the lease.   *)
SentInv ==
    /\ \A c \in Call :
          /\ stamp[c] <= local(c) + leaseTTL
          /\ pc[c] \notin {"begin", "send"} => px[c] >= 1
          /\ pc[c] # "finished" => result[c] = "none"
    /\ \A o \in late :
          /\ o.op = "complete" => Persisting(o.call)
          /\ o.op = "release" => pc[o.call] \in {"release", "finished"}

(* The record a Begin is judging is genuine, and what is left of its lease *)
(* on the reader's clock no longer than a lease.                           *)
ReplyInv ==
    \A c \in Call : pc[c] \in {"reply", "judge"} =>
        /\ Genuine(reply[c].rec, key[c])
        /\ reply[c].rec.state = StateReserved =>
              IF pc[c] = "reply" THEN reply[c].pttl <= leaseTTL
              ELSE reply[c].rec.lease <= local(c) + leaseTTL

(* A call that executes before its TTL ends finds its own reservation.     *)
HolderInv ==
    \A c \in Call : pc[c] = "running" /\ now <= until[c] =>
        /\ hash[key[c]].state = StateReserved
        /\ hash[key[c]].token = c /\ ends[key[c]] = until[c]

(* The inductive invariant: the hashes, the replies and the requests on    *)
(* their way are those of calls of that key, at the stage they claim.      *)
IInv ==
    /\ TypeOK /\ RedisInv /\ SentInv /\ ReplyInv /\ HolderInv
    /\ ReplayFaithful /\ RetrySane

=============================================================================
