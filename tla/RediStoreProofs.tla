--------------------------- MODULE RediStoreProofs ---------------------------
(***************************************************************************)
(* Proofs about RediStore, for every set of calls, keys and fingerprints,  *)
(* all TTLs, any skew between hosts and any number of retries and late     *)
(* requests.                                                               *)
(***************************************************************************)
EXTENDS RediStore, TLAPS

USE NoneAssumption, TTLAssumption, BoundAssumption

-----------------------------------------------------------------------------
(* The operators the model is built from *)

(* The effective TTLs are positive whatever Options says.                  *)
LEMMA TTLPositive == leaseTTL \in Nat \ {0} /\ recordTTL \in Nat \ {0}
  BY DEF leaseTTL, recordTTL

(* The zero Record, which stands for an absent key, is a record.           *)
LEMMA ZeroRecord ==
  NoRecord \in Records /\ NoRecord.state = 0 /\ NoRecord.token = None
  BY DEF NoRecord, Records

(* The fields of a hash have the types the scripts give them.              *)
LEMMA RecordFields ==
  ASSUME NEW r \in Records
  PROVE  /\ r.state \in {0, StateReserved, StateCompleted}
         /\ r.token \in Call \cup {None} /\ r.payload \in Call \cup {None}
         /\ r.fp \in Fingerprint \cup {None}
         /\ r.lease \in Nat /\ r.expires \in Nat
  BY DEF Records

(* The clock of a host shows an instant no earlier than that of Redis.     *)
LEMMA HostClock ==
  ASSUME TypeOK, NEW c \in Call
  PROVE  now \in Nat /\ skew[c] \in Nat /\ local(c) = now + skew[c] /\ local(c) \in Nat
  <1>1. now \in Nat /\ skew[c] \in Skews
    BY DEF TypeOK
  <1>2. skew[c] \in Nat
    BY <1>1
  <1>. QED  BY <1>1, <1>2 DEF local

(* pxUntil sends a positive TTL, and with a stamp no more than a lease     *)
(* ahead of the host's own clock no more than a lease.                     *)
LEMMA SentTTL ==
  ASSUME TypeOK, SentInv, NEW c \in Call
  PROVE  pxUntil(stamp[c], local(c)) \in 1 .. leaseTTL
  <1>1. stamp[c] \in Nat /\ stamp[c] <= local(c) + leaseTTL
    BY DEF TypeOK, SentInv
  <1>. QED  BY <1>1, HostClock, TTLPositive DEF pxUntil

(* Naming an action in an outcome leaves it an outcome.                    *)
LEMMA ActionType ==
  ASSUME TypeOK, NEW c \in Call,
         NEW a \in {"Proceed", "contractViolation", "error"}
  PROVE  [outcome EXCEPT ![c].action = a] \in [Call -> Outcomes]
  BY SMTT(30) DEF TypeOK, Outcomes

(* What reserveScript writes is a reservation of its call.                 *)
LEMMA FieldsOf ==
  ASSUME TypeOK, NEW c \in Call
  PROVE  /\ fields(c) \in Records /\ fields(c) # NoRecord
         /\ fields(c).state = StateReserved
         /\ fields(c).token = c /\ fields(c).fp = fp[c]
  BY ZeroRecord DEF TypeOK, fields, Records, StateReserved

(* reserveScript claims a key that does not exist, and changes nothing     *)
(* otherwise.                                                              *)
LEMMA ReserveEffect ==
  ASSUME TypeOK, NEW c \in Call, NEW t \in 1 .. leaseTTL, reserveScript(c, t)
  PROVE  /\ hash' \in [Key -> Records] /\ ends' \in [Key -> Nat]
         /\ \/ exists(key[c]) /\ UNCHANGED <<hash, ends>>
            \/ /\ ~exists(key[c])
               /\ hash' = [hash EXCEPT ![key[c]] = fields(c)]
               /\ ends' = [ends EXCEPT ![key[c]] = now + t]
  <1>1. now + t \in Nat
    BY TTLPositive DEF TypeOK
  <1>2. /\ key[c] \in Key /\ hash \in [Key -> Records] /\ ends \in [Key -> Nat]
        /\ fields(c) \in Records
    BY FieldsOf DEF TypeOK
  <1>3. CASE exists(key[c])
    BY <1>2, <1>3 DEF reserveScript
  <1>4. CASE ~exists(key[c])
    BY <1>1, <1>2, <1>4 DEF reserveScript
  <1>. QED  BY <1>3, <1>4

(* completeScript and releaseScript succeed on a reservation of their      *)
(* call that Redis still has, and change nothing otherwise.                *)
LEMMA FinishEffect ==
  ASSUME TypeOK, NEW c \in Call, NEW op \in {"complete", "release"},
         finishScript(c, op)
  PROVE  /\ hash' \in [Key -> Records] /\ ends' \in [Key -> Nat]
         /\ \/ UNCHANGED <<hash, ends>> /\ casStatus(c) # "OK"
            \/ /\ casStatus(c) = "OK" /\ exists(key[c])
               /\ hash[key[c]].token = c /\ hash[key[c]].state = StateReserved
               /\ \A k \in Key \ {key[c]} : hash'[k] = hash[k] /\ ends'[k] = ends[k]
               /\ \/ /\ op = "complete"
                     /\ hash'[key[c]].state = StateCompleted
                     /\ hash'[key[c]].token = c /\ hash'[key[c]].payload = c
                     /\ hash'[key[c]].fp = hash[key[c]].fp
                     /\ ends'[key[c]] = now + recordTTL
                  \/ op = "release" /\ hash'[key[c]] = NoRecord
  <1>. DEFINE k == key[c]  r == hash[key[c]]
              n == [r EXCEPT !.state = StateCompleted, !.payload = c,
                             !.expires = local(c) + recordTTL]
  <1>1. /\ k \in Key /\ r \in Records /\ hash \in [Key -> Records]
        /\ ends \in [Key -> Nat] /\ now + recordTTL \in Nat
        /\ local(c) + recordTTL \in Nat
    BY TTLPositive, HostClock DEF TypeOK
  <1>2. CASE casStatus(c) # "OK"
    BY <1>1, <1>2 DEF finishScript, completeScript, releaseScript
  <1>3. CASE casStatus(c) = "OK"
    <2>1. exists(k) /\ r.token = c /\ r.state = StateReserved
      BY <1>3 DEF casStatus
    <2>2. CASE op = "release"
      <3>1. hash' = [hash EXCEPT ![k] = NoRecord] /\ ends' = ends
        BY <1>3, <2>2 DEF finishScript, releaseScript
      <3>. QED  BY <1>1, <1>3, <2>1, <2>2, <3>1, ZeroRecord
    <2>3. CASE op = "complete"
      <3>1. hash' = [hash EXCEPT ![k] = n] /\ ends' = [ends EXCEPT ![k] = now + recordTTL]
        BY <1>1, <1>3, <2>3 DEF finishScript, completeScript
      <3>2. /\ n \in Records /\ n.state = StateCompleted /\ n.token = c
            /\ n.payload = c /\ n.fp = r.fp
        BY <1>1, <2>1 DEF Records
      <3>. QED  BY <1>1, <1>3, <2>1, <2>3, <3>1, <3>2
    <2>. QED  BY <2>2, <2>3
  <1>. QED  BY <1>2, <1>3

-----------------------------------------------------------------------------
(* The parts of the invariant, one lemma each, one step per action *)

(* Every action keeps the variables in their types.                        *)
LEMMA TypeStep == TypeOK /\ SentInv /\ [Next]_vars => TypeOK'
  <1>. SUFFICES ASSUME TypeOK, SentInv, [Next]_vars PROVE TypeOK'
    OBVIOUS
  <1>. USE DEF goto, redis, host
  <1>1. ASSUME NEW c \in Call, Stamp(c) PROVE TypeOK'
    <2>1. local(c) + leaseTTL \in Nat
      BY HostClock, TTLPositive
    <2>. QED  BY <1>1, <2>1 DEF Stamp, TypeOK
  <1>2. ASSUME NEW c \in Call, Send(c) PROVE TypeOK'
    BY <1>2, SentTTL, TTLPositive DEF Send, TypeOK
  <1>3. ASSUME NEW c \in Call, RunReserve(c) PROVE TypeOK'
    <2>1. px[c] \in 1 .. leaseTTL /\ now + px[c] \in Nat
      BY <1>3, TTLPositive DEF RunReserve, TypeOK, SentInv
    <2>2. hash' \in [Key -> Records] /\ ends' \in [Key -> Nat]
      BY <1>3, <2>1, ReserveEffect DEF RunReserve
    <2>3. exists(key[c]) => [pttl |-> ends[key[c]] - now, rec |-> hash[key[c]]]
                              \in Replies
      BY DEF exists, TypeOK, Replies
    <2>4. CASE exists(key[c])
      BY <1>3, <2>2, <2>3, <2>4 DEF RunReserve, TypeOK
    <2>5. CASE ~exists(key[c])
      <3>1. [outcome EXCEPT ![c].action = "Proceed"] \in [Call -> Outcomes]
        BY ActionType
      <3>2. /\ outcome' = [outcome EXCEPT ![c].action = "Proceed"]
            /\ until' = [until EXCEPT ![c] = now + px[c]]
            /\ pc' = [pc EXCEPT ![c] = "running"]
            /\ retries' = [retries EXCEPT ![c] = 0]
            /\ UNCHANGED <<now, late, skew, key, fp, attempt, stamp, px, reply, result>>
        BY <1>3, <2>5 DEF RunReserve
      <3>. QED  BY <2>1, <2>2, <3>1, <3>2 DEF TypeOK
    <2>. QED  BY <2>4, <2>5
  <1>4. ASSUME NEW c \in Call, Decode(c) PROVE TypeOK'
    <2>1. reply[c].rec \in Records /\ local(c) + reply[c].pttl \in Nat
      BY HostClock DEF TypeOK, Replies
    <2>2. recordFromReply(c) \in Records
      BY <2>1, RecordFields DEF recordFromReply, Records
    <2>3. reply' \in [Call -> Replies]
      BY <1>4, <2>2, ZenonT(30) DEF Decode, TypeOK, Replies
    <2>. QED  BY <1>4, <2>3 DEF Decode, TypeOK
  <1>5. ASSUME NEW c \in Call, Judge(c) PROVE TypeOK'
    <2>1. NoReply \in Replies
      BY ZeroRecord DEF NoReply, Replies
    <2>2. reply[c].rec \in Records
      BY DEF TypeOK, Replies
    <2>3. reply[c].rec.state = StateReserved /\ ~Expired(reply[c].rec, local(c))
            => reply[c].rec.lease - local(c) \in Nat
      BY <2>2, HostClock, RecordFields DEF Expired, StateReserved,
         StateCompleted
    <2>4. CASE Expired(reply[c].rec, local(c))
      <3>1. [outcome EXCEPT ![c].action = "contractViolation"] \in [Call -> Outcomes]
        BY ActionType
      <3>2. attempt' \in [Call -> 1 .. maxAttempts]
        BY <1>5, <2>4 DEF Judge, TypeOK, maxAttempts
      <3>. QED  BY <1>5, <2>1, <2>4, <3>1, <3>2 DEF Judge, TypeOK
    <2>5. CASE ~Expired(reply[c].rec, local(c))
      <3>1. outcome' \in [Call -> Outcomes]
        BY <1>5, <2>2, <2>3, <2>5, RecordFields DEF Judge, TypeOK, Outcomes
      <3>. QED  BY <1>5, <2>1, <2>5, <3>1 DEF Judge, TypeOK
    <2>. QED  BY <2>4, <2>5
  <1>6. ASSUME NEW c \in Call, NEW op \in {"complete", "release"},
               BeginFinish(c, op)
        PROVE  TypeOK'
    BY <1>6 DEF BeginFinish, TypeOK
  <1>7. ASSUME NEW c \in Call, RunFinish(c) PROVE TypeOK'
    <2>1. hash' \in [Key -> Records] /\ ends' \in [Key -> Nat]
      BY <1>7, FinishEffect DEF RunFinish
    <2>. QED  BY <1>7, <2>1 DEF RunFinish, TypeOK
  <1>8. ASSUME NEW c \in Call, Timeout(c) PROVE TypeOK'
    <2>1. [op |-> pc[c], call |-> c, px |-> px[c]]
            \in Requests
      BY <1>8, TTLPositive DEF Timeout, TypeOK, SentInv, Requests
    <2>2. retries' \in [Call -> 0 .. MaxRetries]
      BY <1>8 DEF Timeout, TypeOK
    <2>6. [outcome EXCEPT ![c].action = "error"] \in [Call -> Outcomes]
      BY ActionType
    <2>3. /\ pc' \in {pc, [pc EXCEPT ![c] = "failed"], [pc EXCEPT ![c] = "finished"]}
          /\ outcome' \in {outcome, [outcome EXCEPT ![c].action = "error"]}
          /\ result' \in {result, [result EXCEPT ![c] = "unknown"]}
      BY <1>8 DEF Timeout
    <2>4. late' = late \cup {[op |-> pc[c], call |-> c, px |-> px[c]]}
      BY <1>8 DEF Timeout
    <2>5. UNCHANGED <<now, hash, ends, skew, key, fp, attempt, stamp, px, reply, until>>
      BY <1>8 DEF Timeout
    <2>. QED  BY <2>1, <2>2, <2>3, <2>4, <2>5, <2>6 DEF TypeOK
  <1>9. ASSUME NEW c \in Call, Crash(c) PROVE TypeOK'
    BY <1>9 DEF Crash, TypeOK
  <1>10. ASSUME NEW o \in late, LateArrival(o) PROVE TypeOK'
    <2>1. /\ o.call \in Call /\ o.px \in 1 .. leaseTTL
          /\ o.op \in {"reserve", "complete", "release"}
      BY DEF TypeOK, Requests
    <2>2. hash' \in [Key -> Records] /\ ends' \in [Key -> Nat]
      BY <1>10, <2>1, ReserveEffect, FinishEffect DEF LateArrival
    <2>. QED  BY <1>10, <2>2 DEF LateArrival, TypeOK
  <1>11. CASE Tick
    BY <1>11 DEF Tick, TypeOK
  <1>12. CASE UNCHANGED vars
    BY <1>12 DEF vars, TypeOK
  <1>. QED
    BY <1>1, <1>2, <1>3, <1>4, <1>5, <1>6, <1>7, <1>8, <1>9, <1>10, <1>11,
       <1>12
    DEF Next, Step

(* The clock of Redis never goes back, and only Tick moves it.             *)
LEMMA ClockForward ==
  ASSUME TypeOK, [Next]_vars
  PROVE  now' \in Nat /\ now <= now'
  <1>. USE DEF TypeOK, redis
  <1>1. ASSUME NEW c \in Call, Step(c) PROVE UNCHANGED now
    BY <1>1 DEF Step, Stamp, Send, RunReserve, Decode, Judge, BeginFinish,
       RunFinish,
       Timeout, Crash
  <1>2. ASSUME NEW o \in late, LateArrival(o) PROVE UNCHANGED now
    BY <1>2 DEF LateArrival
  <1>3. CASE Tick
    BY <1>3 DEF Tick
  <1>4. CASE UNCHANGED vars
    BY <1>4 DEF vars
  <1>. QED  BY <1>1, <1>2, <1>3, <1>4 DEF Next

(* The inputs of a call never change, and a call that has sent its         *)
(* Complete never turns to a Release.                                      *)
LEMMA PersistingKept ==
  ASSUME TypeOK, [Next]_vars
  PROVE  /\ UNCHANGED <<key, fp, skew>>
         /\ \A p \in Call : Persisting(p) => Persisting(p)'
  <1>. USE DEF TypeOK, Persisting, goto, redis, host
  <1>1. ASSUME NEW c \in Call, Step(c)
        PROVE  /\ UNCHANGED <<key, fp, skew>>
               /\ \A p \in Call : Persisting(p) => Persisting(p)'
    <2>1. CASE RunFinish(c)
      BY <2>1 DEF RunFinish
    <2>2. CASE Timeout(c)
      BY <2>2 DEF Timeout
    <2>3. CASE Judge(c)
      BY <2>3 DEF Judge
    <2>4. CASE RunReserve(c)
      BY <2>4 DEF RunReserve
    <2>. QED
      BY <1>1, <2>1, <2>2, <2>3, <2>4 DEF Step, Stamp, Send, Decode,
         BeginFinish, Crash
  <1>2. ASSUME NEW o \in late, LateArrival(o)
        PROVE  UNCHANGED <<key, fp, skew, pc, result>>
    BY <1>2 DEF LateArrival
  <1>3. Tick \/ UNCHANGED vars => UNCHANGED <<key, fp, skew, pc, result>>
    BY DEF Tick, vars
  <1>. QED  BY <1>1, <1>2, <1>3 DEF Next

(* A genuine record stays genuine.                                         *)
LEMMA GenuineKept ==
  ASSUME TypeOK, [Next]_vars, NEW r, NEW k, Genuine(r, k)
  PROVE  Genuine(r, k)'
  BY PersistingKept DEF Genuine

(* A script that claims, completes or deletes leaves genuine hashes.       *)
LEMMA RedisStep == IInv /\ [Next]_vars => RedisInv'
  <1>. SUFFICES ASSUME IInv, [Next]_vars, NEW k \in Key, hash'[k] # NoRecord
                PROVE  /\ hash'[k].state # 0
                       /\ Genuine(hash[k], k)'
                       /\ hash'[k].state = StateReserved
                             => ends'[k] <= now' + leaseTTL
    BY DEF RedisInv
  <1>1. TypeOK /\ RedisInv /\ SentInv
    BY DEF IInv
  <1>2. UNCHANGED <<key, fp>> /\ \A p \in Call : Persisting(p) => Persisting(p)'
    BY <1>1, PersistingKept
  <1>3. now' \in Nat /\ now <= now' /\ now \in Nat /\ ends[k] \in Nat
    BY <1>1, ClockForward DEF TypeOK
  <1>4. CASE hash'[k] = hash[k] /\ ends'[k] = ends[k]
    BY <1>1, <1>3, <1>4, GenuineKept, TTLPositive DEF RedisInv
  <1>5. ASSUME NEW c \in Call, NEW t \in 1 .. leaseTTL, reserveScript(c, t),
               UNCHANGED now, ~(hash'[k] = hash[k] /\ ends'[k] = ends[k])
        PROVE  /\ hash'[k].state # 0
               /\ Genuine(hash[k], k)'
               /\ hash'[k].state = StateReserved => ends'[k] <= now' + leaseTTL
    <2>1. key[c] = k /\ hash'[k] = fields(c) /\ ends'[k] = now + t
      <3>1. key[c] \in Key /\ hash \in [Key -> Records] /\ ends \in [Key -> Nat]
        BY <1>1 DEF TypeOK
      <3>2. \/ UNCHANGED <<hash, ends>>
            \/ /\ hash' = [hash EXCEPT ![key[c]] = fields(c)]
               /\ ends' = [ends EXCEPT ![key[c]] = now + t]
        BY <1>1, <1>5, ReserveEffect
      <3>. QED  BY <1>5, <3>1, <3>2
    <2>2. now' + t <= now' + leaseTTL
      BY <1>3, <1>5, TTLPositive
    <2>. QED
      BY <1>1, <1>2, <1>5, <2>1, <2>2, FieldsOf DEF Genuine, StateReserved,
         StateCompleted
  <1>6. ASSUME NEW c \in Call, NEW op \in {"complete", "release"},
               finishScript(c, op), op = "complete" => Persisting(c)',
               ~(hash'[k] = hash[k] /\ ends'[k] = ends[k])
        PROVE  /\ hash'[k].state # 0
               /\ Genuine(hash[k], k)'
               /\ hash'[k].state = StateReserved => ends'[k] <= now' + leaseTTL
    <2>1. /\ key[c] = k /\ hash[k] # NoRecord
          /\ hash[k].token = c /\ hash'[k].fp = hash[k].fp
          /\ hash'[k].state = StateCompleted
          /\ hash'[k].token = c /\ hash'[k].payload = c /\ op = "complete"
      BY <1>1, <1>6, FinishEffect DEF exists
    <2>2. key[c] = k /\ fp[c] = hash[k].fp
      BY <1>1, <2>1 DEF RedisInv, Genuine
    <2>. QED  BY <1>2, <1>6, <2>1, <2>2 DEF Genuine, StateReserved,
       StateCompleted
  <1>7. ASSUME NEW c \in Call, RunReserve(c)
        PROVE  reserveScript(c, px[c]) /\ px[c] \in 1 .. leaseTTL /\ UNCHANGED now
    BY <1>1, <1>7, TTLPositive DEF RunReserve, TypeOK, SentInv
  <1>8. ASSUME NEW c \in Call, RunFinish(c)
        PROVE  /\ finishScript(c, pc[c]) /\ pc[c] \in {"complete", "release"}
               /\ pc[c] = "complete" => Persisting(c)'
    BY <1>1, <1>8 DEF RunFinish, TypeOK, Persisting, goto
  <1>9. ASSUME NEW o \in late, LateArrival(o)
        PROVE  /\ o.call \in Call /\ o.px \in 1 .. leaseTTL /\ UNCHANGED now
               /\ \/ reserveScript(o.call, o.px)
                  \/ /\ o.op \in {"complete", "release"}
                     /\ finishScript(o.call, o.op)
                     /\ o.op = "complete" => Persisting(o.call)'
    BY <1>1, <1>2, <1>9 DEF LateArrival, TypeOK, Requests, SentInv
  <1>10. CASE \E c \in Call : RunReserve(c) \/ RunFinish(c)
    BY <1>4, <1>5, <1>6, <1>7, <1>8, <1>10
  <1>11. CASE \E o \in late : LateArrival(o)
    BY <1>4, <1>5, <1>6, <1>9, <1>11
  <1>12. ASSUME NEW c \in Call, Step(c), ~RunReserve(c), ~RunFinish(c)
         PROVE  UNCHANGED <<hash, ends>>
    BY <1>12 DEF Step, Stamp, Send, Decode, Judge, BeginFinish, Timeout, Crash,
       redis
  <1>13. Tick \/ UNCHANGED vars => UNCHANGED <<hash, ends>>
    BY DEF Tick, vars
  <1>. QED  BY <1>4, <1>10, <1>11, <1>12, <1>13 DEF Next

(* What is sent carries a TTL within the lease, and what is on its way     *)
(* belongs to a call that has gone as far as that command.                 *)
LEMMA SentStep == IInv /\ [Next]_vars => SentInv'
  <1>. SUFFICES ASSUME IInv, [Next]_vars PROVE SentInv'
    OBVIOUS
  <1>1. TypeOK /\ SentInv
    BY DEF IInv
  <1>2. UNCHANGED <<key, fp, skew>> /\ \A p \in Call : Persisting(p) => Persisting(p)'
    BY <1>1, PersistingKept
  <1>. USE DEF goto, redis, host
  <1>3. ASSUME NEW c \in Call PROVE stamp'[c] <= local(c)' + leaseTTL
    <2>1. now \in Nat /\ now' \in Nat /\ now <= now' /\ skew[c] \in Nat
      BY <1>1, ClockForward, HostClock
    <2>2. stamp[c] \in Nat /\ stamp[c] <= now + skew[c] + leaseTTL
      BY <1>1 DEF TypeOK, SentInv, local
    <2>3. stamp'[c] = stamp[c] \/ stamp'[c] = now + skew[c] + leaseTTL
      <3>1. ASSUME NEW d \in Call, Step(d)
            PROVE  stamp'[c] = stamp[c] \/ stamp'[c] = now + skew[c] + leaseTTL
        <4>1. CASE Stamp(d)
          BY <1>1, <4>1 DEF Stamp, local, TypeOK
        <4>. QED  BY <3>1, <4>1 DEF Step, Send, RunReserve, Decode, Judge,
                     BeginFinish, RunFinish, Timeout, Crash
      <3>2. ASSUME NEW o \in late, LateArrival(o) PROVE UNCHANGED stamp
        BY <3>2 DEF LateArrival
      <3>3. Tick \/ UNCHANGED vars => UNCHANGED stamp
        BY DEF Tick, vars
      <3>. QED  BY <3>1, <3>2, <3>3 DEF Next
    <2>. QED  BY <1>2, <2>1, <2>2, <2>3, TTLPositive DEF local
  <1>4. ASSUME NEW c \in Call, pc'[c] \notin {"begin", "send"}
        PROVE  px'[c] >= 1
    <2>1. ASSUME NEW d \in Call, Step(d) PROVE px'[c] >= 1
      <3>1. CASE Send(d)
        BY <1>1, <1>4, <3>1, SentTTL, TTLPositive DEF Send, TypeOK, SentInv
      <3>2. CASE ~Send(d)
        <4>1. UNCHANGED px /\ pc[c] \notin {"begin", "send"}
          BY <1>1, <1>4, <2>1, <3>2 DEF Step, Stamp, RunReserve, Decode, Judge,
             BeginFinish, RunFinish, Timeout, Crash, TypeOK
        <4>. QED  BY <1>1, <4>1 DEF SentInv
      <3>. QED  BY <3>1, <3>2
    <2>2. ASSUME NEW o \in late, LateArrival(o) PROVE UNCHANGED <<pc, px>>
      BY <2>2 DEF LateArrival
    <2>3. Tick \/ UNCHANGED vars => UNCHANGED <<pc, px>>
      BY DEF Tick, vars
    <2>. QED  BY <1>1, <1>4, <2>1, <2>2, <2>3 DEF Next, SentInv
  <1>5. ASSUME NEW o \in late'
        PROVE  /\ o.op = "complete" => Persisting(o.call)'
               /\ o.op = "release" => pc'[o.call] \in {"release", "finished"}
    <2>1. CASE o \in late
      <3>1. o.call \in Call
        BY <1>1, <2>1 DEF TypeOK, Requests
      <3>2. pc[o.call] \in {"release", "finished"}
              => pc'[o.call] \in {"release", "finished"}
        <4>1. ASSUME NEW d \in Call, Step(d), pc[o.call] \in {"release", "finished"}
              PROVE  pc'[o.call] \in {"release", "finished"}
          BY <1>1, <3>1, <4>1, ZenonT(30) DEF Step, Stamp, Send, RunReserve,
             Decode, Judge,
             BeginFinish, RunFinish, Timeout, Crash, TypeOK
        <4>2. ASSUME NEW q \in late, LateArrival(q) PROVE UNCHANGED pc
          BY <4>2 DEF LateArrival
        <4>3. Tick \/ UNCHANGED vars => UNCHANGED pc
          BY DEF Tick, vars
        <4>. QED  BY <4>1, <4>2, <4>3 DEF Next
      <3>. QED  BY <1>1, <1>2, <2>1, <3>1, <3>2 DEF SentInv
    <2>2. CASE o \notin late
      <3>1. PICK c \in Call : Timeout(c)
        BY <1>5, <2>2 DEF Next, Step, Stamp, Send, RunReserve, Decode, Judge,
           BeginFinish, RunFinish, Crash, LateArrival, Tick, vars
      <3>2. o.op = pc[c] /\ o.call = c
        BY <1>5, <2>2, <3>1 DEF Timeout
      <3>3. /\ pc[c] = "complete" => result[c] # "discarded"
            /\ pc[c] # "reserve" => pc'[c] \in {pc[c], "finished"}
            /\ result'[c] \in {result[c], "unknown"}
        <4>1. pc[c] = "complete" => result[c] = "none"
          BY <1>1 DEF SentInv
        <4>. QED  BY <1>1, <3>1, <4>1 DEF Timeout, TypeOK
      <3>. QED  BY <3>2, <3>3 DEF Persisting
    <2>. QED  BY <2>1, <2>2
  <1>6. ASSUME NEW c \in Call, pc'[c] # "finished" PROVE result'[c] = "none"
    <2>1. ASSUME NEW d \in Call, Step(d) PROVE result'[c] = "none"
      <3>1. pc[c] # "finished"
        BY <1>1, <1>6, <2>1 DEF Step, Stamp, Send, RunReserve, Decode, Judge,
           BeginFinish, RunFinish, Timeout, Crash, TypeOK
      <3>2. result'[c] = result[c]
        BY <1>1, <1>6, <2>1 DEF Step, Stamp, Send, RunReserve, Decode, Judge,
           BeginFinish, RunFinish, Timeout, Crash, TypeOK
      <3>. QED  BY <1>1, <3>1, <3>2 DEF SentInv
    <2>2. ASSUME NEW o \in late, LateArrival(o) PROVE UNCHANGED <<pc, result>>
      BY <2>2 DEF LateArrival
    <2>3. Tick \/ UNCHANGED vars => UNCHANGED <<pc, result>>
      BY DEF Tick, vars
    <2>. QED  BY <1>1, <1>6, <2>1, <2>2, <2>3 DEF Next, SentInv
  <1>. QED  BY <1>3, <1>4, <1>5, <1>6 DEF SentInv

(* A record on its way to Begin's verdict stays genuine, and its deadline  *)
(* on the reader's clock within a lease, also when it waits.               *)
LEMMA ReplyStep == IInv /\ [Next]_vars => ReplyInv'
  <1>. SUFFICES ASSUME IInv, [Next]_vars, NEW c \in Call,
                       pc'[c] \in {"reply", "judge"}
                PROVE  /\ Genuine(reply[c].rec, key[c])'
                       /\ reply'[c].rec.state = StateReserved =>
                             IF pc'[c] = "reply" THEN reply'[c].pttl <= leaseTTL
                             ELSE reply'[c].rec.lease <= local(c)' + leaseTTL
    BY DEF ReplyInv
  <1>1. TypeOK /\ RedisInv /\ ReplyInv
    BY DEF IInv
  <1>2. UNCHANGED <<key, skew>>
    BY <1>1, PersistingKept
  <1>3. /\ now \in Nat /\ now' \in Nat /\ now <= now' /\ skew[c] \in Nat
        /\ reply[c].rec \in Records /\ reply[c].pttl \in Nat
    BY <1>1, ClockForward, HostClock DEF TypeOK, Replies
  <1>. USE DEF goto, redis, host
  <1>4. CASE UNCHANGED <<pc, reply>>
    <2>1. reply[c].rec.lease \in Nat
      BY <1>3, RecordFields
    <2>2. Genuine(reply[c].rec, key[c])
      BY <1>1, <1>4 DEF ReplyInv
    <2>3. Genuine(reply[c].rec, key[c])'
      BY <1>1, <1>2, <1>4, <2>2, GenuineKept
    <2>. QED
      BY <1>1, <1>2, <1>3, <1>4, <2>1, <2>3, TTLPositive DEF ReplyInv, local
  <1>5. CASE pc'[c] = pc[c] /\ reply'[c] = reply[c] /\ UNCHANGED now
    <2>1. Genuine(reply[c].rec, key[c])
      BY <1>1, <1>5 DEF ReplyInv
    <2>2. Genuine(reply[c].rec, key[c])'
      BY <1>1, <1>2, <1>5, <2>1, GenuineKept
    <2>. QED  BY <1>1, <1>2, <1>5, <2>2 DEF ReplyInv, local
  <1>6. CASE RunReserve(c)
    <2>1. /\ exists(key[c]) /\ pc'[c] = "reply" /\ key[c] \in Key
          /\ reply'[c] = [pttl |-> ends[key[c]] - now, rec |-> hash[key[c]]]
      BY <1>1, <1>6 DEF RunReserve, TypeOK
    <2>2. /\ Genuine(hash[key[c]], key[c])
          /\ hash[key[c]].state = StateReserved => ends[key[c]] <= now + leaseTTL
      BY <1>1, <2>1 DEF RedisInv, exists
    <2>3. Genuine(reply[c].rec, key[c])'
      BY <1>1, <1>2, <2>1, <2>2, GenuineKept
    <2>4. ends[key[c]] \in Nat
      BY <1>1, <2>1 DEF TypeOK
    <2>. QED  BY <1>3, <2>1, <2>2, <2>3, <2>4, TTLPositive
  <1>7. CASE Decode(c)
    <2>1. /\ pc[c] = "reply" /\ pc'[c] = "judge" /\ UNCHANGED now
          /\ reply'[c].rec = recordFromReply(c)
      BY <1>1, <1>7 DEF Decode, TypeOK, Replies
    <2>2. /\ Genuine(reply[c].rec, key[c])
          /\ reply[c].rec.state = StateReserved => reply[c].pttl <= leaseTTL
      BY <1>1, <2>1 DEF ReplyInv
    <2>3. Genuine(recordFromReply(c), key[c])
      BY <2>2 DEF Genuine, recordFromReply
    <2>4. Genuine(reply[c].rec, key[c])'
      BY <1>1, <1>2, <2>1, <2>3, GenuineKept
    <2>5. recordFromReply(c).state = StateReserved =>
            /\ reply[c].rec.state = StateReserved
            /\ recordFromReply(c).lease = local(c) + reply[c].pttl
      BY DEF recordFromReply
    <2>. QED  BY <1>2, <1>3, <2>1, <2>2, <2>4, <2>5, TTLPositive DEF local
  <1>8. ASSUME NEW d \in Call, Step(d), d # c
        PROVE  pc'[c] = pc[c] /\ reply'[c] = reply[c] /\ UNCHANGED now
    BY <1>1, <1>8 DEF Step, Stamp, Send, RunReserve, Decode, Judge,
       BeginFinish,
       RunFinish, Timeout, Crash, TypeOK
  <1>9. ASSUME Step(c), ~RunReserve(c), ~Decode(c)
        PROVE  FALSE
    BY <1>1, <1>9 DEF Step, Stamp, Send, Judge, BeginFinish, RunFinish,
       Timeout,
       Crash, TypeOK
  <1>10. ASSUME NEW o \in late, LateArrival(o) PROVE UNCHANGED <<pc, reply>>
    BY <1>10 DEF LateArrival
  <1>11. Tick \/ UNCHANGED vars => UNCHANGED <<pc, reply>>
    BY DEF Tick, vars
  <1>. QED  BY <1>4, <1>5, <1>6, <1>7, <1>8, <1>9, <1>10, <1>11 DEF Next

(* Nothing touches the reservation of a call that executes before its TTL  *)
(* ends: claims find the key, and the only Complete or Release that would  *)
(* succeed is its own, which it has not sent.                              *)
LEMMA HolderStep == IInv /\ [Next]_vars => HolderInv'
  <1>. SUFFICES ASSUME IInv, [Next]_vars, NEW c \in Call,
                       pc'[c] = "running", now' <= until'[c]
                PROVE  /\ hash'[key[c]].state = StateReserved
                       /\ hash'[key[c]].token = c /\ ends'[key[c]] = until'[c]
    BY PersistingKept DEF HolderInv, IInv
  <1>1. TypeOK /\ HolderInv /\ SentInv
    BY DEF IInv
  <1>2. /\ now \in Nat /\ now' \in Nat /\ now <= now'
        /\ key[c] \in Key /\ until[c] \in Nat /\ ends[key[c]] \in Nat
    BY <1>1, ClockForward DEF TypeOK
  <1>. USE DEF goto, redis, host
  <1>3. CASE RunReserve(c)
    <2>1. /\ ~exists(key[c]) /\ until'[c] = now + px[c]
          /\ reserveScript(c, px[c])
      BY <1>1, <1>3 DEF RunReserve, TypeOK
    <2>2. /\ hash' = [hash EXCEPT ![key[c]] = fields(c)]
          /\ ends' = [ends EXCEPT ![key[c]] = now + px[c]]
      BY <2>1 DEF reserveScript
    <2>. QED  BY <1>1, <1>2, <2>1, <2>2, FieldsOf DEF TypeOK
  <1>4. ASSUME ~RunReserve(c)
        PROVE  pc[c] = "running" /\ until'[c] = until[c]
    <2>1. ASSUME NEW d \in Call, Step(d)
          PROVE  pc[c] = "running" /\ until'[c] = until[c]
      BY <1>1, <1>4, <2>1, ZenonT(30) DEF Step, Stamp, Send, RunReserve,
         Decode, Judge,
         BeginFinish, RunFinish, Timeout, Crash, TypeOK
    <2>2. ASSUME NEW o \in late, LateArrival(o) PROVE UNCHANGED <<pc, until>>
      BY <2>2 DEF LateArrival
    <2>3. Tick \/ UNCHANGED vars => UNCHANGED <<pc, until>>
      BY DEF Tick, vars
    <2>. QED  BY <2>1, <2>2, <2>3 DEF Next
  <1>5. CASE ~RunReserve(c)
    <2>1. /\ hash[key[c]].state = StateReserved /\ hash[key[c]].token = c
          /\ ends[key[c]] = until[c] /\ exists(key[c])
      <3>1. now <= until[c] /\ pc[c] = "running"
        BY <1>2, <1>4, <1>5
      <3>2. /\ hash[key[c]].state = StateReserved /\ hash[key[c]].token = c
            /\ ends[key[c]] = until[c]
        BY <1>1, <3>1 DEF HolderInv
      <3>. QED  BY <3>1, <3>2, ZeroRecord DEF exists, StateReserved
    <2>2. SUFFICES hash'[key[c]] = hash[key[c]] /\ ends'[key[c]] = ends[key[c]]
      BY <1>4, <1>5, <2>1
    <2>3. ASSUME NEW d \in Call, NEW t, reserveScript(d, t)
          PROVE  hash'[key[c]] = hash[key[c]] /\ ends'[key[c]] = ends[key[c]]
      BY <1>1, <1>2, <2>1, <2>3 DEF reserveScript, TypeOK
    <2>4. ASSUME NEW d \in Call, NEW op \in {"complete", "release"},
                 finishScript(d, op), d # c
          PROVE  hash'[key[c]] = hash[key[c]] /\ ends'[key[c]] = ends[key[c]]
      <3>1. casStatus(d) = "OK" => key[d] # key[c]
        BY <2>1, <2>4 DEF casStatus
      <3>2. casStatus(d) # "OK" => UNCHANGED <<hash, ends>>
        BY <1>1, <2>4, FinishEffect
      <3>3. casStatus(d) = "OK" /\ key[d] # key[c]
              => hash'[key[c]] = hash[key[c]] /\ ends'[key[c]] = ends[key[c]]
        BY <1>1, <1>2, <2>4 DEF finishScript, completeScript, releaseScript,
           TypeOK
      <3>. QED  BY <3>1, <3>2, <3>3
    <2>5. ASSUME NEW d \in Call, Step(d)
          PROVE  hash'[key[c]] = hash[key[c]] /\ ends'[key[c]] = ends[key[c]]
      <3>1. CASE RunReserve(d)
        BY <2>3, <3>1 DEF RunReserve
      <3>2. CASE RunFinish(d)
        BY <1>4, <1>5, <2>4, <3>2 DEF RunFinish
      <3>. QED  BY <2>5, <3>1, <3>2 DEF Step, Stamp, Send, Decode, Judge,
                   BeginFinish, Timeout, Crash
    <2>6. ASSUME NEW o \in late, LateArrival(o)
          PROVE  hash'[key[c]] = hash[key[c]] /\ ends'[key[c]] = ends[key[c]]
      <3>1. o.call \in Call /\ o.op \in {"reserve", "complete", "release"}
        BY <1>1 DEF TypeOK, Requests
      <3>2. o.op # "reserve" => o.call # c
        BY <1>1, <1>4, <1>5, <3>1 DEF SentInv, Persisting
      <3>. QED  BY <2>3, <2>4, <2>6, <3>1, <3>2 DEF LateArrival
    <2>7. Tick \/ UNCHANGED vars => UNCHANGED <<hash, ends>>
      BY DEF Tick, vars
    <2>. QED  BY <2>5, <2>6, <2>7 DEF Next
  <1>. QED  BY <1>3, <1>5

(* What Begin tells its caller comes from a genuine record.                *)
LEMMA OutcomeStep == IInv /\ [Next]_vars => (ReplayFaithful /\ RetrySane)'
  <1>. SUFFICES ASSUME IInv, [Next]_vars, NEW c \in Call
                PROVE  /\ outcome'[c].action = "Replay" =>
                             LET p == outcome'[c].payload IN
                             /\ p \in Call \ {c}
                             /\ key'[p] = key'[c] /\ fp'[p] = fp'[c]
                             /\ pc'[p] \in {"complete", "finished"}
                             /\ result'[p] # "discarded"
                       /\ outcome'[c].action = "RejectInFlight" =>
                             outcome'[c].retryAfter \in 1 .. leaseTTL
    BY DEF ReplayFaithful, RetrySane
  <1>1. TypeOK /\ ReplyInv /\ ReplayFaithful /\ RetrySane
    BY DEF IInv
  <1>2. /\ UNCHANGED <<key, fp>>
        /\ \A p \in Call : pc[p] \in {"complete", "finished"} /\ result[p] # "discarded"
              => pc'[p] \in {"complete", "finished"} /\ result'[p] # "discarded"
    BY <1>1, PersistingKept DEF Persisting
  <1>. USE DEF goto, redis, host
  <1>3. CASE \/ outcome'[c] = outcome[c]
             \/ outcome'[c].action \notin {"Replay", "RejectInFlight"}
    BY <1>1, <1>2, <1>3 DEF ReplayFaithful, RetrySane
  <1>4. CASE Judge(c) /\ ~Expired(reply[c].rec, local(c))
    <2>. DEFINE r == reply[c].rec
    <2>1. /\ r \in Records /\ pc[c] = "judge"
          /\ outcome'[c] =
                IF r.state = StateReserved
                THEN [action |-> "RejectInFlight", payload |-> None,
                      retryAfter |-> r.lease - local(c)]
                ELSE IF r.fp = fp[c]
                THEN [action |-> "Replay", payload |-> r.payload, retryAfter |-> 0]
                ELSE [action |-> "RejectFingerprintMismatch", payload |-> None,
                      retryAfter |-> 0]
      BY <1>1, <1>4 DEF Judge, TypeOK, Replies
    <2>2. /\ Genuine(r, key[c])
          /\ r.state = StateReserved => r.lease <= local(c) + leaseTTL
      BY <1>1, <2>1 DEF ReplyInv
    <2>3. CASE r.state = StateReserved
      <3>1. r.lease \in Nat /\ r.lease > local(c) /\ local(c) \in Nat
        BY <1>1, <1>4, <2>1, <2>3, RecordFields, HostClock
        DEF Expired, StateReserved, StateCompleted
      <3>. QED  BY <2>1, <2>2, <2>3, <3>1, TTLPositive
    <2>4. CASE r.state # StateReserved
      <3>1. r.state = StateCompleted
        BY <1>4, <2>4 DEF Expired
      <3>2. /\ r.payload \in Call /\ key[r.payload] = key[c] /\ fp[r.payload] = r.fp
            /\ pc[r.payload] \in {"complete", "finished"}
            /\ result[r.payload] # "discarded"
        BY <2>2, <3>1 DEF Genuine, Persisting
      <3>3. r.payload # c
        BY <2>1, <3>2
      <3>. QED  BY <1>2, <2>1, <2>4, <3>2, <3>3
    <2>. QED  BY <2>3, <2>4
  <1>5. ASSUME NEW d \in Call, Step(d)
        PROVE  \/ outcome'[c] = outcome[c]
               \/ outcome'[c].action \notin {"Replay", "RejectInFlight"}
               \/ d = c /\ Judge(c) /\ ~Expired(reply[c].rec, local(c))
    <2>1. CASE UNCHANGED outcome
      BY <2>1
    <2>2. outcome \in [Call -> Outcomes]
      BY <1>1 DEF TypeOK
    <2>3. ASSUME NEW a \in {"Proceed", "contractViolation", "error"},
                 outcome' = [outcome EXCEPT ![d].action = a]
          PROVE  \/ outcome'[c] = outcome[c]
                 \/ outcome'[c].action \notin {"Replay", "RejectInFlight"}
      BY <2>2, <2>3 DEF Outcomes
    <2>4. CASE Judge(d)
      BY <2>1, <2>2, <2>3, <2>4 DEF Judge
    <2>5. CASE RunReserve(d)
      BY <2>1, <2>3, <2>5 DEF RunReserve
    <2>6. CASE Timeout(d)
      BY <2>1, <2>3, <2>6 DEF Timeout
    <2>. QED  BY <1>5, <2>1, <2>4, <2>5, <2>6 DEF Step, Stamp, Send, Decode,
                 BeginFinish, RunFinish, Crash
  <1>6. ASSUME NEW o \in late, LateArrival(o) PROVE UNCHANGED outcome
    BY <1>6 DEF LateArrival
  <1>7. Tick \/ UNCHANGED vars => UNCHANGED outcome
    BY DEF Tick, vars
  <1>. QED  BY <1>3, <1>4, <1>5, <1>6, <1>7 DEF Next

-----------------------------------------------------------------------------
(* The theorems *)

(* The invariant holds of an empty Redis.                                  *)
LEMMA InitInv == Init => IInv
  <1>. SUFFICES ASSUME Init PROVE IInv
    OBVIOUS
  <1>1. TypeOK
    BY ZeroRecord, TTLPositive
    DEF Init, TypeOK, NoReply, Replies, Pending, Outcomes, maxAttempts
  <1>2. RedisInv /\ ReplyInv /\ HolderInv
    BY DEF Init, RedisInv, ReplyInv, HolderInv
  <1>3. SentInv
    BY <1>1, HostClock, TTLPositive DEF Init, SentInv
  <1>4. ReplayFaithful /\ RetrySane
    BY DEF Init, Pending, ReplayFaithful, RetrySane
  <1>. QED  BY <1>1, <1>2, <1>3, <1>4 DEF IInv

(* Every step keeps the invariant.                                         *)
LEMMA InvStep == IInv /\ [Next]_vars => IInv'
  BY TypeStep, RedisStep, SentStep, ReplyStep, HolderStep, OutcomeStep DEF IInv

(* The inductive invariant holds in every reachable state, whatever is     *)
(* sent twice or arrives late, on hosts whose clocks disagree.             *)
THEOREM Invariant == Spec => []IInv
  BY InitInv, InvStep, PTL DEF Spec

(* Every variable keeps the shape the code gives it; in particular a TTL   *)
(* that is sent is positive and no longer than the lease.                  *)
THEOREM TypeCorrect == Spec => []TypeOK
  <1>1. IInv => TypeOK
    BY DEF IInv
  <1>. QED  BY <1>1, Invariant, PTL

(* At most one handler runs for a key under a lease Redis has not ended.   *)
THEOREM Exclusive == Spec => []LeaseExclusive
  <1>1. IInv => LeaseExclusive
    BY DEF IInv, HolderInv, LeaseExclusive
  <1>. QED  BY <1>1, Invariant, PTL

(* A replayed payload is the result of an execution of the same key and    *)
(* fingerprint that reached its Complete.                                  *)
THEOREM Replays == Spec => []ReplayFaithful
  <1>1. IInv => ReplayFaithful
    BY DEF IInv
  <1>. QED  BY <1>1, Invariant, PTL

(* A request is turned away for a positive time within one lease, whatever *)
(* the skew between the host that reserved and the host that reads.        *)
THEOREM RetryAfter == Spec => []RetrySane
  <1>1. IInv => RetrySane
    BY DEF IInv
  <1>. QED  BY <1>1, Invariant, PTL

-----------------------------------------------------------------------------
(* What a step does to Redis, and the contract *)

(* The only steps that change what is stored are the three scripts, run    *)
(* for the request a call waits for or for one that arrives late; and only *)
(* Tick moves the clock.                                                   *)
LEMMA StoreWriters ==
  ASSUME IInv, [Next]_vars
  PROVE  \/ UNCHANGED <<now, hash, ends>>
         \/ Tick
         \/ /\ UNCHANGED now
            /\ \E c \in Call, t \in 1 .. leaseTTL : reserveScript(c, t)
         \/ /\ UNCHANGED now
            /\ \E c \in Call, op \in {"complete", "release"} : finishScript(c, op)
  <1>1. TypeOK /\ SentInv
    BY DEF IInv
  <1>2. ASSUME NEW c \in Call, RunReserve(c)
        PROVE  UNCHANGED now /\ px[c] \in 1 .. leaseTTL /\ reserveScript(c, px[c])
    BY <1>1, <1>2, TTLPositive DEF RunReserve, TypeOK, SentInv
  <1>3. ASSUME NEW c \in Call, RunFinish(c)
        PROVE  /\ UNCHANGED now /\ pc[c] \in {"complete", "release"}
               /\ finishScript(c, pc[c])
    BY <1>3 DEF RunFinish
  <1>4. ASSUME NEW o \in late, LateArrival(o)
        PROVE  /\ UNCHANGED now /\ o.call \in Call /\ o.px \in 1 .. leaseTTL
               /\ \/ reserveScript(o.call, o.px)
                  \/ /\ o.op \in {"complete", "release"}
                     /\ finishScript(o.call, o.op)
    BY <1>1, <1>4 DEF LateArrival, TypeOK, Requests
  <1>5. ASSUME NEW c \in Call, Step(c), ~RunReserve(c), ~RunFinish(c)
        PROVE  UNCHANGED <<now, hash, ends>>
    BY <1>5 DEF Step, Stamp, Send, Decode, Judge, BeginFinish, Timeout, Crash,
       redis
  <1>6. CASE \E c \in Call : Step(c)
    BY <1>2, <1>3, <1>5, <1>6
  <1>7. CASE \E o \in late : LateArrival(o)
    BY <1>4, <1>7
  <1>8. CASE UNCHANGED vars
    BY <1>8 DEF vars
  <1>. QED  BY <1>6, <1>7, <1>8 DEF Next

(* A stored result and its end stay as they are for the record TTL: no     *)
(* retry of Complete and no late or second request changes them.           *)
THEOREM Stable == Spec => CompletedStable
  <1>. DEFINE Kept == \A k \in Key : exists(k) /\ hash[k].state = StateCompleted
                        => hash'[k] = hash[k] /\ ends'[k] = ends[k]
  <1>1. ASSUME IInv, [Next]_vars PROVE Kept
    <2>. SUFFICES ASSUME NEW k \in Key, exists(k), hash[k].state = StateCompleted
                  PROVE  hash'[k] = hash[k] /\ ends'[k] = ends[k]
      OBVIOUS
    <2>1. TypeOK
      BY <1>1 DEF IInv
    <2>2. ASSUME NEW c \in Call, NEW t, reserveScript(c, t)
          PROVE  hash'[k] = hash[k] /\ ends'[k] = ends[k]
      BY <2>1, <2>2 DEF reserveScript, TypeOK
    <2>3. ASSUME NEW c \in Call, NEW op \in {"complete", "release"},
                 finishScript(c, op)
          PROVE  hash'[k] = hash[k] /\ ends'[k] = ends[k]
      <3>1. casStatus(c) = "OK" => hash[key[c]].state = StateReserved
        BY DEF casStatus
      <3>2. casStatus(c) = "OK" => key[c] # k
        BY <3>1 DEF StateReserved, StateCompleted
      <3>. QED
        BY <2>1, <2>3, <3>2 DEF finishScript, completeScript, releaseScript,
           TypeOK
    <2>4. CASE Tick
      BY <2>4 DEF Tick
    <2>. QED  BY <1>1, <2>2, <2>3, <2>4, StoreWriters
  <1>2. IInv /\ [Next]_vars => [Kept]_vars
    BY <1>1
  <1>. QED  BY Invariant, <1>2, PTL DEF Spec, CompletedStable

(* reserveScript grants a lease of a free key, or changes nothing.         *)
LEMMA ReserveRefines ==
  ASSUME IInv, NEW c \in Call, NEW t \in 1 .. leaseTTL, reserveScript(c, t),
         UNCHANGED now
  PROVE  [Contract!ContractNext]_(Contract!contractVars)
  <1>. DEFINE u == now + t + 1
  <1>. PICK k \in Key : k = key[c]
    BY DEF IInv, TypeOK
  <1>1. /\ TypeOK /\ now \in Nat
        /\ hash \in [Key -> Records] /\ ends \in [Key -> Nat]
    BY DEF IInv, TypeOK
  <1>2. CASE UNCHANGED <<hash, ends>>
    BY <1>2 DEF Contract!contractVars, view, entry, exists
  <1>3. CASE /\ ~exists(k)
             /\ hash' = [hash EXCEPT ![k] = fields(c)]
             /\ ends' = [ends EXCEPT ![k] = now + t]
    <2>1. u \in (now + 1) .. (now + (leaseTTL + 1))
      BY <1>1, TTLPositive
    <2>2. view[k] = Contract!Free
      BY <1>1, <1>3 DEF view, entry, Contract!Free
    <2>3. ASSUME NEW j \in Key \ {k} PROVE entry(j)' = entry(j)
      BY <1>1, <1>3, <2>3 DEF entry, exists
    <2>4. entry(k)' = [kind |-> "leased", by |-> c, until |-> u]
      <3>1. hash'[k] = fields(c) /\ ends'[k] = now + t /\ now <= now + t
        BY <1>1, <1>3, TTLPositive
      <3>. QED  BY <1>1, <3>1, FieldsOf DEF entry, exists
    <2>5. view' = [view EXCEPT ![k] = [kind |-> "leased", by |-> c, until |-> u]]
      BY <1>1, <2>3, <2>4 DEF view
    <2>6. Contract!Grant(k, c, u)
      BY <2>2, <2>5 DEF Contract!Grant
    <2>. QED  BY <1>1, <2>1, <2>6 DEF Contract!ContractNext
  <1>. QED  BY <1>1, <1>2, <1>3, ReserveEffect

(* completeScript keeps the result of a lease, releaseScript gives one     *)
(* back, and both change nothing otherwise.                                *)
LEMMA FinishRefines ==
  ASSUME IInv, NEW c \in Call, NEW op \in {"complete", "release"},
         finishScript(c, op), UNCHANGED now
  PROVE  [Contract!ContractNext]_(Contract!contractVars)
  <1>. DEFINE u == now + recordTTL + 1
  <1>. PICK k \in Key : k = key[c]
    BY DEF IInv, TypeOK
  <1>1. /\ TypeOK /\ now \in Nat
        /\ hash \in [Key -> Records] /\ ends \in [Key -> Nat]
    BY DEF IInv, TypeOK
  <1>2. CASE UNCHANGED <<hash, ends>>
    BY <1>2 DEF Contract!contractVars, view, entry, exists
  <1>3. CASE casStatus(c) = "OK"
    <2>1. exists(k) /\ hash[k].token = c /\ hash[k].state = StateReserved
      BY <1>3 DEF casStatus
    <2>2. view[k].kind = "leased" /\ view[k].by = c
      BY <1>1, <2>1 DEF view, entry
    <2>3. ASSUME NEW j \in Key \ {k} PROVE entry(j)' = entry(j)
      <3>1. hash'[j] = hash[j] /\ ends'[j] = ends[j]
        BY <1>1, <2>3 DEF finishScript, completeScript, releaseScript
      <3>. QED  BY <3>1 DEF entry, exists
    <2>4. CASE op = "complete"
      <3>1. /\ hash'[k].state = StateCompleted /\ hash'[k].payload = c
            /\ ends'[k] = now + recordTTL
        BY <1>1, <1>3, <2>4, FinishEffect
      <3>2. hash'[k] # NoRecord /\ now <= now + recordTTL
        BY <1>1, <3>1, ZeroRecord, TTLPositive DEF StateCompleted
      <3>3. entry(k)' = [kind |-> "stored", by |-> c, until |-> u]
        BY <3>1, <3>2 DEF entry, exists, StateReserved, StateCompleted
      <3>4. view' = [view EXCEPT ![k] = [kind |-> "stored", by |-> c, until |-> u]]
        BY <1>1, <2>3, <3>3 DEF view
      <3>5. Contract!Keep(k, u)
        BY <2>2, <3>4 DEF Contract!Keep
      <3>6. u \in (now + 1) .. (now + (recordTTL + 1))
        BY <1>1, TTLPositive
      <3>. QED  BY <1>1, <3>5, <3>6 DEF Contract!ContractNext
    <2>5. CASE op = "release"
      <3>1. hash'[k] = NoRecord
        BY <1>1, <1>3, <2>5 DEF finishScript, releaseScript
      <3>2. view' = [view EXCEPT ![k] = Contract!Free]
        BY <1>1, <2>3, <3>1 DEF view, entry, exists, Contract!Free
      <3>3. Contract!GiveBack(k)
        BY <2>2, <3>2 DEF Contract!GiveBack
      <3>. QED  BY <1>1, <3>3 DEF Contract!ContractNext
    <2>. QED  BY <2>4, <2>5
  <1>. QED  BY <1>1, <1>2, <1>3, FinishEffect

(* When time passes, what the contract frees is what EXISTS no longer      *)
(* finds.                                                                  *)
LEMMA TickRefines ==
  ASSUME IInv, Tick
  PROVE  Contract!Pass
  <1>1. /\ now \in Nat /\ now' = now + 1 /\ UNCHANGED <<hash, ends>>
        /\ ends \in [Key -> Nat]
    BY DEF IInv, TypeOK, Tick
  <1>2. ASSUME NEW k \in Key
        PROVE  entry(k)' = IF entry(k).until <= now + 1 THEN Contract!Free ELSE entry(k)
    <2>1. ends[k] \in Nat
      BY <1>1
    <2>2. CASE ~exists(k)
      <3>1. ~exists(k)'
        BY <1>1, <2>1, <2>2 DEF exists
      <3>. QED  BY <1>1, <2>2, <3>1 DEF entry, Contract!Free
    <2>3. CASE exists(k) /\ ends[k] <= now
      <3>1. ~exists(k)' /\ ends[k] + 1 <= now + 1
        BY <1>1, <2>1, <2>3 DEF exists
      <3>. QED  BY <1>1, <2>3, <3>1 DEF entry, Contract!Free
    <2>4. CASE exists(k) /\ ~(ends[k] <= now)
      <3>1. exists(k)' /\ ~(ends[k] + 1 <= now + 1)
        BY <1>1, <2>1, <2>4 DEF exists
      <3>. QED  BY <1>1, <2>4, <3>1 DEF entry
    <2>. QED  BY <2>2, <2>3, <2>4
  <1>. QED  BY <1>1, <1>2 DEF Contract!Pass, view

(* Redis with its TTLs, commands that are sent twice and requests that     *)
(* arrive late implements the Store contract.                              *)
THEOREM Refinement == Spec => Implements
  <1>1. Init => Contract!ContractInit
    BY DEF Init, view, entry, exists, Contract!ContractInit, Contract!Free
  <1>2. IInv /\ [Next]_vars => [Contract!ContractNext]_(Contract!contractVars)
    <2>. SUFFICES ASSUME IInv, [Next]_vars
                  PROVE  [Contract!ContractNext]_(Contract!contractVars)
      OBVIOUS
    <2>1. CASE UNCHANGED <<now, hash, ends>>
      BY <2>1 DEF Contract!contractVars, view, entry, exists
    <2>2. CASE Tick
      BY <2>2, TickRefines DEF Contract!ContractNext
    <2>. QED  BY <2>1, <2>2, StoreWriters, ReserveRefines, FinishRefines
  <1>. QED  BY Invariant, <1>1, <1>2, PTL DEF Spec, Implements,
     Contract!ContractSpec

=============================================================================
