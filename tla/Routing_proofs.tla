---------------------------- MODULE Routing_proofs ----------------------------
(***************************************************************************)
(* Machine-checked proofs about Routing, for every set of callers, order   *)
(* of profiles, budget, number of retries and rate limit.                  *)
(***************************************************************************)
EXTENDS Routing, SequenceTheorems, TLAPS

-----------------------------------------------------------------------------
(* The inductive invariant *)

\* A call that is in the queue of its profile's mutex: it waits, or it asks
\* GitHub for a token with the mutex in its hands.
Queues(call) ==
  \/ call.pc = "locking"
  \/ call.pc \in {"calling", "sleeping"} /\ call.goal = "token"

\* When a caller gives the mutex up at the latest.
Deadline(o, call, done) == IF o \in Dated THEN call.limit ELSE done

\* The queues of the mutexes, for given calls and contexts: they hold who waits
\* or asks, once, all but the first wait, and whoever is ahead of another has a
\* deadline from before the other came.
QueuesOrdered(queue, ops, dones) ==
  /\ \A p \in Indexes : \A i \in DOMAIN queue[p] :
       ops[queue[p][i]].profile = p /\ Queues(ops[queue[p][i]])
  /\ \A p \in Indexes : \A i, j \in DOMAIN queue[p] : i < j =>
       /\ queue[p][i] # queue[p][j]
       /\ ops[queue[p][j]].pc = "locking"
       /\ Deadline(queue[p][i], ops[queue[p][i]], dones[queue[p][i]])
            <= ops[queue[p][j]].since + Budget
  /\ \A o \in Callers : Queues(ops[o]) =>
       \E i \in DOMAIN queue[ops[o].profile] : queue[ops[o].profile][i] = o
MutexIsOrdered == QueuesOrdered(mutex, operation, due)

\* Nobody's deadline is further away than one budget.
DeadlinesAreNear ==
  \A o \in Callers :
    /\ operation[o].limit <= clock + Budget
    /\ o \notin Dated => due[o] <= clock + Budget
    /\ operation[o].pc = "sleeping" => operation[o].until <= operation[o].limit

\* A call to an App, given the tokens issued and cached and those the caller saw
\* refused: it has a token when it needs one, whoever saw one refused knows the
\* last that was issued then, and a second attempt finds none but newer ones.
Numbered(call, numbers, cached, seen) ==
  LET p == call.profile
  IN (call.pc \notin {"idle", "ended"} /\ Profiles[p] = App) =>
       /\ call.goal = "data" => call.credential > 0
       /\ call.again \/ call.goal = "evict" => seen > 0 /\ seen <= numbers[p]
       /\ call.again => /\ cached[p] = 0 \/ cached[p] > seen
                        /\ call.goal = "data" => call.credential > seen
TokensAreNumbered ==
  /\ \A p \in Indexes : revoked[p] <= issued[p]
  /\ \A o \in Callers : Numbered(operation[o], issued, tokens, known[o])

RoutingInv ==
  /\ TypeOK
  /\ MutexIsOrdered /\ DeadlinesAreNear /\ MutexWaitIsBounded
  /\ TokensAreNumbered

-----------------------------------------------------------------------------
(* Calls *)

\* Nobody routes without a profile.
LEMMA ProfileIndexes ==
  /\ Indexes = 1 .. Len(Profiles) /\ Len(Profiles) \in Nat \ {0} /\ 1 \in Indexes
  /\ \A p \in Indexes : p \in Nat /\ (p < Len(Profiles) => p + 1 \in Indexes)
BY ProfilesAssumption, LenProperties, EmptySeq DEF Indexes

\* The calls that operations begin, go on with and end with.
LEMMA CallTypes ==
  ASSUME clock \in Nat
  PROVE  /\ Idle \in Call /\ [Idle EXCEPT !.pc = "ended"] \in Call
         /\ \A p \in Indexes, again \in BOOLEAN : Begun(p, again) \in Call
<1>1. 0 \in 0 .. MaxRetries /\ clock + Budget \in Nat /\ 1 \in Indexes
  BY NumbersAssumption, ProfileIndexes
<1> QED BY <1>1 DEF Idle, Begun, Call, StaticToken, App, PAT

\* doRequest begins for a call that has its credential and its count.
LEMMA RequestingFields ==
  ASSUME clock \in Nat, NEW o \in Callers, NEW call \in Call,
         NEW goal \in {"token", "data"}
  PROVE  LET c == Requesting(o, call, goal) IN
         /\ c \in Call /\ c.pc = "calling" /\ c.goal = goal /\ c.profile = call.profile
         /\ c.again = call.again /\ c.credential = call.credential
         /\ c.limit \in {call.limit, clock + Budget}
         /\ o \in Dated => c.limit = call.limit
<1> DEFINE limit == IF o \in Dated THEN call.limit ELSE clock + Budget
           d == [call EXCEPT !.pc = "calling", !.goal = goal, !.retries = 0, !.since = 0, !.limit = limit]
<1>1. 0 \in 0 .. MaxRetries /\ limit \in Nat /\ limit \in {call.limit, clock + Budget}
  BY NumbersAssumption DEF Call
<1>2. Requesting(o, call, goal) = d
  BY DEF Requesting
<1> HIDE DEF limit
<1>3. /\ d \in Call /\ d.pc = "calling" /\ d.goal = goal /\ d.profile = call.profile
      /\ d.again = call.again /\ d.credential = call.credential /\ d.limit = limit
  BY <1>1 DEF Call
<1> QED BY <1>1, <1>2, <1>3 DEF limit

-----------------------------------------------------------------------------
(* Queues *)

\* The places of a queue that loses its first, or gains a last.
LEMMA QueuePlaces ==
  ASSUME NEW q \in Seq(Callers), NEW o \in Callers
  PROVE  /\ DOMAIN q = 1 .. Len(q) /\ Len(q) \in Nat
         /\ \A i \in DOMAIN q : q[i] \in Callers
         /\ q # <<>> => /\ Tail(q) \in Seq(Callers) /\ Head(q) = q[1] /\ 1 \in DOMAIN q
                        /\ \A i \in DOMAIN Tail(q) : i + 1 \in DOMAIN q /\ Tail(q)[i] = q[i + 1]
                        /\ \A i \in DOMAIN q : i > 1 => i - 1 \in DOMAIN Tail(q)
         /\ q = <<>> => DOMAIN q = {}
         /\ Append(q, o) \in Seq(Callers)
         /\ DOMAIN Append(q, o) = 1 .. (Len(q) + 1)
         /\ \A i \in DOMAIN q : Append(q, o)[i] = q[i]
         /\ Append(q, o)[Len(q) + 1] = o
<1>1. DOMAIN q = 1 .. Len(q) /\ Len(q) \in Nat /\ \A i \in DOMAIN q : q[i] \in Callers
  BY LenProperties, ElementOfSeq
<1>2. ASSUME q # <<>>
      PROVE  /\ Tail(q) \in Seq(Callers) /\ Head(q) = q[1] /\ 1 \in DOMAIN q
             /\ \A i \in DOMAIN Tail(q) : i + 1 \in DOMAIN q /\ Tail(q)[i] = q[i + 1]
             /\ \A i \in DOMAIN q : i > 1 => i - 1 \in DOMAIN Tail(q)
  <2>1. /\ Tail(q) \in Seq(Callers) /\ Len(Tail(q)) = Len(q) - 1 /\ Len(q) \in Nat \ {0}
        /\ \A i \in 1 .. Len(Tail(q)) : Tail(q)[i] = q[i + 1]
    BY <1>2, HeadTailProperties, EmptySeq
  <2>2. DOMAIN Tail(q) = 1 .. (Len(q) - 1)
    BY <2>1, LenProperties
  <2>3. Head(q) = q[1]
    OBVIOUS
  <2> QED BY <1>1, <2>1, <2>2, <2>3
<1>3. q = <<>> => DOMAIN q = {}
  OBVIOUS
<1>4. /\ Append(q, o) \in Seq(Callers) /\ Len(Append(q, o)) = Len(q) + 1
      /\ \A i \in 1 .. Len(q) : Append(q, o)[i] = q[i]
      /\ Append(q, o)[Len(q) + 1] = o
  BY AppendProperties
<1>5. DOMAIN Append(q, o) = 1 .. (Len(q) + 1)
  BY <1>4, LenProperties
<1> QED BY <1>1, <1>2, <1>3, <1>4, <1>5

\* Giving the mutex up, or being in no queue and staying out.
LEMMA Unlocking ==
  ASSUME NEW queue \in [Indexes -> Seq(Callers)],
         NEW ops \in [Callers -> Call], NEW ops2 \in [Callers -> Call],
         NEW dones, NEW dones2, NEW o \in Callers,
         QueuesOrdered(queue, ops, dones),
         ops[o].pc = "locking" =>
           queue[ops[o].profile] # <<>> /\ Head(queue[ops[o].profile]) = o,
         \A x \in Callers \ {o} : ops2[x] = ops[x] /\ dones2[x] = dones[x],
         ~Queues(ops2[o])
  PROVE  /\ QueuesOrdered(Unlocked(o, queue), ops2, dones2)
         /\ Unlocked(o, queue) \in [Indexes -> Seq(Callers)]
<1> DEFINE Q == Unlocked(o, queue)
<1>1. ASSUME NEW p \in Indexes
      PROVE  /\ Q[p] = IF queue[p] # <<>> /\ Head(queue[p]) = o THEN Tail(queue[p]) ELSE queue[p]
             /\ Q[p] \in Seq(Callers)
  BY QueuePlaces DEF Unlocked
\* Only the first gives up, and nobody else leaves.
<1>2. ASSUME NEW p \in Indexes, NEW i \in DOMAIN queue[p], queue[p][i] = o
      PROVE  i = 1 /\ Head(queue[p]) = o /\ queue[p] # <<>>
  <2>1. ops[o].profile = p /\ Queues(ops[o])
    BY <1>2 DEF QueuesOrdered
  <2>2. 1 \in DOMAIN queue[p] /\ i \in Nat \ {0} /\ Head(queue[p]) = queue[p][1] /\ queue[p] # <<>>
    BY <1>2, QueuePlaces
  <2>3. 1 < i => ops[o].pc = "locking" /\ queue[p][1] # o
    BY <1>2, <2>2 DEF QueuesOrdered
  <2>4. ~(1 < i)
    BY <2>1, <2>2, <2>3
  <2> QED BY <1>2, <2>2, <2>4
<1>3. ASSUME NEW p \in Indexes, NEW i \in DOMAIN Q[p]
      PROVE  \E j \in DOMAIN queue[p] : /\ Q[p][i] = queue[p][j] /\ queue[p][j] # o
                                       /\ j = IF Q[p] = queue[p] THEN i ELSE i + 1
  <2>1. CASE queue[p] # <<>> /\ Head(queue[p]) = o
    <3>1. Q[p] = Tail(queue[p]) /\ i + 1 \in DOMAIN queue[p] /\ Q[p][i] = queue[p][i + 1]
      <4>1. Q[p] = Tail(queue[p])
        BY <1>1, <2>1
      <4>2. i \in DOMAIN Tail(queue[p])
        BY <1>3, <4>1
      <4> HIDE DEF Q
      <4> QED BY <2>1, <4>1, <4>2, QueuePlaces
    <3>2. i \in Nat \ {0}
      BY <1>1, <1>3, QueuePlaces
    <3>3. queue[p][i + 1] # o
      BY <1>2, <3>1, <3>2
    <3>4. Len(Tail(queue[p])) # Len(queue[p])
      BY <2>1, HeadTailProperties, EmptySeq
    <3>5. Q[p] # queue[p]
      BY <3>1, <3>4
    <3> QED BY <3>1, <3>3, <3>5
  <2>2. CASE ~(queue[p] # <<>> /\ Head(queue[p]) = o)
    BY <1>1, <1>2, <1>3, <2>2
  <2> QED BY <2>1, <2>2
<1>4. ASSUME NEW p \in Indexes, NEW j \in DOMAIN queue[p], queue[p][j] # o
      PROVE  \E i \in DOMAIN Q[p] : Q[p][i] = queue[p][j]
  <2>1. CASE queue[p] # <<>> /\ Head(queue[p]) = o
    <3>1. j > 1 /\ j \in Nat
      BY <1>4, <2>1, QueuePlaces
    <3>2. j - 1 \in DOMAIN Tail(queue[p]) /\ Tail(queue[p])[j - 1] = queue[p][(j - 1) + 1]
      BY <1>4, <2>1, <3>1, QueuePlaces
    <3>3. (j - 1) + 1 = j
      BY <3>1
    <3> QED BY <1>1, <2>1, <3>2, <3>3
  <2>2. CASE ~(queue[p] # <<>> /\ Head(queue[p]) = o)
    BY <1>1, <1>4, <2>2
  <2> QED BY <2>1, <2>2
<1> HIDE DEF Q
<1>c. /\ \A p \in Indexes : \A j \in DOMAIN queue[p] : queue[p][j] \in Callers /\ j \in Nat
      /\ \A p \in Indexes : \A i \in DOMAIN Q[p] : i \in Nat
  BY <1>1, QueuePlaces
<1>5. \A p \in Indexes : \A i \in DOMAIN Q[p] :
        ops2[Q[p][i]].profile = p /\ Queues(ops2[Q[p][i]])
  <2> TAKE p \in Indexes
  <2> TAKE i \in DOMAIN Q[p]
  <2>1. PICK j \in DOMAIN queue[p] : Q[p][i] = queue[p][j] /\ queue[p][j] # o
    BY <1>3
  <2>2. ops2[queue[p][j]] = ops[queue[p][j]]
    BY <1>c, <2>1
  <2>3. ops[queue[p][j]].profile = p /\ Queues(ops[queue[p][j]])
    BY DEF QueuesOrdered
  <2> QED BY <2>1, <2>2, <2>3
<1>6. ASSUME NEW p \in Indexes, NEW i \in DOMAIN Q[p], NEW j \in DOMAIN Q[p], i < j
      PROVE  /\ Q[p][i] # Q[p][j]
             /\ ops2[Q[p][j]].pc = "locking"
             /\ Deadline(Q[p][i], ops2[Q[p][i]], dones2[Q[p][i]]) <= ops2[Q[p][j]].since + Budget
  <2>1. PICK k \in DOMAIN queue[p] : /\ Q[p][i] = queue[p][k] /\ queue[p][k] # o
                                     /\ k = IF Q[p] = queue[p] THEN i ELSE i + 1
    BY <1>3
  <2>2. PICK l \in DOMAIN queue[p] : /\ Q[p][j] = queue[p][l] /\ queue[p][l] # o
                                     /\ l = IF Q[p] = queue[p] THEN j ELSE j + 1
    BY <1>3
  <2>3. k < l
    BY <1>c, <1>6, <2>1, <2>2
  <2>4. /\ queue[p][k] # queue[p][l] /\ ops[queue[p][l]].pc = "locking"
        /\ Deadline(queue[p][k], ops[queue[p][k]], dones[queue[p][k]]) <= ops[queue[p][l]].since + Budget
    BY <2>3 DEF QueuesOrdered
  <2>5. /\ ops2[queue[p][k]] = ops[queue[p][k]] /\ dones2[queue[p][k]] = dones[queue[p][k]]
        /\ ops2[queue[p][l]] = ops[queue[p][l]]
    BY <1>c, <2>1, <2>2
  <2> QED BY <2>1, <2>2, <2>4, <2>5
<1>7. ASSUME NEW x \in Callers, Queues(ops2[x])
      PROVE  \E i \in DOMAIN Q[ops2[x].profile] : Q[ops2[x].profile][i] = x
  <2>1. x # o /\ ops2[x] = ops[x] /\ ops[x].profile \in Indexes
    BY <1>7 DEF Call
  <2>2. PICK j \in DOMAIN queue[ops[x].profile] : queue[ops[x].profile][j] = x
    BY <1>7, <2>1 DEF QueuesOrdered
  <2>3. \E i \in DOMAIN Q[ops[x].profile] : Q[ops[x].profile][i] = queue[ops[x].profile][j]
    BY <1>4, <2>1, <2>2
  <2> QED BY <2>1, <2>2, <2>3
<1>8. Q \in [Indexes -> Seq(Callers)]
  BY <1>1 DEF Q, Unlocked
<1> QED BY <1>5, <1>6, <1>7, <1>8 DEF QueuesOrdered, Q

\* Whoever is in no queue joins one behind deadlines that are near.
Joins(o, p, queue, queue2, ops, ops2, dones) ==
  /\ queue \in [Indexes -> Seq(Callers)]
  /\ ops \in [Callers -> Call] /\ ops2 \in [Callers -> Call]
  /\ ~Queues(ops[o])
  /\ \A x \in Callers \ {o} : ops2[x] = ops[x]
  /\ ops2[o].pc = "locking" /\ ops2[o].profile = p
  /\ \A x \in Callers \ {o} : Deadline(x, ops[x], dones[x]) <= ops2[o].since + Budget
  /\ queue2 = [queue EXCEPT ![p] = Append(queue[p], o)]

\* The queues stay ordered when somebody joins.
LEMMA Joining ==
  ASSUME NEW queue, NEW queue2, NEW ops, NEW ops2, NEW dones,
         NEW o \in Callers, NEW p \in Indexes,
         QueuesOrdered(queue, ops, dones),
         Joins(o, p, queue, queue2, ops, ops2, dones)
  PROVE  QueuesOrdered(queue2, ops2, dones) /\ queue2 \in [Indexes -> Seq(Callers)]
<1> /\ queue \in [Indexes -> Seq(Callers)]
    /\ ops \in [Callers -> Call] /\ ops2 \in [Callers -> Call]
    /\ ~Queues(ops[o])
    /\ \A x \in Callers \ {o} : ops2[x] = ops[x]
    /\ ops2[o].pc = "locking" /\ ops2[o].profile = p
    /\ \A x \in Callers \ {o} : Deadline(x, ops[x], dones[x]) <= ops2[o].since + Budget
    /\ queue2 = [queue EXCEPT ![p] = Append(queue[p], o)]
  BY DEF Joins
<1>1. /\ queue2[p] = Append(queue[p], o) /\ queue2 \in [Indexes -> Seq(Callers)]
      /\ \A q \in Indexes \ {p} : queue2[q] = queue[q]
  BY QueuePlaces
<1>2. /\ \A q \in Indexes : \A i \in DOMAIN queue[q] : queue[q][i] \in Callers \ {o} /\ i \in Nat
      /\ Len(queue[p]) \in Nat /\ DOMAIN queue[p] = 1 .. Len(queue[p])
  BY QueuePlaces DEF QueuesOrdered
<1>3. /\ DOMAIN queue2[p] = 1 .. (Len(queue[p]) + 1)
      /\ \A i \in DOMAIN queue[p] : queue2[p][i] = queue[p][i]
      /\ queue2[p][Len(queue[p]) + 1] = o
  BY <1>1, QueuePlaces
<1>4. \A q \in Indexes : \A i \in DOMAIN queue2[q] :
        \/ i \in DOMAIN queue[q] /\ queue2[q][i] = queue[q][i]
        \/ q = p /\ i = Len(queue[p]) + 1 /\ queue2[q][i] = o
  BY <1>1, <1>2, <1>3
<1>5. \A q \in Indexes : \A i \in DOMAIN queue2[q] :
        ops2[queue2[q][i]].profile = q /\ Queues(ops2[queue2[q][i]])
  BY <1>2, <1>4 DEF QueuesOrdered, Queues
<1>6. ASSUME NEW q \in Indexes, NEW i \in DOMAIN queue2[q], NEW j \in DOMAIN queue2[q], i < j
      PROVE  /\ queue2[q][i] # queue2[q][j]
             /\ ops2[queue2[q][j]].pc = "locking"
             /\ Deadline(queue2[q][i], ops2[queue2[q][i]], dones[queue2[q][i]])
                  <= ops2[queue2[q][j]].since + Budget
  <2>1. CASE j \in DOMAIN queue[q] /\ queue2[q][j] = queue[q][j]
    <3>1. i \in DOMAIN queue[q] /\ queue2[q][i] = queue[q][i]
      BY <1>2, <1>4, <1>6, <2>1
    <3>2. /\ ops2[queue[q][i]] = ops[queue[q][i]] /\ ops2[queue[q][j]] = ops[queue[q][j]]
      BY <1>2, <2>1, <3>1
    <3>3. /\ queue[q][i] # queue[q][j] /\ ops[queue[q][j]].pc = "locking"
          /\ Deadline(queue[q][i], ops[queue[q][i]], dones[queue[q][i]]) <= ops[queue[q][j]].since + Budget
      BY <1>6, <2>1, <3>1 DEF QueuesOrdered
    <3> QED BY <2>1, <3>1, <3>2, <3>3
  <2>2. CASE q = p /\ j = Len(queue[p]) + 1 /\ queue2[q][j] = o
    <3>1. i \in DOMAIN queue[q] /\ queue2[q][i] = queue[q][i]
      BY <1>2, <1>4, <1>6, <2>2
    <3>2. queue[q][i] \in Callers \ {o}
      BY <1>2, <3>1
    <3> QED BY <2>2, <3>1, <3>2
  <2> QED BY <1>4, <2>1, <2>2
<1>7. ASSUME NEW x \in Callers, Queues(ops2[x])
      PROVE  \E i \in DOMAIN queue2[ops2[x].profile] : queue2[ops2[x].profile][i] = x
  <2>1. CASE x = o
    <3>1. Len(queue[p]) + 1 \in DOMAIN queue2[p]
      BY <1>2, <1>3
    <3> QED BY <1>3, <2>1, <3>1
  <2>2. CASE x # o
    <3>1. ops2[x] = ops[x] /\ ops[x].profile \in Indexes
      BY <2>2 DEF Call
    <3>2. PICK i \in DOMAIN queue[ops[x].profile] : queue[ops[x].profile][i] = x
      BY <1>7, <3>1 DEF QueuesOrdered
    <3>3. i \in DOMAIN queue2[ops[x].profile] /\ queue2[ops[x].profile][i] = x
      BY <1>1, <1>2, <1>3, <3>1, <3>2
    <3> QED BY <3>1, <3>3
  <2> QED BY <2>1, <2>2
<1> QED BY <1>1, <1>5, <1>6, <1>7 DEF QueuesOrdered

\* A caller goes on where it is, with no later deadline.
Stays(o, queue, ops, ops2, dones, dones2) ==
  /\ queue \in [Indexes -> Seq(Callers)]
  /\ ops \in [Callers -> Call] /\ ops2 \in [Callers -> Call]
  /\ dones \in [Callers -> Nat] /\ dones2 \in [Callers -> Nat]
  /\ \A x \in Callers \ {o} : ops2[x] = ops[x] /\ dones2[x] = dones[x]
  /\ Queues(ops2[o]) <=> Queues(ops[o])
  /\ Queues(ops[o]) =>
       /\ ops2[o].profile = ops[o].profile
       /\ Deadline(o, ops2[o], dones2[o]) <= Deadline(o, ops[o], dones[o])
  /\ ops[o].pc = "locking" =>
       \/ ops2[o].pc = "locking" /\ ops2[o].since = ops[o].since
       \/ queue[ops[o].profile] # <<>> /\ Head(queue[ops[o].profile]) = o

\* The queues stay ordered when everybody stays.
LEMMA Staying ==
  ASSUME NEW queue, NEW ops, NEW ops2, NEW dones, NEW dones2, NEW o \in Callers,
         QueuesOrdered(queue, ops, dones),
         Stays(o, queue, ops, ops2, dones, dones2)
  PROVE  QueuesOrdered(queue, ops2, dones2)
<1> /\ queue \in [Indexes -> Seq(Callers)]
    /\ ops \in [Callers -> Call] /\ ops2 \in [Callers -> Call]
    /\ dones \in [Callers -> Nat] /\ dones2 \in [Callers -> Nat]
    /\ \A x \in Callers \ {o} : ops2[x] = ops[x] /\ dones2[x] = dones[x]
    /\ Queues(ops2[o]) <=> Queues(ops[o])
    /\ Queues(ops[o]) =>
         /\ ops2[o].profile = ops[o].profile
         /\ Deadline(o, ops2[o], dones2[o]) <= Deadline(o, ops[o], dones[o])
    /\ ops[o].pc = "locking" =>
         \/ ops2[o].pc = "locking" /\ ops2[o].since = ops[o].since
         \/ queue[ops[o].profile] # <<>> /\ Head(queue[ops[o].profile]) = o
  BY DEF Stays
<1>1. \A p \in Indexes : \A i \in DOMAIN queue[p] : queue[p][i] \in Callers /\ i \in Nat \ {0}
  BY QueuePlaces
<1>2. \A p \in Indexes : \A i \in DOMAIN queue[p] :
        ops2[queue[p][i]].profile = p /\ Queues(ops2[queue[p][i]])
  BY <1>1 DEF QueuesOrdered
<1>3. ASSUME NEW p \in Indexes, NEW i \in DOMAIN queue[p], NEW j \in DOMAIN queue[p], i < j
      PROVE  /\ queue[p][i] # queue[p][j]
             /\ ops2[queue[p][j]].pc = "locking"
             /\ Deadline(queue[p][i], ops2[queue[p][i]], dones2[queue[p][i]])
                  <= ops2[queue[p][j]].since + Budget
  <2> DEFINE x == queue[p][i]
             y == queue[p][j]
  <2>1. /\ x # y /\ ops[y].pc = "locking" /\ ops[y].profile = p /\ Queues(ops[x])
        /\ Deadline(x, ops[x], dones[x]) <= ops[y].since + Budget
    BY <1>3 DEF QueuesOrdered
  <2>2. ops2[y].pc = "locking" /\ ops2[y].since = ops[y].since
    <3>1. CASE y # o
      BY <1>1, <2>1, <3>1
    <3>2. CASE y = o
      <4>1. 1 \in DOMAIN queue[p] /\ Head(queue[p]) = queue[p][1] /\ 1 < j
        BY <1>1, <1>3, QueuePlaces
      <4>2. queue[p][1] # y
        BY <4>1 DEF QueuesOrdered
      <4> QED BY <2>1, <3>2, <4>1, <4>2
    <3> QED BY <3>1, <3>2
  <2>3. Deadline(x, ops2[x], dones2[x]) <= Deadline(x, ops[x], dones[x])
    <3>1. /\ x \in Callers
          /\ Deadline(x, ops[x], dones[x]) \in Nat /\ Deadline(x, ops2[x], dones2[x]) \in Nat
      BY <1>1 DEF Deadline, Call
    <3>2. CASE x # o
      <4>1. ops2[x] = ops[x] /\ dones2[x] = dones[x]
        BY <3>1, <3>2
      <4> HIDE DEF x
      <4> QED BY <3>1, <4>1
    <3>3. CASE x = o
      BY <2>1, <3>3
    <3> QED BY <3>2, <3>3
  <2>4. /\ Deadline(x, ops2[x], dones2[x]) \in Nat /\ Deadline(x, ops[x], dones[x]) \in Nat
        /\ ops[y].since \in Nat
    BY <1>1 DEF Deadline, Call
  <2> HIDE DEF x, y
  <2>5. Deadline(x, ops2[x], dones2[x]) <= ops2[y].since + Budget
    <3>1. \A a, b, c \in Nat : a <= b /\ b <= c + Budget => a <= c + Budget
      BY NumbersAssumption
    <3> QED BY <2>1, <2>2, <2>3, <2>4, <3>1
  <2> QED BY <2>1, <2>2, <2>5 DEF x, y
<1>4. ASSUME NEW x \in Callers, Queues(ops2[x])
      PROVE  \E i \in DOMAIN queue[ops2[x].profile] : queue[ops2[x].profile][i] = x
  <2>1. Queues(ops[x]) /\ ops2[x].profile = ops[x].profile
    BY <1>4
  <2> QED BY <2>1 DEF QueuesOrdered
<1> QED BY <1>2, <1>3, <1>4 DEF QueuesOrdered

-----------------------------------------------------------------------------
(* What a step does to the caller's call and to the queues *)

Changes(o) ==
  /\ operation'[o] \in Call
  /\ operation' = [operation EXCEPT ![o] = operation'[o]]
Keeps(o) ==
  /\ operation'[o].profile = operation[o].profile
  /\ operation'[o].again = operation[o].again
FirstIfLocking(o) == operation[o].pc = "locking" => Holds(o)

\* doRequest begins or goes on, with a credential.
Goes(o, goal, credential) ==
  /\ Changes(o) /\ Keeps(o)
  /\ operation'[o].pc = "calling" /\ operation'[o].goal = goal
  /\ operation'[o].credential = credential
  /\ operation'[o].limit \in {operation[o].limit, clock + Budget}
  /\ o \in Dated => operation'[o].limit = operation[o].limit

\* The call waits for a rate limit, within its deadline.
Sleeps(o) ==
  /\ Changes(o) /\ Keeps(o)
  /\ operation[o].pc = "calling" /\ operation'[o].pc = "sleeping"
  /\ operation'[o].goal = operation[o].goal
  /\ operation'[o].credential = operation[o].credential
  /\ operation'[o].limit = operation[o].limit
  /\ operation'[o].until <= operation[o].limit

\* A refused token is to be evicted.
Rejoins(o) ==
  /\ Changes(o) /\ Keeps(o)
  /\ Profiles[operation[o].profile] = App
  /\ operation[o].pc = "calling" /\ operation[o].goal = "data"
  /\ operation'[o].pc = "locking" /\ operation'[o].goal = "evict"
  /\ operation'[o].since = clock /\ operation'[o].limit = operation[o].limit
  /\ mutex' = Joined(o, operation[o].profile, mutex)

Moves(o) ==
  \/ /\ \E credential \in Nat : Goes(o, "data", credential)
     /\ mutex' = Unlocked(o, mutex) /\ FirstIfLocking(o)
  \/ /\ \E goal \in {"access", "token", "data", "evict"}, credential \in Nat : Goes(o, goal, credential)
     /\ mutex' = mutex /\ FirstIfLocking(o)
     /\ Queues(operation'[o]) <=> Queues(operation[o])
  \/ Rejoins(o)
  \/ Sleeps(o) /\ mutex' = mutex
  \/ \E p \in Indexes, again \in BOOLEAN : Enters(o, p, again) /\ FirstIfLocking(o)
  \/ Ends(o) /\ FirstIfLocking(o)

\* What Requesting makes of a call that keeps its profile and attempt.
LEMMA RequestGoes ==
  ASSUME TypeOK, NEW o \in Callers, NEW call \in Call, NEW goal \in {"token", "data"},
         call.profile = operation[o].profile, call.again = operation[o].again,
         call.limit = operation[o].limit,
         operation' = [operation EXCEPT ![o] = Requesting(o, call, goal)]
  PROVE  Goes(o, goal, call.credential)
<1> DEFINE c == Requesting(o, call, goal)
<1>1. clock \in Nat
  BY NumbersAssumption DEF TypeOK
<1>2. /\ c \in Call /\ c.pc = "calling" /\ c.goal = goal /\ c.profile = call.profile
      /\ c.again = call.again /\ c.credential = call.credential
      /\ c.limit \in {call.limit, clock + Budget}
      /\ o \in Dated => c.limit = call.limit
  BY <1>1, RequestingFields
<1> HIDE DEF c
<1>3. operation' = [operation EXCEPT ![o] = c] /\ operation'[o] = c
  BY DEF TypeOK, c
<1> QED BY <1>2, <1>3 DEF Goes, Changes, Keeps

\* A caller that finds a cached token unlocks and goes to its data request.
LEMMA UseTokenMoves ==
  ASSUME TypeOK, NEW o \in Callers, UseToken(o)
  PROVE  Goes(o, "data", tokens[operation[o].profile]) /\ mutex' = Unlocked(o, mutex) /\ Holds(o)
<1> DEFINE call == [operation[o] EXCEPT !.credential = tokens[operation[o].profile]]
<1>1. operation[o] \in Call /\ tokens[operation[o].profile] \in Nat
  BY DEF TypeOK, Call
<1>2. /\ call \in Call /\ call.profile = operation[o].profile /\ call.again = operation[o].again
      /\ call.limit = operation[o].limit /\ call.credential = tokens[operation[o].profile]
  BY <1>1 DEF Call
<1>3. operation' = [operation EXCEPT ![o] = Requesting(o, call, "data")]
  BY DEF UseToken
<1> HIDE DEF call
<1>4. Goes(o, "data", call.credential)
  BY <1>2, <1>3, RequestGoes
<1> QED BY <1>2, <1>4 DEF UseToken

\* A caller that finds none keeps the lock and asks GitHub for a token.
LEMMA RequestTokenMoves ==
  ASSUME TypeOK, NEW o \in Callers, RequestToken(o)
  PROVE  Goes(o, "token", operation[o].credential) /\ mutex' = mutex /\ Holds(o)
<1>1. operation[o] \in Call
  BY DEF TypeOK
<1>2. operation' = [operation EXCEPT ![o] = Requesting(o, operation[o], "token")]
  BY DEF RequestToken
<1> QED BY <1>1, <1>2, RequestGoes DEF RequestToken, client

\* An issued token is the newest of its profile; its caller unlocks and uses it.
LEMMA IssueTokenMoves ==
  ASSUME TypeOK, NEW o \in Callers, IssueToken(o)
  PROVE  /\ Goes(o, "data", issued[operation[o].profile] + 1) /\ mutex' = Unlocked(o, mutex)
         /\ operation[o].pc = "calling"
<1> DEFINE call == [operation[o] EXCEPT !.credential = issued[operation[o].profile] + 1]
<1>1. operation[o] \in Call /\ issued[operation[o].profile] + 1 \in Nat
  BY DEF TypeOK, Call
<1>2. /\ call \in Call /\ call.profile = operation[o].profile /\ call.again = operation[o].again
      /\ call.limit = operation[o].limit /\ call.credential = issued[operation[o].profile] + 1
  BY <1>1 DEF Call
<1>3. operation' = [operation EXCEPT ![o] = Requesting(o, call, "data")]
  BY DEF IssueToken
<1> HIDE DEF call
<1>4. Goes(o, "data", call.credential)
  BY <1>2, <1>3, RequestGoes
<1> QED BY <1>2, <1>4 DEF IssueToken

\* An answered data request leads to the next one or ends the operation.
LEMMA AnswerDataMoves ==
  ASSUME TypeOK, NEW o \in Callers, AnswerData(o)
  PROVE  /\ operation[o].pc = "calling" /\ operation[o].goal = "data"
         /\ \/ /\ Goes(o, "data", operation[o].credential)
               /\ mutex' = mutex /\ known' = known
            \/ Ends(o)
<1> DEFINE counted == [operation[o] EXCEPT !.answered = operation[o].answered + 1]
<1>1. operation[o] \in Call
  BY DEF TypeOK
<1>2. /\ counted \in Call /\ counted.profile = operation[o].profile
      /\ counted.again = operation[o].again
      /\ counted.limit = operation[o].limit /\ counted.credential = operation[o].credential
  BY <1>1 DEF Call
<1>3. CASE counted.answered < RequestsOf[o]
  <2>1. operation' = [operation EXCEPT ![o] = Requesting(o, counted, "data")]
    BY <1>3 DEF AnswerData
  <2>2. mutex' = mutex /\ known' = known /\ operation[o].pc = "calling" /\ operation[o].goal = "data"
    BY <1>3 DEF AnswerData, Calling
  <2> HIDE DEF counted
  <2>3. Goes(o, "data", counted.credential)
    BY <1>2, <2>1, RequestGoes
  <2> QED BY <1>2, <2>2, <2>3
<1>4. CASE ~(counted.answered < RequestsOf[o])
  BY <1>4 DEF AnswerData, Calling
<1> QED BY <1>3, <1>4

\* A caller that slept repeats the call that was limited.
LEMMA WakeMoves ==
  ASSUME TypeOK, NEW o \in Callers, Wake(o)
  PROVE  /\ Goes(o, operation[o].goal, operation[o].credential) /\ mutex' = mutex
         /\ operation[o].pc = "sleeping" /\ operation[o].goal \in {"access", "token", "data", "evict"}
<1>1. operation[o] \in Call
  BY DEF TypeOK
<1>2. operation' = [operation EXCEPT ![o] = [operation[o] EXCEPT !.pc = "calling", !.until = 0]]
  BY DEF Wake, TypeOK
<1>3. operation'[o] = [operation[o] EXCEPT !.pc = "calling", !.until = 0]
  BY <1>2 DEF TypeOK
<1> DEFINE c == [operation[o] EXCEPT !.pc = "calling", !.until = 0]
<1>4. /\ c \in Call /\ c.pc = "calling" /\ c.goal = operation[o].goal
      /\ c.profile = operation[o].profile /\ c.again = operation[o].again
      /\ c.credential = operation[o].credential /\ c.limit = operation[o].limit
  BY <1>1 DEF Call
<1> HIDE DEF c
<1>5. operation' = [operation EXCEPT ![o] = c] /\ operation'[o] = c
  BY <1>2, <1>3 DEF c
<1>6. Goes(o, operation[o].goal, operation[o].credential)
  BY <1>4, <1>5 DEF Goes, Changes, Keeps
<1> QED BY <1>1, <1>6 DEF Wake, client, Call

\* A rate limit makes the caller sleep until before its limit, or fail.
LEMMA LimitMoves ==
  ASSUME TypeOK, NEW o \in Callers, Limit(o)
  PROVE  \/ Sleeps(o) /\ mutex' = mutex /\ known' = known
         \/ operation[o].pc = "calling" /\ Fails(o, "rate_limited")
<1>1. operation[o] \in Call /\ clock \in Nat /\ operation[o].pc = "calling"
  BY NumbersAssumption DEF TypeOK, Limit, Calling
<1> PICK wait \in Waits :
           IF Exhausted(operation[o]) \/ clock + wait > operation[o].limit
           THEN Fails(o, "rate_limited")
           ELSE /\ operation' = [operation EXCEPT ![o].pc = "sleeping",
                                   ![o].retries = @ + 1, ![o].until = clock + wait]
                /\ UNCHANGED <<mutex, known>>
  BY DEF Limit
<1>2. CASE ~(Exhausted(operation[o]) \/ clock + wait > operation[o].limit)
  <2> DEFINE c == [operation[o] EXCEPT !.pc = "sleeping", !.retries = operation[o].retries + 1,
                                       !.until = clock + wait]
  <2>1. operation' = [operation EXCEPT ![o] = c] /\ operation'[o] = c
    BY <1>2 DEF TypeOK
  <2>2. /\ operation[o].retries + 1 \in 0 .. MaxRetries /\ clock + wait \in Nat
        /\ clock + wait <= operation[o].limit
    BY <1>1, <1>2, NumbersAssumption DEF Exhausted, Call
  <2>3. /\ c \in Call /\ c.pc = "sleeping" /\ c.goal = operation[o].goal
        /\ c.profile = operation[o].profile /\ c.again = operation[o].again
        /\ c.credential = operation[o].credential /\ c.limit = operation[o].limit
        /\ c.until = clock + wait
    BY <1>1, <2>2 DEF Call
  <2> HIDE DEF c
  <2>4. Sleeps(o)
    BY <1>1, <2>1, <2>2, <2>3 DEF Sleeps, Changes, Keeps
  <2> QED BY <1>2, <2>4
<1>3. CASE Exhausted(operation[o]) \/ clock + wait > operation[o].limit
  BY <1>1, <1>3
<1> QED BY <1>2, <1>3

\* A refused token ends an operation that had one evicted before; any other queues
\* for the mutex and remembers the newest token of that moment.
LEMMA RefuseTokenMoves ==
  ASSUME TypeOK, NEW o \in Callers, RefuseToken(o)
  PROVE  /\ operation[o].pc = "calling" /\ operation[o].goal = "data"
         /\ \/ Fails(o, "credential_invalid") /\ operation[o].again
            \/ /\ Rejoins(o) /\ ~operation[o].again
               /\ known' = [known EXCEPT ![o] = issued[operation[o].profile]]
<1>1. /\ operation[o] \in Call /\ clock \in Nat
      /\ operation[o].pc = "calling" /\ operation[o].goal = "data"
      /\ Profiles[operation[o].profile] = App
  BY NumbersAssumption DEF TypeOK, RefuseToken, Calling, Accepted
<1>2. CASE ~operation[o].again
  <2> DEFINE c == [operation[o] EXCEPT !.pc = "locking", !.goal = "evict", !.since = clock]
  <2>1. operation' = [operation EXCEPT ![o] = c] /\ operation'[o] = c
    BY <1>2 DEF TypeOK, RefuseToken
  <2>2. /\ c \in Call /\ c.pc = "locking" /\ c.goal = "evict" /\ c.since = clock
        /\ c.profile = operation[o].profile /\ c.again = operation[o].again
        /\ c.limit = operation[o].limit
    BY <1>1 DEF Call
  <2> HIDE DEF c
  <2>3. /\ mutex' = Joined(o, operation[o].profile, mutex)
        /\ known' = [known EXCEPT ![o] = issued[operation[o].profile]]
    BY <1>2 DEF RefuseToken
  <2>4. Rejoins(o)
    BY <1>1, <2>1, <2>2, <2>3 DEF Rejoins, Changes, Keeps
  <2> QED BY <1>1, <1>2, <2>3, <2>4
<1>3. CASE operation[o].again
  BY <1>1, <1>3 DEF RefuseToken
<1> QED BY <1>2, <1>3

\* A failure goes on with the next profile or ends the operation.
LEMMA FailsMoves ==
  ASSUME TypeOK, NEW o \in Callers, NEW failure, Fails(o, failure)
  PROVE  /\ known' = [known EXCEPT ![o] = 0]
         /\ \/ \E p \in Indexes : Enters(o, p, FALSE)
            \/ Ends(o)
<1>1. operation[o].profile \in Indexes
  BY DEF TypeOK, Call
<1> QED BY <1>1, ProfileIndexes DEF Fails, Ends

\* Every step of a caller that has started.
LEMMA AdvanceMoves ==
  ASSUME TypeOK, NEW o \in Callers, Advance(o)
  PROVE  Moves(o) /\ UNCHANGED <<clock, due>>
<1>t. /\ operation[o] \in Call /\ operation[o].credential \in Nat
      /\ \A p \in Indexes : tokens[p] \in Nat /\ issued[p] + 1 \in Nat
      /\ operation[o].profile \in Indexes
  BY DEF TypeOK, Call
<1>f. ASSUME NEW failure, Fails(o, failure), operation[o].pc # "locking"
      PROVE  Moves(o)
  BY <1>f, FailsMoves DEF Moves, FirstIfLocking
<1>1. CASE UseToken(o)
  BY <1>t, <1>1, UseTokenMoves DEF Moves, FirstIfLocking, UseToken
<1>2. CASE RequestToken(o)
  <2>1. Queues(operation[o])
    BY <1>2 DEF RequestToken, Queues
  <2>2. Goes(o, "token", operation[o].credential) /\ mutex' = mutex /\ Holds(o)
    BY <1>2, RequestTokenMoves
  <2>3. Queues(operation'[o])
    BY <2>2 DEF Goes, Queues
  <2> QED BY <1>t, <1>2, <2>1, <2>2, <2>3 DEF Moves, FirstIfLocking, RequestToken
<1>3. CASE IssueToken(o)
  BY <1>t, <1>3, IssueTokenMoves DEF Moves, FirstIfLocking, IssueToken
<1>4. CASE EvictToken(o)
  BY <1>t, <1>4 DEF EvictToken, Moves, FirstIfLocking
<1>5. CASE AnswerData(o)
  <2>1. /\ operation[o].pc = "calling" /\ operation[o].goal = "data" /\ ~Queues(operation[o])
        /\ \/ Goes(o, "data", operation[o].credential) /\ mutex' = mutex
           \/ Ends(o)
    BY <1>5, AnswerDataMoves DEF Queues
  <2>2. CASE Goes(o, "data", operation[o].credential) /\ mutex' = mutex
    <3>1. ~Queues(operation'[o])
      BY <2>2 DEF Goes, Queues
    <3> QED BY <1>t, <1>5, <2>1, <2>2, <3>1 DEF Moves, FirstIfLocking, AnswerData
  <2>3. CASE Ends(o)
    BY <1>5, <2>1, <2>3 DEF Moves, FirstIfLocking, AnswerData
  <2> QED BY <2>1, <2>2, <2>3
<1>6. CASE RefuseToken(o)
  BY <1>f, <1>6, RefuseTokenMoves DEF Moves, RefuseToken
<1>7. CASE RefuseRequest(o)
  BY <1>f, <1>7 DEF RefuseRequest, Calling
<1>8. CASE Limit(o)
  BY <1>f, <1>8, LimitMoves DEF Moves, Limit
<1>9. CASE Wake(o)
  <2>1. /\ Goes(o, operation[o].goal, operation[o].credential) /\ mutex' = mutex
        /\ operation[o].pc = "sleeping" /\ operation[o].goal \in {"access", "token", "data", "evict"}
    BY <1>9, WakeMoves
  <2>2. Queues(operation'[o]) <=> Queues(operation[o])
    BY <2>1 DEF Goes, Queues
  <2> QED BY <1>t, <1>9, <2>1, <2>2 DEF Moves, FirstIfLocking, Wake
<1>10. CASE Interrupt(o)
  BY <1>10 DEF Interrupt, Moves, FirstIfLocking
<1> QED
  BY <1>1, <1>2, <1>3, <1>4, <1>5, <1>6, <1>7, <1>8, <1>9, <1>10 DEF Advance

-----------------------------------------------------------------------------
(* The queues, the deadlines and the waits *)

\* What Moves and the steps outside the clients preserve together.
Ordered ==
  /\ operation \in [Callers -> Call] /\ mutex \in [Indexes -> Seq(Callers)]
  /\ due \in [Callers -> 0..Horizon]
  /\ MutexIsOrdered /\ DeadlinesAreNear /\ MutexWaitIsBounded

\* An attempt begins: its deadline is one budget away, and so are all others.
LEMMA EntersStep ==
  ASSUME Ordered, clock \in Nat, clock' = clock,
         NEW o \in Callers, NEW p \in Indexes, NEW again \in BOOLEAN,
         Enters(o, p, again), FirstIfLocking(o),
         due' \in [Callers -> 0..Horizon], \A x \in Callers \ {o} : due'[x] = due[x],
         o \notin Dated => due'[o] <= clock + Budget
  PROVE  Ordered'
<1> DEFINE ops == [operation EXCEPT ![o] = Idle]
<1>1. /\ Begun(p, again) \in Call /\ Idle \in Call /\ operation' \in [Callers -> Call]
      /\ operation'[o] = Begun(p, again)
      /\ \A x \in Callers \ {o} : operation'[x] = operation[x]
      /\ ops \in [Callers -> Call] /\ ops[o] = Idle
      /\ \A x \in Callers \ {o} : ops[x] = operation[x]
  BY CallTypes DEF Enters, Ordered
<1> HIDE DEF ops
<1>2. /\ Begun(p, again).limit = clock + Budget /\ Begun(p, again).pc \in {"locking", "calling"}
      /\ Begun(p, again).pc = "locking" => Profiles[p] = App
      /\ Profiles[p] = App => /\ Begun(p, again).pc = "locking" /\ Begun(p, again).profile = p
                              /\ Begun(p, again).since = clock
      /\ Profiles[p] # App => Begun(p, again).pc = "calling" /\ Begun(p, again).goal = "data"
  BY DEF Begun
<1>3. operation[o].pc = "locking" =>
        mutex[operation[o].profile] # <<>> /\ Head(mutex[operation[o].profile]) = o
  BY DEF FirstIfLocking, Holds
<1>4. MutexIsOrdered' /\ mutex' \in [Indexes -> Seq(Callers)]
  <2>1. CASE Profiles[p] = App
    <3>1. ~Queues(ops[o])
      BY <1>1 DEF Queues, Idle
    <3>2. /\ QueuesOrdered(Unlocked(o, mutex), ops, due')
          /\ Unlocked(o, mutex) \in [Indexes -> Seq(Callers)]
      BY <1>1, <1>3, <3>1, Unlocking DEF Ordered, MutexIsOrdered
    <3>3. mutex' = [Unlocked(o, mutex) EXCEPT ![p] = Append(Unlocked(o, mutex)[p], o)]
      BY <2>1 DEF Enters, Joined
    <3>4. \A x \in Callers \ {o} : Deadline(x, ops[x], due'[x]) <= operation'[o].since + Budget
      BY <1>1, <1>2, <2>1 DEF Ordered, DeadlinesAreNear, Deadline
    <3>5. \A x \in Callers \ {o} : operation'[x] = ops[x]
      BY <1>1
    <3>6. operation'[o].pc = "locking" /\ operation'[o].profile = p
      BY <1>1, <1>2, <2>1
    <3>7. Joins(o, p, Unlocked(o, mutex), mutex', ops, operation', due')
      BY <1>1, <3>1, <3>2, <3>3, <3>4, <3>5, <3>6 DEF Joins
    <3>8. QueuesOrdered(mutex', operation', due') /\ mutex' \in [Indexes -> Seq(Callers)]
      BY <3>2, <3>7, Joining
    <3> QED BY <3>8 DEF MutexIsOrdered
  <2>2. CASE Profiles[p] # App
    <3>1. ~Queues(operation'[o])
      BY <1>1, <1>2, <2>2 DEF Queues
    <3>2. mutex' = Unlocked(o, mutex)
      BY <2>2 DEF Enters, Joined
    <3>3. /\ QueuesOrdered(Unlocked(o, mutex), operation', due')
          /\ Unlocked(o, mutex) \in [Indexes -> Seq(Callers)]
      BY <1>1, <1>3, <3>1, Unlocking DEF Ordered, MutexIsOrdered
    <3> QED BY <3>2, <3>3 DEF MutexIsOrdered
  <2> QED BY <2>1, <2>2
<1>5. DeadlinesAreNear' /\ MutexWaitIsBounded'
  <2>1. ASSUME NEW x \in Callers
        PROVE  /\ operation'[x].limit <= clock' + Budget
               /\ x \notin Dated => due'[x] <= clock' + Budget
               /\ operation'[x].pc = "sleeping" => operation'[x].until <= operation'[x].limit
               /\ operation'[x].pc = "locking" => clock' <= operation'[x].since + Budget
    <3>1. CASE x = o
      BY <1>1, <1>2, <3>1, NumbersAssumption
    <3>2. CASE x # o
      BY <1>1, <3>2 DEF Ordered, DeadlinesAreNear, MutexWaitIsBounded
    <3> QED BY <3>1, <3>2
  <2> QED BY <2>1 DEF DeadlinesAreNear, MutexWaitIsBounded
<1> QED BY <1>1, <1>4, <1>5 DEF Ordered

\* A caller moves on: it leaves the mutex, joins it, or keeps its place.
LEMMA MovesStep ==
  ASSUME Ordered, clock \in Nat, NEW o \in Callers, Moves(o), UNCHANGED <<clock, due>>
  PROVE  Ordered'
<1>t. /\ operation[o] \in Call /\ operation[o].limit \in Nat /\ due \in [Callers -> Nat]
      /\ operation[o].profile \in Indexes
  BY NumbersAssumption DEF Ordered, Call
<1>h. operation[o].pc = "locking" /\ FirstIfLocking(o) =>
        mutex[operation[o].profile] # <<>> /\ Head(mutex[operation[o].profile]) = o
  BY DEF FirstIfLocking, Holds
<1>c. ASSUME Changes(o)
      PROVE  /\ operation' \in [Callers -> Call]
             /\ \A x \in Callers \ {o} : operation'[x] = operation[x]
  BY <1>c DEF Changes, Ordered
\* What remains to show for a call that moved on.
<1>r. ASSUME Changes(o), operation'[o].limit <= clock + Budget,
             operation'[o].pc = "sleeping" => operation'[o].until <= operation'[o].limit,
             operation'[o].pc = "locking" => operation'[o].since = clock,
             MutexIsOrdered', mutex' \in [Indexes -> Seq(Callers)]
      PROVE  Ordered'
  <2>1. ASSUME NEW x \in Callers
        PROVE  /\ operation'[x].limit <= clock' + Budget
               /\ x \notin Dated => due'[x] <= clock' + Budget
               /\ operation'[x].pc = "sleeping" => operation'[x].until <= operation'[x].limit
               /\ operation'[x].pc = "locking" => clock' <= operation'[x].since + Budget
    <3>1. CASE x = o
      BY <1>r, <3>1, NumbersAssumption DEF Ordered, DeadlinesAreNear
    <3>2. CASE x # o
      BY <1>c, <1>r, <3>2 DEF Ordered, DeadlinesAreNear, MutexWaitIsBounded
    <3> QED BY <3>1, <3>2
  <2> QED BY <1>c, <1>r, <2>1 DEF Ordered, DeadlinesAreNear, MutexWaitIsBounded
<1>l. operation[o].limit <= clock + Budget
  BY DEF Ordered, DeadlinesAreNear
<1>g. ASSUME NEW goal, NEW credential, Goes(o, goal, credential)
      PROVE  /\ Changes(o) /\ operation'[o].limit <= clock + Budget
             /\ operation'[o].pc = "calling"
             /\ Deadline(o, operation'[o], due'[o]) = Deadline(o, operation[o], due[o])
             /\ operation'[o].profile = operation[o].profile
  BY <1>g, <1>l, <1>t, NumbersAssumption DEF Goes, Keeps, Deadline
<1>d. /\ due[o] \in Nat /\ Deadline(o, operation[o], due[o]) \in Nat
      /\ Deadline(o, operation[o], due[o]) <= Deadline(o, operation[o], due[o])
  BY <1>t DEF Deadline
<1>1. ASSUME NEW credential \in Nat, Goes(o, "data", credential),
             mutex' = Unlocked(o, mutex), FirstIfLocking(o)
      PROVE  Ordered'
  <2>1. ~Queues(operation'[o])
    BY <1>1 DEF Goes, Queues
  <2>2. /\ operation' \in [Callers -> Call]
        /\ \A x \in Callers \ {o} : operation'[x] = operation[x] /\ due'[x] = due[x]
    BY <1>1, <1>c, <1>g
  <2>3. QueuesOrdered(mutex', operation', due') /\ mutex' \in [Indexes -> Seq(Callers)]
    BY <1>1, <1>h, <2>1, <2>2, Unlocking DEF Ordered, MutexIsOrdered
  <2> QED BY <1>1, <1>g, <1>r, <2>3 DEF MutexIsOrdered
<1>2. ASSUME NEW goal \in {"access", "token", "data", "evict"}, NEW credential \in Nat,
             Goes(o, goal, credential), mutex' = mutex, FirstIfLocking(o),
             Queues(operation'[o]) <=> Queues(operation[o])
      PROVE  Ordered'
  <2>1. /\ operation' \in [Callers -> Call] /\ due' \in [Callers -> Nat]
        /\ \A x \in Callers \ {o} : operation'[x] = operation[x] /\ due'[x] = due[x]
    BY <1>2, <1>c, <1>g, <1>t
  <2>2. Stays(o, mutex, operation, operation', due, due')
    BY <1>2, <1>d, <1>g, <1>h, <1>t, <2>1 DEF Ordered, Stays
  <2>3. QueuesOrdered(mutex, operation', due')
    BY <2>2, Staying DEF Ordered, MutexIsOrdered
  <2> QED BY <1>2, <1>g, <1>r, <2>3 DEF MutexIsOrdered, Ordered
<1>3. CASE Rejoins(o)
  <2>1. ~Queues(operation[o])
    BY <1>3 DEF Rejoins, Queues
  <2>2. mutex' = [mutex EXCEPT ![operation[o].profile] = Append(mutex[operation[o].profile], o)]
    BY <1>3 DEF Rejoins, Joined
  <2>3. \A x \in Callers \ {o} : Deadline(x, operation[x], due[x]) <= operation'[o].since + Budget
    BY <1>3 DEF Rejoins, Deadline, Ordered, DeadlinesAreNear
  <2>4. /\ operation' \in [Callers -> Call] /\ operation'[o].pc = "locking"
        /\ operation'[o].profile = operation[o].profile
        /\ \A x \in Callers \ {o} : operation'[x] = operation[x]
    BY <1>3, <1>c DEF Rejoins, Keeps
  <2>5. Joins(o, operation[o].profile, mutex, mutex', operation, operation', due)
    BY <2>1, <2>2, <2>3, <2>4 DEF Ordered, Joins
  <2>6. QueuesOrdered(mutex', operation', due) /\ mutex' \in [Indexes -> Seq(Callers)]
    BY <1>t, <2>5, Joining DEF Ordered, MutexIsOrdered
  <2> QED BY <1>3, <1>l, <1>r, <2>4, <2>6 DEF Rejoins, MutexIsOrdered
<1>4. CASE Sleeps(o) /\ mutex' = mutex
  <2>1. /\ operation' \in [Callers -> Call] /\ due' \in [Callers -> Nat]
        /\ \A x \in Callers \ {o} : operation'[x] = operation[x] /\ due'[x] = due[x]
    BY <1>4, <1>c, <1>t DEF Sleeps
  <2>2. /\ Queues(operation'[o]) <=> Queues(operation[o])
        /\ operation'[o].profile = operation[o].profile /\ operation[o].pc # "locking"
        /\ Deadline(o, operation'[o], due'[o]) = Deadline(o, operation[o], due[o])
    BY <1>4 DEF Sleeps, Keeps, Queues, Deadline
  <2>3. Stays(o, mutex, operation, operation', due, due')
    BY <1>d, <1>t, <2>1, <2>2 DEF Ordered, Stays
  <2>4. QueuesOrdered(mutex, operation', due')
    BY <2>3, Staying DEF Ordered, MutexIsOrdered
  <2> QED BY <1>4, <1>l, <1>r, <2>4 DEF Sleeps, MutexIsOrdered, Ordered
<1>5. ASSUME NEW p \in Indexes, NEW again \in BOOLEAN, Enters(o, p, again), FirstIfLocking(o)
      PROVE  Ordered'
  BY <1>5, EntersStep DEF Ordered, DeadlinesAreNear
<1>6. CASE Ends(o) /\ FirstIfLocking(o)
  <2>1. /\ operation'[o] = [Idle EXCEPT !.pc = "ended"] /\ Changes(o)
        /\ operation'[o].pc = "ended" /\ operation'[o].limit = 0
    BY <1>6, CallTypes DEF Ends, Changes, Idle, Ordered
  <2>2. ~Queues(operation'[o])
    BY <2>1 DEF Queues
  <2>3. /\ operation' \in [Callers -> Call] /\ mutex' = Unlocked(o, mutex)
        /\ \A x \in Callers \ {o} : operation'[x] = operation[x] /\ due'[x] = due[x]
    BY <1>6, <1>c, <2>1 DEF Ends
  <2>4. QueuesOrdered(mutex', operation', due') /\ mutex' \in [Indexes -> Seq(Callers)]
    BY <1>6, <1>h, <2>2, <2>3, Unlocking DEF Ordered, MutexIsOrdered
  <2>5. operation'[o].limit <= clock + Budget
    BY <2>1, NumbersAssumption
  <2> QED BY <1>r, <2>1, <2>4, <2>5 DEF MutexIsOrdered
<1> QED BY <1>1, <1>2, <1>3, <1>4, <1>5, <1>6 DEF Moves

\* A job begins with a context that ends within its timeout, and a stop ends it now.
LEMMA EnvironmentStep ==
  ASSUME Ordered, clock \in 0..Horizon, NEW o \in Callers, Environment(o)
  PROVE  Ordered'
<1>t. clock \in Nat /\ TimeoutOf[o] \in Nat /\ Budget \in Nat
  BY CallersAssumption, NumbersAssumption
<1>1. CASE Start(o)
  <2>1. /\ due' = [due EXCEPT ![o] = clock + TimeoutOf[o]] /\ clock' = clock
        /\ clock + TimeoutOf[o] <= Horizon /\ Enters(o, 1, FALSE) /\ FirstIfLocking(o)
    BY <1>1 DEF Start, FirstIfLocking
  <2>2. due' \in [Callers -> 0..Horizon] /\ due'[o] = clock + TimeoutOf[o]
    BY <1>t, <2>1, NumbersAssumption DEF Ordered
  <2>3. o \notin Dated => due'[o] <= clock + Budget
    BY <1>t, <2>2, TimeoutsAssumption
  <2> QED BY <1>t, <2>1, <2>2, <2>3, EntersStep, ProfileIndexes
<1>2. CASE Cancel(o)
  <2>1. /\ due' = [due EXCEPT ![o] = clock] /\ clock < due[o]
        /\ UNCHANGED <<clock, operation, mutex>>
    BY <1>2, NumbersAssumption DEF Cancel, Done, client, Ordered
  <2>2. due' \in [Callers -> 0..Horizon] /\ due' \in [Callers -> Nat] /\ due \in [Callers -> Nat]
    BY <2>1, NumbersAssumption DEF Ordered
  <2>3. due'[o] = clock /\ \A x \in Callers \ {o} : due'[x] = due[x]
    BY <2>1 DEF Ordered
  <2>4. /\ Deadline(o, operation[o], due'[o]) <= Deadline(o, operation[o], due[o])
        /\ \A x \in Callers \ {o} : operation[x] = operation[x] /\ due'[x] = due[x]
    BY <1>t, <2>1, <2>2, <2>3 DEF Deadline, Ordered, Call
  <2>5. Stays(o, mutex, operation, operation, due, due')
    BY <1>t, <2>1, <2>2, <2>4 DEF Ordered, Stays
  <2>6. QueuesOrdered(mutex, operation, due')
    BY <2>5, Staying DEF Ordered, MutexIsOrdered
  <2>7. \A x \in Callers : x \notin Dated => due'[x] <= clock + Budget
    BY <1>t, <2>3 DEF Ordered, DeadlinesAreNear
  <2> QED BY <2>1, <2>2, <2>6, <2>7 DEF Ordered, MutexIsOrdered, DeadlinesAreNear, MutexWaitIsBounded
<1> QED BY <1>1, <1>2 DEF Environment

\* Time passes only while whoever holds a mutex is before its deadline.
LEMMA ElapseStep ==
  ASSUME Ordered, clock \in 0..Horizon, Elapse
  PROVE  Ordered'
<1>t. clock \in Nat /\ clock' = clock + 1 /\ UNCHANGED <<operation, mutex, due>>
  BY NumbersAssumption DEF Elapse, client
<1>1. ASSUME NEW o \in Callers, operation[o].pc = "locking"
      PROVE  clock' <= operation[o].since + Budget
  <2> DEFINE p == operation[o].profile
  <2>1. operation[o] \in Call /\ p \in Indexes /\ operation[o].since \in Nat /\ Queues(operation[o])
    BY <1>1 DEF Ordered, Call, Queues
  <2>2. PICK j \in DOMAIN mutex[p] : mutex[p][j] = o
    BY <2>1 DEF Ordered, MutexIsOrdered, QueuesOrdered
  <2>3. /\ 1 \in DOMAIN mutex[p] /\ Head(mutex[p]) = mutex[p][1] /\ mutex[p] # <<>>
        /\ mutex[p][1] \in Callers /\ j \in Nat \ {0}
    BY <2>1, <2>2, QueuePlaces DEF Ordered
  <2> DEFINE x == mutex[p][1]
  <2>4. ~Holds(o)
    BY <1>1 DEF Elapse
  <2>5. 1 < j
    BY <2>2, <2>3, <2>4 DEF Holds
  <2>6. /\ Deadline(x, operation[x], due[x]) <= operation[o].since + Budget
        /\ operation[x].profile = p /\ Queues(operation[x])
    BY <2>1, <2>2, <2>3, <2>5 DEF Ordered, MutexIsOrdered, QueuesOrdered
  <2>7. /\ operation[x].limit \in Nat /\ operation[x].until \in Nat /\ due[x] \in Nat
        /\ operation[x].pc = "sleeping" => operation[x].until <= operation[x].limit
    BY <2>3, NumbersAssumption DEF Ordered, Call, DeadlinesAreNear
  <2>8. operation[x].pc = "sleeping"
    <3>1. Holds(x)
      BY <2>3, <2>6 DEF Holds
    <3>2. operation[x].pc # "locking" /\ operation[x].pc # "calling"
      BY <2>3, <3>1 DEF Elapse
    <3> QED BY <2>6, <3>2 DEF Queues
  <2>9. clock < operation[x].until /\ clock < due[x]
    BY <1>t, <2>3, <2>7, <2>8 DEF Elapse, Done
  <2>10. clock < Deadline(x, operation[x], due[x]) /\ Deadline(x, operation[x], due[x]) \in Nat
    BY <1>t, <2>7, <2>8, <2>9 DEF Deadline
  <2> HIDE DEF x
  <2> QED BY <1>t, <2>1, <2>6, <2>10, NumbersAssumption
<1>2. DeadlinesAreNear'
  <2>1. \A o \in Callers : operation[o].limit \in Nat /\ due[o] \in Nat
    BY NumbersAssumption DEF Ordered, Call
  <2> QED BY <1>t, <2>1, NumbersAssumption DEF Ordered, DeadlinesAreNear
<1> QED BY <1>t, <1>1, <1>2 DEF Ordered, MutexIsOrdered, MutexWaitIsBounded

-----------------------------------------------------------------------------
(* The tokens *)

\* A call stays numbered while GitHub issues more tokens, and the cache loses its
\* token or gets a newer one.
LEMMA StaysNumbered ==
  ASSUME NEW call \in Call, NEW seen \in Nat,
         NEW numbers \in [Indexes -> Nat], NEW numbers2 \in [Indexes -> Nat],
         NEW cached \in [Indexes -> Nat], NEW cached2 \in [Indexes -> Nat],
         Numbered(call, numbers, cached, seen),
         \A p \in Indexes : /\ numbers[p] <= numbers2[p]
                            /\ cached2[p] \in {0, cached[p]} \/ cached2[p] > numbers[p]
  PROVE  Numbered(call, numbers2, cached2, seen)
<1> DEFINE p == call.profile
<1>1. p \in Indexes
  BY DEF Call
<1>2. /\ numbers[p] \in Nat /\ numbers2[p] \in Nat /\ cached[p] \in Nat /\ cached2[p] \in Nat
      /\ numbers[p] <= numbers2[p]
      /\ cached2[p] = 0 \/ cached2[p] = cached[p] \/ cached2[p] > numbers[p]
  BY <1>1
<1> QED BY <1>2 DEF Numbered

\* A call that goes on or sleeps is numbered when its token is.
LEMMA GoesNumbered ==
  ASSUME NEW call \in Call, NEW call2 \in Call, NEW seen,
         NEW numbers, NEW cached,
         Numbered(call, numbers, cached, seen),
         call.pc \notin {"idle", "ended"},
         call2.profile = call.profile, call2.again = call.again,
         call2.goal # "evict" \/ call.goal = "evict",
         Profiles[call.profile] = App /\ call2.goal = "data" =>
           call2.credential > 0 /\ (call.again => call2.credential > seen)
  PROVE  Numbered(call2, numbers, cached, seen)
BY DEF Numbered

\* A step of a caller leaves the tokens in order: it changes no other call, what
\* it issues or caches is new, and its own call is numbered.
Orderly(o) ==
  /\ issued' \in [Indexes -> Nat] /\ tokens' \in [Indexes -> Nat]
  /\ known' \in [Callers -> Nat] /\ revoked' = revoked
  /\ \A p \in Indexes : /\ issued[p] <= issued'[p]
                        /\ tokens'[p] \in {0, tokens[p]} \/ tokens'[p] > issued[p]
  /\ \A x \in Callers \ {o} : operation'[x] = operation[x] /\ known'[x] = known[x]
  /\ Numbered(operation'[o], issued', tokens', known'[o])

\* A caller whose attempt ends, or is followed by one with the next profile.
LEMMA FailsIsOrderly ==
  ASSUME TypeOK, NEW o \in Callers, UNCHANGED <<github, tokens>>,
         known' = [known EXCEPT ![o] = 0],
         (\E p \in Indexes : Enters(o, p, FALSE)) \/ Ends(o)
  PROVE  Orderly(o)
<1>1. /\ issued' = issued /\ revoked' = revoked /\ tokens' = tokens
      /\ known' \in [Callers -> Nat] /\ \A x \in Callers \ {o} : known'[x] = known[x]
      /\ \A p \in Indexes : issued[p] \in Nat /\ issued[p] <= issued[p]
  BY DEF github, TypeOK
<1>2. CASE \E p \in Indexes : Enters(o, p, FALSE)
  <2> PICK p \in Indexes : Enters(o, p, FALSE)
    BY <1>2
  <2>1. /\ operation'[o] = Begun(p, FALSE)
        /\ \A x \in Callers \ {o} : operation'[x] = operation[x]
    BY DEF Enters, TypeOK
  <2>2. Numbered(operation'[o], issued, tokens, known'[o])
    BY <2>1 DEF Numbered, Begun
  <2> QED BY <1>1, <2>1, <2>2 DEF Orderly, TypeOK
<1>3. CASE Ends(o)
  <2>1. /\ operation'[o] = [Idle EXCEPT !.pc = "ended"]
        /\ \A x \in Callers \ {o} : operation'[x] = operation[x]
    BY <1>3 DEF Ends, TypeOK
  <2>2. Numbered(operation'[o], issued, tokens, known'[o])
    BY <2>1 DEF Numbered, Idle
  <2> QED BY <1>1, <2>1, <2>2 DEF Orderly, TypeOK
<1> QED BY <1>2, <1>3

\* A caller that goes on or sleeps with the credential it has.
LEMMA GoesIsOrderly ==
  ASSUME TypeOK, TokensAreNumbered, NEW o \in Callers,
         NEW goal \in {"access", "token", "data", "evict"}, NEW credential \in Nat,
         Changes(o), Keeps(o), Running(o),
         operation'[o].goal = goal, operation'[o].credential = credential,
         goal # "evict" \/ operation[o].goal = "evict",
         goal = "data" => \/ credential = operation[o].credential /\ operation[o].goal = "data"
                          \/ /\ credential > 0
                             /\ Profiles[operation[o].profile] = App /\ operation[o].again =>
                                  credential > known[o],
         UNCHANGED <<github, tokens, known>>
  PROVE  Orderly(o)
<1>1. /\ issued' = issued /\ revoked' = revoked /\ tokens' = tokens /\ known' = known
      /\ \A x \in Callers \ {o} : operation'[x] = operation[x]
      /\ \A p \in Indexes : issued[p] \in Nat /\ issued[p] <= issued[p]
  BY DEF github, TypeOK, Changes
<1>2. /\ operation[o] \in Call /\ operation'[o] \in Call
      /\ operation[o].pc \notin {"idle", "ended"}
      /\ operation'[o].profile = operation[o].profile
      /\ operation'[o].again = operation[o].again
      /\ Numbered(operation[o], issued, tokens, known[o])
  BY DEF TypeOK, Changes, Keeps, Running, TokensAreNumbered
<1>3. Profiles[operation[o].profile] = App /\ operation'[o].goal = "data" =>
        /\ operation'[o].credential > 0
        /\ operation[o].again => operation'[o].credential > known[o]
  BY <1>2 DEF Numbered
<1>4. Numbered(operation'[o], issued, tokens, known[o])
  BY <1>2, <1>3, GoesNumbered
<1> QED BY <1>1, <1>4 DEF Orderly, TypeOK

\* Every step of a caller that has started leaves the tokens in order.
LEMMA AdvanceIsOrderly ==
  ASSUME TypeOK, TokensAreNumbered, NEW o \in Callers, Advance(o)
  PROVE  Orderly(o)
<1> DEFINE p == operation[o].profile
<1>t. /\ operation[o] \in Call /\ operation[o].credential \in Nat /\ p \in Indexes
      /\ operation[o].goal \in {"access", "token", "data", "evict"}
      /\ tokens[p] \in Nat /\ issued[p] \in Nat /\ revoked[p] \in Nat /\ known[o] \in Nat
  BY DEF TypeOK, Call
<1>n. Numbered(operation[o], issued, tokens, known[o]) /\ revoked[p] <= issued[p]
  BY <1>t DEF TokensAreNumbered
<1>a. Running(o) /\ Profiles[p] = App /\ operation[o].again =>
        known[o] <= issued[p] /\ (tokens[p] = 0 \/ tokens[p] > known[o])
  BY <1>n DEF Numbered, Running
<1>f. ASSUME NEW failure, Fails(o, failure), UNCHANGED <<github, tokens>>
      PROVE  Orderly(o)
  BY <1>f, FailsMoves, FailsIsOrderly
<1>1. CASE UseToken(o)
  <2>0. tokens[p] # 0 /\ operation[o].pc = "locking" /\ UNCHANGED <<github, tokens, known>>
    BY <1>1 DEF UseToken
  <2>1. Goes(o, "data", tokens[p]) /\ tokens[p] > 0 /\ Running(o)
    BY <1>t, <1>1, <2>0, UseTokenMoves DEF Running
  <2>2. Changes(o) /\ Keeps(o) /\ operation'[o].goal = "data" /\ operation'[o].credential = tokens[p]
    BY <2>1 DEF Goes
  <2>3. Profiles[p] = App /\ operation[o].again => tokens[p] > known[o]
    BY <1>a, <2>1
  <2> QED BY <1>t, <2>0, <2>1, <2>2, <2>3, GoesIsOrderly
<1>2. CASE RequestToken(o)
  <2>1. /\ Goes(o, "token", operation[o].credential) /\ Running(o)
        /\ UNCHANGED <<github, tokens, known>>
    BY <1>2, RequestTokenMoves DEF RequestToken, Running, client
  <2>2. /\ Changes(o) /\ Keeps(o) /\ operation'[o].goal = "token"
        /\ operation'[o].credential = operation[o].credential
    BY <2>1 DEF Goes
  <2> QED BY <1>t, <2>1, <2>2, GoesIsOrderly
<1>3. CASE IssueToken(o)
  <2>1. /\ Goes(o, "data", issued[p] + 1) /\ Running(o)
        /\ UNCHANGED <<revoked, known>>
        /\ issued' = [issued EXCEPT ![p] = issued[p] + 1]
        /\ tokens' = [tokens EXCEPT ![p] = issued[p] + 1]
    BY <1>3, IssueTokenMoves DEF IssueToken, Running
  <2>2. /\ Changes(o) /\ Keeps(o) /\ operation'[o].goal = "data"
        /\ operation'[o].credential = issued[p] + 1 /\ operation'[o] \in Call
        /\ \A x \in Callers \ {o} : operation'[x] = operation[x]
    BY <2>1 DEF Goes, Changes, TypeOK
  <2>3. /\ issued' \in [Indexes -> Nat] /\ tokens' \in [Indexes -> Nat]
        /\ \A q \in Indexes : /\ issued[q] <= issued'[q]
                              /\ tokens'[q] \in {0, tokens[q]} \/ tokens'[q] > issued[q]
    BY <1>t, <2>1 DEF TypeOK
  <2>4. Numbered(operation[o], issued', tokens', known[o])
    <3>1. issued \in [Indexes -> Nat] /\ tokens \in [Indexes -> Nat]
      BY DEF TypeOK
    <3> QED BY <1>t, <1>n, <2>3, <3>1, StaysNumbered
  <2>5. /\ issued[p] + 1 > 0
        /\ Profiles[p] = App /\ operation[o].again => issued[p] + 1 > known[o]
    BY <1>t, <1>a, <2>1
  <2>6. Numbered(operation'[o], issued', tokens', known[o])
    BY <1>t, <2>1, <2>2, <2>4, <2>5, GoesNumbered DEF Keeps, Running
  <2> QED BY <2>1, <2>2, <2>3, <2>6 DEF Orderly, TypeOK
<1>4. CASE EvictToken(o)
  <2>1. /\ operation[o].pc = "locking" /\ operation[o].goal = "evict"
        /\ tokens' = [tokens EXCEPT ![p] = 0] /\ UNCHANGED <<issued, revoked, known>>
        /\ operation' = [operation EXCEPT ![o] = Begun(p, TRUE)]
    BY <1>4 DEF EvictToken, Evicted, Enters, github
  <2>2. /\ operation'[o] = Begun(p, TRUE)
        /\ \A x \in Callers \ {o} : operation'[x] = operation[x]
    BY <2>1 DEF TypeOK
  <2>3. Profiles[p] = App => known[o] > 0 /\ known[o] <= issued[p]
    BY <1>n, <2>1 DEF Numbered
  <2>4. tokens' \in [Indexes -> Nat] /\ tokens'[p] = 0
    BY <1>t, <2>1 DEF TypeOK
  <2>5. Numbered(operation'[o], issued, tokens', known[o])
    BY <2>2, <2>3, <2>4 DEF Numbered, Begun
  <2>6. \A q \in Indexes : issued[q] <= issued'[q] /\ tokens'[q] \in {0, tokens[q]}
    BY <2>1 DEF TypeOK
  <2>7. /\ issued' \in [Indexes -> Nat] /\ known' \in [Callers -> Nat] /\ revoked' = revoked
        /\ \A x \in Callers \ {o} : known'[x] = known[x]
    BY <2>1 DEF TypeOK
  <2>8. Numbered(operation'[o], issued', tokens', known'[o])
    BY <2>1, <2>5
  <2> QED BY <2>2, <2>4, <2>6, <2>7, <2>8 DEF Orderly
<1>5. CASE AnswerData(o)
  <2>1. Running(o) /\ operation[o].goal = "data" /\ UNCHANGED <<github, tokens>>
    BY <1>5, AnswerDataMoves DEF AnswerData, Running
  <2>2. CASE Goes(o, "data", operation[o].credential) /\ mutex' = mutex /\ known' = known
    <3>1. /\ Changes(o) /\ Keeps(o) /\ operation'[o].goal = "data"
          /\ operation'[o].credential = operation[o].credential
      BY <2>2 DEF Goes
    <3> QED BY <1>t, <2>1, <2>2, <3>1, GoesIsOrderly
  <2>3. CASE Ends(o)
    BY <2>1, <2>3, FailsIsOrderly DEF Ends
  <2> QED BY <1>5, <2>2, <2>3, AnswerDataMoves
<1>6. CASE RefuseToken(o)
  <2>0. ~Accepted(o) /\ UNCHANGED <<github, tokens>>
    BY <1>6 DEF RefuseToken
  <2>1. /\ Running(o) /\ operation[o].goal = "data"
        /\ Profiles[p] = App /\ operation[o].credential <= revoked[p]
    BY <1>t, <1>6, <2>0, RefuseTokenMoves DEF Running, Accepted
  <2>2. issued[p] > 0
    BY <1>t, <1>n, <2>1 DEF Numbered, Running
  <2>3. CASE Rejoins(o) /\ ~operation[o].again /\ known' = [known EXCEPT ![o] = issued[p]]
    <3>1. /\ operation'[o].profile = p /\ ~operation'[o].again /\ operation'[o].goal = "evict"
          /\ \A x \in Callers \ {o} : operation'[x] = operation[x]
      BY <2>3 DEF Rejoins, Changes, Keeps, TypeOK
    <3>2. /\ known' \in [Callers -> Nat] /\ known'[o] = issued[p]
          /\ \A x \in Callers \ {o} : known'[x] = known[x]
      BY <1>t, <2>3 DEF TypeOK
    <3>3. Numbered(operation'[o], issued, tokens, known'[o])
      BY <1>t, <2>2, <3>1, <3>2 DEF Numbered
    <3>4. /\ issued' = issued /\ revoked' = revoked /\ tokens' = tokens
          /\ \A q \in Indexes : issued[q] \in Nat
      BY <2>0 DEF github, TypeOK
    <3> QED BY <3>1, <3>2, <3>3, <3>4 DEF Orderly, TypeOK
  <2> QED BY <1>f, <1>6, <2>0, <2>3, RefuseTokenMoves
<1>7. CASE RefuseRequest(o)
  BY <1>f, <1>7 DEF RefuseRequest
<1>8. CASE Limit(o)
  <2>1. UNCHANGED <<github, tokens>>
    BY <1>8 DEF Limit
  <2>2. CASE Sleeps(o) /\ mutex' = mutex /\ known' = known
    <3>1. /\ Changes(o) /\ Keeps(o) /\ Running(o) /\ operation'[o].goal = operation[o].goal
          /\ operation'[o].credential = operation[o].credential
      BY <2>2 DEF Sleeps, Running
    <3> QED BY <1>t, <2>1, <2>2, <3>1, GoesIsOrderly
  <2> QED BY <1>f, <1>8, <2>1, <2>2, LimitMoves
<1>9. CASE Wake(o)
  <2>1. Running(o) /\ UNCHANGED <<github, tokens, known>>
    BY <1>9 DEF Wake, Running, client
  <2>2. /\ Changes(o) /\ Keeps(o) /\ operation'[o].goal = operation[o].goal
        /\ operation'[o].credential = operation[o].credential
    BY <1>9, WakeMoves DEF Goes
  <2> QED BY <1>t, <2>1, <2>2, GoesIsOrderly
<1>10. CASE Interrupt(o)
  BY <1>10, FailsIsOrderly DEF Interrupt, Ends
<1> QED
  BY <1>1, <1>2, <1>3, <1>4, <1>5, <1>6, <1>7, <1>8, <1>9, <1>10 DEF Advance

-----------------------------------------------------------------------------
(* The invariant *)

\* What a step of one caller leaves in order is in order for all.
LEMMA OrderlyStep ==
  ASSUME TypeOK, TokensAreNumbered, NEW o \in Callers, Orderly(o), clock' = clock, Ordered'
  PROVE  TypeOK' /\ TokensAreNumbered'
<1>1. TypeOK'
  BY DEF TypeOK, Orderly, Ordered
<1>2. \A p \in Indexes : revoked'[p] <= issued'[p]
  <2> TAKE p \in Indexes
  <2>1. /\ revoked[p] \in Nat /\ issued[p] \in Nat /\ issued'[p] \in Nat
        /\ revoked[p] <= issued[p] /\ issued[p] <= issued'[p] /\ revoked' = revoked
    BY <1>1 DEF TypeOK, TokensAreNumbered, Orderly
  <2> QED BY <2>1
<1>3. ASSUME NEW x \in Callers \ {o}
      PROVE  Numbered(operation'[x], issued', tokens', known'[x])
  <2>1. /\ operation[x] \in Call /\ known[x] \in Nat
        /\ operation'[x] = operation[x] /\ known'[x] = known[x]
        /\ Numbered(operation[x], issued, tokens, known[x])
    BY DEF TypeOK, TokensAreNumbered, Orderly
  <2>2. /\ issued \in [Indexes -> Nat] /\ issued' \in [Indexes -> Nat]
        /\ tokens \in [Indexes -> Nat] /\ tokens' \in [Indexes -> Nat]
        /\ \A p \in Indexes : /\ issued[p] <= issued'[p]
                              /\ tokens'[p] \in {0, tokens[p]} \/ tokens'[p] > issued[p]
    BY DEF TypeOK, Orderly
  <2> QED BY <2>1, <2>2, StaysNumbered
<1> QED BY <1>1, <1>2, <1>3 DEF TokensAreNumbered, Orderly

\* A job that begins has seen nothing, and a stop changes no token.
LEMMA EnvironmentIsOrderly ==
  ASSUME TypeOK, TokensAreNumbered, NEW o \in Callers, Environment(o)
  PROVE  Orderly(o) /\ clock' = clock
<1>1. CASE Start(o)
  <2>1. /\ operation' = [operation EXCEPT ![o] = Begun(1, FALSE)] /\ clock' = clock
        /\ UNCHANGED <<github, tokens, known>>
    BY <1>1 DEF Start, Enters
  <2>2. /\ operation'[o] = Begun(1, FALSE)
        /\ \A x \in Callers \ {o} : operation'[x] = operation[x]
    BY <2>1 DEF TypeOK
  <2>3. Numbered(operation'[o], issued, tokens, known[o])
    BY <2>2 DEF Numbered, Begun
  <2>4. issued' = issued /\ revoked' = revoked /\ \A p \in Indexes : issued[p] <= issued[p]
    BY <2>1 DEF github, TypeOK
  <2> QED BY <2>1, <2>2, <2>3, <2>4 DEF Orderly, TypeOK
<1>2. CASE Cancel(o)
  <2>1. UNCHANGED <<clock, issued, revoked, tokens, operation, known>>
    BY <1>2 DEF Cancel, github, client
  <2>2. \A p \in Indexes : issued[p] <= issued[p]
    BY DEF TypeOK
  <2> QED BY <2>1, <2>2 DEF Orderly, TypeOK, TokensAreNumbered
<1> QED BY <1>1, <1>2 DEF Environment

\* GitHub revokes tokens it has issued, and one in the cache grows old.
LEMMA GitHubStep ==
  ASSUME RoutingInv, NEW p \in Indexes, Revoke(p) \/ Age(p)
  PROVE  RoutingInv'
<1>1. /\ UNCHANGED <<clock, issued, mutex, operation, due, known>>
      /\ \/ revoked' = [revoked EXCEPT ![p] = issued[p]] /\ tokens' = tokens
         \/ tokens' = [tokens EXCEPT ![p] = 0] /\ revoked' = revoked
  BY DEF Revoke, Age, github, client
<1>2. TypeOK'
  <2>1. issued[p] \in Nat /\ revoked \in [Indexes -> Nat] /\ tokens \in [Indexes -> Nat]
    BY DEF RoutingInv, TypeOK
  <2>2. revoked' \in [Indexes -> Nat]
    BY <1>1, <2>1
  <2>3. tokens' \in [Indexes -> Nat]
    BY <1>1, <2>1
  <2> QED BY <1>1, <2>2, <2>3 DEF RoutingInv, TypeOK
<1>3. MutexIsOrdered' /\ DeadlinesAreNear' /\ MutexWaitIsBounded'
  BY <1>1 DEF RoutingInv, MutexIsOrdered, DeadlinesAreNear, MutexWaitIsBounded
<1>4. \A q \in Indexes : revoked'[q] <= issued'[q]
  <2> TAKE q \in Indexes
  <2>1. revoked'[q] \in {revoked[q], issued[q]} /\ issued'[q] = issued[q]
    BY <1>1 DEF RoutingInv, TypeOK
  <2>2. revoked[q] <= issued[q] /\ issued[q] \in Nat
    BY DEF RoutingInv, TypeOK, TokensAreNumbered
  <2> QED BY <2>1, <2>2
<1>5. ASSUME NEW o \in Callers
      PROVE  Numbered(operation'[o], issued', tokens', known'[o])
  <2>1. /\ operation[o] \in Call /\ known[o] \in Nat
        /\ issued \in [Indexes -> Nat] /\ tokens \in [Indexes -> Nat]
        /\ tokens' \in [Indexes -> Nat]
        /\ Numbered(operation[o], issued, tokens, known[o])
        /\ \A q \in Indexes : issued[q] <= issued[q]
    BY <1>2 DEF RoutingInv, TypeOK, TokensAreNumbered
  <2>2. \A q \in Indexes : tokens'[q] \in {0, tokens[q]}
    BY <1>1, <2>1
  <2>3. Numbered(operation[o], issued, tokens', known[o])
    BY <2>1, <2>2, StaysNumbered
  <2> QED BY <1>1, <2>3
<1> QED BY <1>2, <1>3, <1>4, <1>5 DEF RoutingInv, TokensAreNumbered

\* Initially nobody calls, and no token was issued.
LEMMA RoutingInvInit == Init => RoutingInv
<1> SUFFICES ASSUME Init PROVE RoutingInv
  OBVIOUS
<1>1. /\ Idle \in Call /\ 0 \in 0..Horizon /\ Budget \in Nat
      /\ Idle.pc = "idle" /\ Idle.limit = 0
  BY CallTypes, NumbersAssumption DEF Init, Idle
<1>2. TypeOK
  BY <1>1 DEF Init, TypeOK
<1>3. \A o \in Callers : operation[o] = Idle /\ due[o] = 0
  BY DEF Init
<1>4. MutexIsOrdered
  BY <1>1, <1>3 DEF Init, MutexIsOrdered, QueuesOrdered, Queues
<1>5. DeadlinesAreNear /\ MutexWaitIsBounded
  BY <1>1, <1>3 DEF Init, DeadlinesAreNear, MutexWaitIsBounded
<1>6. TokensAreNumbered
  BY <1>1, <1>3 DEF Init, TokensAreNumbered, Numbered
<1> QED BY <1>2, <1>4, <1>5, <1>6 DEF RoutingInv

\* Every step keeps the invariant.
LEMMA RoutingInvStep == RoutingInv /\ [Next]_vars => RoutingInv'
<1> SUFFICES ASSUME RoutingInv, [Next]_vars PROVE RoutingInv'
  OBVIOUS
<1>t. Ordered /\ clock \in Nat /\ clock \in 0..Horizon /\ TypeOK /\ TokensAreNumbered
  BY NumbersAssumption DEF RoutingInv, TypeOK, Ordered
<1>o. ASSUME NEW o \in Callers, Ordered', Orderly(o), clock' = clock
      PROVE  RoutingInv'
  BY <1>t, <1>o, OrderlyStep DEF RoutingInv, Ordered
<1>1. ASSUME NEW o \in Callers, Environment(o)
      PROVE  RoutingInv'
  BY <1>t, <1>o, <1>1, EnvironmentStep, EnvironmentIsOrderly
<1>2. ASSUME NEW o \in Callers, Advance(o)
      PROVE  RoutingInv'
  <2>1. Moves(o) /\ UNCHANGED <<clock, due>>
    BY <1>t, <1>2, AdvanceMoves
  <2> QED BY <1>t, <1>o, <1>2, <2>1, MovesStep, AdvanceIsOrderly
<1>3. ASSUME NEW p \in Indexes, Revoke(p) \/ Age(p)
      PROVE  RoutingInv'
  BY <1>3, GitHubStep
<1>4. CASE Elapse
  <2>1. Ordered'
    BY <1>t, <1>4, ElapseStep
  <2>2. /\ UNCHANGED <<issued, revoked, tokens, operation, known>>
        /\ clock' \in 0..Horizon
    BY <1>t, <1>4, NumbersAssumption DEF Elapse, github, client
  <2> QED BY <1>t, <2>1, <2>2 DEF RoutingInv, Ordered, TypeOK, TokensAreNumbered
<1>5. CASE UNCHANGED vars
  <2>1. UNCHANGED <<clock, issued, revoked, tokens, mutex, operation, due, known>>
    BY <1>5 DEF vars, github, client
  <2> QED BY <2>1 DEF RoutingInv, TypeOK, MutexIsOrdered, DeadlinesAreNear,
                      MutexWaitIsBounded, TokensAreNumbered
<1> QED BY <1>1, <1>2, <1>3, <1>4, <1>5 DEF Next

-----------------------------------------------------------------------------
(* Theorems *)

\* The inductive invariant holds in every reachable state: the queues of the
\* mutexes, the deadlines and the numbers of the tokens stay in order.
THEOREM Invariance == Spec => []RoutingInv
<1> QED BY RoutingInvInit, RoutingInvStep, PTL DEF Spec

\* Every variable of the clients, the callers and GitHub keeps its type.
THEOREM TypeCorrectness == Spec => []TypeOK
<1>1. RoutingInv => TypeOK
  BY DEF RoutingInv
<1> QED BY <1>1, Invariance, PTL

\* Nobody waits for Client.tokenMu longer than one rate limit budget, for any
\* number of callers ahead and any rate limits they meet.
THEOREM MutexWaitIsBoundedHolds == Spec => []MutexWaitIsBounded
<1>1. RoutingInv => MutexWaitIsBounded
  BY DEF RoutingInv
<1> QED BY <1>1, Invariance, PTL

\* "Credential invalid" is concluded only from a token that GitHub issued after
\* it had refused the operation's first one, whatever others do to the cache.
THEOREM StaleTokenIsNotBlamedHolds == Spec => StaleTokenIsNotBlamed
<1> DEFINE Blames ==
      \A o \in Callers : (RefuseToken(o) /\ operation[o].again) =>
        known[o] > 0 /\ operation[o].credential > known[o]
<1>1. RoutingInv /\ [Next]_vars => [Blames]_vars
  <2> SUFFICES ASSUME RoutingInv, NEW o \in Callers, RefuseToken(o), operation[o].again
               PROVE  known[o] > 0 /\ operation[o].credential > known[o]
    OBVIOUS
  <2>1. /\ operation[o].pc = "calling" /\ operation[o].goal = "data"
        /\ Profiles[operation[o].profile] = App
    BY DEF RefuseToken, Calling, Accepted
  <2>2. Numbered(operation[o], issued, tokens, known[o])
    BY DEF RoutingInv, TokensAreNumbered
  <2> QED BY <2>1, <2>2 DEF Numbered
<1> QED BY <1>1, Invariance, PTL DEF Spec, StaleTokenIsNotBlamed
=============================================================================
