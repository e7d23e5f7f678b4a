--------------------------- MODULE RegistryProofs ---------------------------
(***************************************************************************)
(* The store under its threads, for any nodes, threads, timeouts and       *)
(* retention.                                                              *)
(***************************************************************************)
EXTENDS Registry, FiniteSetTheorems, WellFoundedInduction, TLAPS

-----------------------------------------------------------------------------
(* Numbers.                                                                *)

LEMMA LeastNumber ==
  ASSUME NEW T, T \subseteq Nat, T # {}
  PROVE  \E x \in T : \A y \in T : x <= y
<1>. DEFINE R == {p \in Nat \X Nat : p[1] < p[2]}
<1>1. R = OpToRel(<, Nat)
  BY DEF OpToRel
<1>2. IsWellFoundedOn(R, Nat)
  BY <1>1, NatLessThanWellFounded
<1>3. PICK x \in T : \A y \in T : ~ (<<y, x>> \in R)
  BY <1>2, WFMin
<1>4. ASSUME NEW y \in T PROVE x <= y
  <2>1. x \in Nat /\ y \in Nat
    OBVIOUS
  <2>2. ~ (y < x)
    BY <1>3, <2>1
  <2>. QED  BY <2>1, <2>2
<1>. QED  BY <1>4

LEMMA GreatestNumber ==
  ASSUME NEW n \in Nat, NEW T, T \subseteq 0 .. n, T # {}
  PROVE  \E x \in T : \A y \in T : y <= x
<1>. DEFINE U == {n - x : x \in T}
<1>1. U \subseteq Nat /\ U # {}
  <2>1. \A x \in T : n - x \in Nat
    OBVIOUS
  <2>. QED  BY <2>1
<1>2. PICK u \in U : \A v \in U : u <= v
  BY <1>1, LeastNumber
<1>3. PICK x \in T : u = n - x
  OBVIOUS
<1>4. \A y \in T : n - x <= n - y
  BY <1>2, <1>3
<1>5. \A y \in T : y <= x
  BY <1>4
<1>. QED  BY <1>5

-----------------------------------------------------------------------------
(* Types.                                                                  *)

Writes == {"register", "heartbeat", "metric"}

\* What a call that waits for its turn has, and one that reads the row again.
LEMMA CallFields ==
  ASSUME TypeOK, NEW t \in Threads
  PROVE  /\ call[t].op \in Writes => call[t].node \in Nodes /\ call[t].stamp \in Times
         /\ call[t].op = "reread" => call[t].node \in Nodes
         /\ call[t] = Idle \/ call[t].op \in Writes \/ call[t].op = "reread"
         /\ Idle.op = "idle"
BY DEF TypeOK, Calls, Idle, Writes

LEMMA ReadFields ==
  ASSUME TypeOK
  PROVE  /\ get.stage \in {"sample", "judge"} =>
              get.node \in Nodes /\ get.seen \in Times
         /\ get.stage = "history" => get.node \in Nodes /\ get.since \in Int
         /\ get = NoRead \/ get.stage \in {"sample", "judge", "history"}
         /\ NoRead.stage = "idle"
BY DEF TypeOK, Reads, NoRead

LEMMA TypeInit == Init => TypeOK
<1>. SUFFICES ASSUME Init PROVE TypeOK
  OBVIOUS
<1>1. overtaken \in BOOLEAN
  BY DEF Init
<1>2. 0 \in Times /\ 0 \in 0 .. MaxRestarts /\ Idle \in Calls /\ NoRead \in Reads
  BY RegistryAssumption DEF Times, Calls, Reads
<1>3. Idle.op # "reread"
  BY DEF Idle
<1>. QED  BY <1>1, <1>2, <1>3 DEF Init, TypeOK

\* A thread's call goes on to c.
LEMMA CallMoves ==
  ASSUME TypeOK, NEW t \in Threads, NEW c \in Calls, call[t] # Idle \/ process = "up",
         call' = [call EXCEPT ![t] = c],
         c.op = "reread" => c.node \in registered',
         registered \subseteq registered',
         UNCHANGED <<process, get>>
  PROVE  /\ call' \in [Threads -> Calls]
         /\ process' # "up" => get' = NoRead /\ \A u \in Threads : call'[u] = Idle
         /\ \A u \in Threads : call'[u].op = "reread" => call'[u].node \in registered'
BY DEF TypeOK

LEMMA WriteTypes ==
  ASSUME TypeOK, NEW t \in Threads,
         \/ \E op \in Writes, n \in Nodes : Enter(t, op, n)
         \/ Register(t) \/ Reread(t) \/ Heartbeat(t) \/ Unknown(t)
         \/ \E at \in Times : AddMetric(t, at)
  PROVE  TypeOK'
<1>. USE DEF Writes
<1>1. ASSUME NEW n \in Nodes, NEW stamp \in Times, Touch(n, stamp)
      PROVE  /\ seen' \in [Nodes -> Times] /\ contact' \in [Nodes -> Times]
             /\ overtaken' \in BOOLEAN
  <2>1. seen' \in [Nodes -> Times] /\ contact' \in [Nodes -> Times]
    BY <1>1 DEF Touch, Heard, TypeOK
  <2>2. overtaken' \in BOOLEAN
    BY <1>1 DEF Touch, Heard
  <2>. QED  BY <2>1, <2>2
<1>2. Idle \in Calls /\ Idle.op = "idle"
  BY DEF Calls, Idle
<1>3. ASSUME NEW op \in Writes, NEW n \in Nodes, Enter(t, op, n) PROVE TypeOK'
  <2>. DEFINE c == [op |-> op, node |-> n, stamp |-> now]
  <2>1. c \in Calls /\ c.op # "reread"
    BY <1>3 DEF Calls, TypeOK
  <2>2. /\ call' = [call EXCEPT ![t] = c] /\ process = "up"
        /\ UNCHANGED <<now, database, process, get, task, cutoff, restarts, history>>
    BY <1>3 DEF Enter
  <2>. HIDE DEF c
  <2>. QED  BY <2>1, <2>2, CallMoves DEF TypeOK, database, history
<1>4. CASE Register(t)
  <2>. DEFINE c == [op |-> "reread", node |-> call[t].node]
  <2>1. call[t].node \in Nodes /\ call[t].stamp \in Times /\ call[t] # Idle
    BY <1>2, <1>4, CallFields DEF Register
  <2>2. c \in Calls /\ c.op = "reread" /\ c.node = call[t].node
    BY <2>1 DEF Calls
  <2>3. /\ call' = [call EXCEPT ![t] = c]
        /\ registered' = registered \union {call[t].node}
        /\ UNCHANGED <<now, samples, process, get, task, cutoff, restarts>>
    BY <1>4 DEF Register
  <2>. HIDE DEF c
  <2>4. /\ call' \in [Threads -> Calls]
        /\ process' # "up" => get' = NoRead /\ \A u \in Threads : call'[u] = Idle
        /\ \A u \in Threads : call'[u].op = "reread" => call'[u].node \in registered'
    BY <2>1, <2>2, <2>3, CallMoves
  <2>5. /\ seen' \in [Nodes -> Times] /\ contact' \in [Nodes -> Times]
        /\ overtaken' \in BOOLEAN
    BY <1>1, <1>4, <2>1 DEF Register
  <2>. QED  BY <2>1, <2>3, <2>4, <2>5 DEF TypeOK
<1>5. CASE Reread(t) \/ Unknown(t)
  <2>1. /\ call' = [call EXCEPT ![t] = Idle] /\ call[t] # Idle
        /\ UNCHANGED <<now, database, process, get, task, cutoff, restarts, history>>
    BY <1>2, <1>5 DEF Reread, Unknown
  <2>. QED  BY <1>2, <2>1, CallMoves DEF TypeOK, database, history
<1>6. CASE Heartbeat(t) \/ \E at \in Times : AddMetric(t, at)
  <2>1. call[t].node \in Nodes /\ call[t].stamp \in Times /\ call[t] # Idle
    BY <1>2, <1>6, CallFields DEF Heartbeat, AddMetric
  <2>2. /\ call' = [call EXCEPT ![t] = Idle] /\ Touch(call[t].node, call[t].stamp)
        /\ UNCHANGED <<now, registered, process, get, task, cutoff, restarts>>
    BY <1>6 DEF Heartbeat, AddMetric
  <2>3. samples' \in [Nodes -> SUBSET Times]
    BY <1>6, <2>1 DEF Heartbeat, AddMetric, TypeOK
  <2>4. /\ seen' \in [Nodes -> Times] /\ contact' \in [Nodes -> Times]
        /\ overtaken' \in BOOLEAN
    BY <1>1, <2>1, <2>2
  <2>5. /\ call' \in [Threads -> Calls]
        /\ process' # "up" => get' = NoRead /\ \A u \in Threads : call'[u] = Idle
        /\ \A u \in Threads : call'[u].op = "reread" => call'[u].node \in registered'
    BY <1>2, <2>1, <2>2, CallMoves
  <2>. QED  BY <2>2, <2>3, <2>4, <2>5 DEF TypeOK
<1>. QED  BY <1>3, <1>4, <1>5, <1>6

LEMMA ReadTypes ==
  ASSUME TypeOK,
         \/ \E n \in Nodes : ReadRow(n) \/ \E window \in 1 .. MaxTime : FindNode(n, window)
         \/ ReadLatest \/ Respond
  PROVE  TypeOK'
<1>. SUFFICES ASSUME get' \in Reads, process = "up" PROVE TypeOK'
  <2>1. process = "up"
    BY ReadFields DEF ReadRow, FindNode, ReadLatest, Respond, TypeOK
  <2>2. ASSUME NEW n \in Nodes, ReadRow(n) PROVE get' \in Reads
    BY <2>2 DEF ReadRow, Reads, TypeOK
  <2>3. ASSUME NEW n \in Nodes, NEW window \in 1 .. MaxTime, FindNode(n, window)
        PROVE  get' \in Reads
    <3>1. now - window \in Int
      BY RegistryAssumption DEF TypeOK, Times
    <3>. QED  BY <2>3, <3>1 DEF FindNode, Reads
  <2>4. ASSUME ReadLatest PROVE get' \in Reads
    BY <2>4 DEF ReadLatest, Reads, TypeOK, NoRead
  <2>5. ASSUME Respond PROVE get' \in Reads
    BY <2>5 DEF Respond, Reads
  <2>. QED  BY <2>1, <2>2, <2>3, <2>4, <2>5
<1>1. UNCHANGED <<now, database, process, call, task, cutoff, restarts, contact>>
  BY DEF ReadRow, FindNode, ReadLatest, Respond, history
<1>2. overtaken' \in BOOLEAN
  BY DEF ReadRow, FindNode, ReadLatest, Respond, history, TypeOK
<1>. QED  BY <1>1, <1>2 DEF TypeOK, database

\* A process that ends is one of the MaxRestarts.
Ending == process # "up" => restarts < MaxRestarts

LEMMA EndingStep == TypeOK /\ Ending /\ [Next]_vars => Ending'
BY DEF TypeOK, Ending, Next, vars, Enter, Register, Reread, Heartbeat, AddMetric, Unknown,
       ReadRow, FindNode, ReadLatest, Respond, WakeUp, Prune, PruneFails, Shutdown,
       Close, Kill, Boot, Tick

LEMMA ProcessTypes ==
  ASSUME TypeOK, Ending,
         \/ WakeUp \/ Prune \/ PruneFails
         \/ Shutdown \/ Close \/ Kill \/ Boot \/ Tick
  PROVE  TypeOK'
<1>. USE RegistryAssumption DEF database, history
<1>1. CASE WakeUp
  BY <1>1 DEF WakeUp, TypeOK, Times
<1>2. CASE Prune
  BY <1>2 DEF Prune, TypeOK
<1>3. CASE PruneFails \/ Close
  BY <1>3 DEF PruneFails, Close, TypeOK
<1>4. CASE Shutdown
  BY <1>4 DEF Shutdown, TypeOK
<1>5. CASE Kill
  <2>1. Idle \in Calls /\ Idle.op # "reread" /\ NoRead \in Reads
    BY DEF Calls, Idle, Reads
  <2>. QED  BY <1>5, <2>1 DEF Kill, TypeOK
<1>6. CASE Boot
  BY <1>6 DEF Boot, TypeOK, Ending
<1>7. CASE Tick
  BY <1>7 DEF Tick, TypeOK, Times
<1>. QED  BY <1>1, <1>2, <1>3, <1>4, <1>5, <1>6, <1>7

LEMMA TypeStep == TypeOK /\ Ending /\ [Next]_vars => TypeOK'
<1>1. CASE UNCHANGED vars
  BY <1>1 DEF TypeOK, vars, database, history
<1>. QED  BY <1>1, WriteTypes, ReadTypes, ProcessTypes DEF Next, Writes

\* A call that waits has a node and a time, a process that is going down has no
\* call and no read left, and what is read again is there.  (Store.register)
THEOREM TypeCorrect == Spec => []TypeOK
<1>1. Init => TypeOK /\ Ending
  BY TypeInit DEF Init, Ending
<1>. QED  BY <1>1, TypeStep, EndingStep, PTL DEF Spec

-----------------------------------------------------------------------------
(* Timestamps.                                                             *)

\* A call waits for its turn no longer than MaxWait, and no write that was
\* committed is from the future.
Stamps ==
  /\ \A t \in Threads : call[t].op \in Writes =>
       call[t].stamp <= now /\ now - MaxWait <= call[t].stamp
  /\ \A n \in Nodes : contact[n] <= now

\* last_seen is at most one wait behind the latest write, and never before it.
Lags == \A n \in Nodes : contact[n] - MaxWait <= seen[n] /\ seen[n] <= contact[n]

\* What a read has copied is no later than the latest write, and lags no more than a
\* wait behind it unless a write came after the copy.
Copied ==
  get.stage \in {"sample", "judge"} =>
    /\ get.seen <= contact[get.node]
    /\ contact[get.node] - MaxWait <= get.seen \/ overtaken

\* The thread that prunes has its cutoff from before.
Cutoff == task \in {"prune", "orphan"} => cutoff <= now - Retention

Honest == TypeOK /\ Ending /\ Stamps /\ Lags /\ Copied /\ Cutoff

\* The numbers that are compared.
LEMMA Numbers ==
  ASSUME TypeOK
  PROVE  /\ now \in Nat /\ now <= MaxTime /\ MaxWait \in Nat /\ Retention \in Nat
         /\ cutoff \in Int
         /\ \A n \in Nodes : seen[n] \in Nat /\ contact[n] \in Nat
         /\ \A t \in Threads : call[t].op \in Writes => call[t].stamp \in Nat
BY CallFields, RegistryAssumption DEF TypeOK, Times

LEMMA StampsStep == TypeOK /\ Stamps /\ [Next]_vars => Stamps'
<1>. SUFFICES ASSUME TypeOK, Stamps, [Next]_vars PROVE Stamps'
  OBVIOUS
<1>. USE Numbers DEF Writes, Idle
<1>1. ASSUME NEW t \in Threads, NEW n \in Nodes, NEW op \in Writes, Enter(t, op, n)
      PROVE  Stamps'
  <2>. DEFINE c == [op |-> op, node |-> n, stamp |-> now]
  <2>1. /\ call' = [call EXCEPT ![t] = c] /\ now' = now /\ contact' = contact
        /\ c.stamp = now
    BY <1>1 DEF Enter, history
  <2>. HIDE DEF c
  <2>2. \A u \in Threads : call'[u] = IF u = t THEN c ELSE call[u]
    BY <2>1 DEF TypeOK
  <2>. QED  BY <2>1, <2>2 DEF Stamps
<1>2. ASSUME NEW t \in Threads, NEW n \in Nodes, NEW c, c.op \notin Writes,
             call[t].op \in Writes, n = call[t].node,
             call' = [call EXCEPT ![t] = c], now' = now, Touch(n, call[t].stamp)
      PROVE  Stamps'
  <2>1. \A u \in Threads : call'[u] = IF u = t THEN c ELSE call[u]
    BY <1>2 DEF TypeOK
  <2>2. call[t].stamp <= now
    BY <1>2 DEF Stamps
  <2>3. \A m \in Nodes : contact'[m] = contact[m] \/ contact'[m] = call[t].stamp
    BY <1>2 DEF Touch, Heard, TypeOK
  <2>4. \A m \in Nodes : contact'[m] <= now
    BY <2>2, <2>3 DEF Stamps
  <2>. QED  BY <1>2, <2>1, <2>4 DEF Stamps
<1>3. ASSUME NEW t \in Threads, Register(t) PROVE Stamps'
  <2>. DEFINE c == [op |-> "reread", node |-> call[t].node]
  <2>1. c.op \notin Writes /\ call[t].op \in Writes /\ call[t].node \in Nodes
    BY <1>3, CallFields DEF Register
  <2>2. call' = [call EXCEPT ![t] = c] /\ now' = now /\ Touch(call[t].node, call[t].stamp)
    BY <1>3 DEF Register
  <2>. HIDE DEF c
  <2>. QED  BY <1>2, <2>1, <2>2
<1>4. ASSUME NEW t \in Threads, Heartbeat(t) \/ \E at \in Times : AddMetric(t, at)
      PROVE  Stamps'
  <2>1. call[t].op \in Writes /\ call[t].node \in Nodes /\ Idle.op \notin Writes
    BY <1>4, CallFields DEF Heartbeat, AddMetric
  <2>2. call' = [call EXCEPT ![t] = Idle] /\ now' = now /\ Touch(call[t].node, call[t].stamp)
    BY <1>4 DEF Heartbeat, AddMetric
  <2>. QED  BY <1>2, <2>1, <2>2
<1>5. ASSUME NEW t \in Threads, Reread(t) \/ Unknown(t) PROVE Stamps'
  <2>1. /\ \A u \in Threads : call'[u] = IF u = t THEN Idle ELSE call[u]
        /\ now' = now /\ contact' = contact
    BY <1>5 DEF Reread, Unknown, TypeOK, history
  <2>. QED  BY <2>1 DEF Stamps
<1>6. CASE Tick
  <2>1. now' = now + 1 /\ call' = call /\ contact' = contact
    BY <1>6 DEF Tick, history
  <2>2. \A t \in Threads : call[t].op \in Writes => now - call[t].stamp < MaxWait
    BY <1>6 DEF Tick
  <2>3. \A t \in Threads : call[t].op \in Writes =>
          call[t].stamp <= now + 1 /\ (now + 1) - MaxWait <= call[t].stamp
    BY <2>2 DEF Stamps
  <2>4. \A n \in Nodes : contact[n] <= now + 1
    BY DEF Stamps
  <2>. QED  BY <2>1, <2>3, <2>4 DEF Stamps
<1>7. CASE Kill
  BY <1>7 DEF Kill, Stamps, history
<1>8. ASSUME UNCHANGED <<now, call, contact>> PROVE Stamps'
  BY <1>8 DEF Stamps
<1>. QED  BY <1>1, <1>3, <1>4, <1>5, <1>6, <1>7, <1>8
          DEF Next, vars, history, ReadRow, FindNode, ReadLatest, Respond, WakeUp, Prune,
              PruneFails, Shutdown, Close, Boot

LEMMA LagsStep == TypeOK /\ Stamps /\ Lags /\ [Next]_vars => Lags'
<1>. SUFFICES ASSUME TypeOK, Stamps, Lags, [Next]_vars PROVE Lags'
  OBVIOUS
<1>. USE Numbers
<1>1. ASSUME NEW t \in Threads, call[t].op \in Writes, Touch(call[t].node, call[t].stamp)
      PROVE  Lags'
  <2>. DEFINE n == call[t].node
              s == call[t].stamp
  <2>1. n \in Nodes /\ s \in Nat /\ s <= now /\ now - MaxWait <= s
    BY <1>1, CallFields DEF Stamps
  <2>2. \A m \in Nodes \ {n} : seen'[m] = seen[m] /\ contact'[m] = contact[m]
    BY <1>1 DEF Touch, Heard, TypeOK
  <2>3. seen'[n] = s /\ contact'[n] = IF s > contact[n] THEN s ELSE contact[n]
    BY <1>1, <2>1 DEF Touch, Heard, TypeOK
  <2>4. contact[n] \in Nat /\ contact[n] <= now
    BY <2>1 DEF Stamps
  <2>. HIDE DEF n, s
  <2>5. contact'[n] - MaxWait <= seen'[n] /\ seen'[n] <= contact'[n]
    BY <2>1, <2>3, <2>4
  <2>. QED  BY <2>2, <2>5 DEF Lags
<1>2. ASSUME UNCHANGED <<seen, contact>> PROVE Lags'
  BY <1>2 DEF Lags
<1>. QED  BY <1>1, <1>2
          DEF Next, vars, database, history, Writes, Enter, Register, Reread, Heartbeat, AddMetric,
              Unknown, ReadRow, FindNode, ReadLatest, Respond, WakeUp, Prune, PruneFails,
              Shutdown, Close, Kill, Boot, Tick

LEMMA CopiedStep == TypeOK /\ Lags /\ Copied /\ [Next]_vars => Copied'
<1>. SUFFICES ASSUME TypeOK, Lags, Copied, [Next]_vars PROVE Copied'
  OBVIOUS
<1>1. ASSUME NEW n \in Nodes, ReadRow(n) PROVE Copied'
  <2>1. get'.seen = seen[n] /\ get'.node = n /\ contact' = contact
    BY <1>1 DEF ReadRow
  <2>. QED  BY <2>1 DEF Copied, Lags
<1>2. CASE ReadLatest
  <2>1. /\ get.stage = "sample" /\ get'.seen = get.seen /\ get'.node = get.node
        /\ UNCHANGED <<contact, overtaken>>
    BY <1>2 DEF ReadLatest, TypeOK, Reads, NoRead, history
  <2>. QED  BY <2>1 DEF Copied
<1>3. ASSUME get'.stage \notin {"sample", "judge"} PROVE Copied'
  BY <1>3 DEF Copied
<1>4. ASSUME UNCHANGED <<get, contact, overtaken>> PROVE Copied'
  BY <1>4 DEF Copied
<1>6. ASSUME NEW n \in Nodes, NEW stamp \in Nat, Heard(n, stamp), UNCHANGED get PROVE Copied'
  <2>. SUFFICES ASSUME get.stage \in {"sample", "judge"}
                PROVE  /\ get.seen <= contact'[get.node]
                       /\ contact'[get.node] - MaxWait <= get.seen \/ overtaken'
    BY <1>6 DEF Copied
  <2>1. get.node \in Nodes /\ get.seen \in Nat
    BY ReadFields DEF Times
  <2>2. contact[get.node] \in Nat
    BY <2>1, Numbers
  <2>3. CASE get.node = n
    <3>1. overtaken'
      BY <1>6, <2>3 DEF Heard, Viewing
    <3>2. contact'[n] = IF stamp > contact[n] THEN stamp ELSE contact[n]
      BY <1>6 DEF Heard, TypeOK
    <3>. QED  BY <2>1, <2>2, <2>3, <3>1, <3>2 DEF Copied
  <2>4. CASE get.node # n
    <3>1. contact'[get.node] = contact[get.node] /\ (overtaken => overtaken')
      BY <1>6, <2>1, <2>4 DEF Heard, TypeOK
    <3>. QED  BY <3>1 DEF Copied
  <2>. QED  BY <2>3, <2>4
<1>7. ASSUME NEW t \in Threads,
             Register(t) \/ Heartbeat(t) \/ \E at \in Times : AddMetric(t, at)
      PROVE  Copied'
  <2>1. call[t].node \in Nodes /\ call[t].stamp \in Nat
    BY <1>7, CallFields DEF Register, Heartbeat, AddMetric, Writes, Times
  <2>2. Heard(call[t].node, call[t].stamp) /\ UNCHANGED get
    BY <1>7 DEF Register, Heartbeat, AddMetric, Touch
  <2>. QED  BY <1>6, <2>1, <2>2
<1>5. CASE Respond \/ Kill \/ \E n \in Nodes, window \in 1 .. MaxTime : FindNode(n, window)
  BY <1>3, <1>5 DEF Respond, Kill, FindNode, NoRead
<1>. QED  BY <1>1, <1>2, <1>4, <1>5, <1>7
          DEF Next, vars, history, Enter, Reread, Unknown,
              WakeUp, Prune, PruneFails, Shutdown, Close, Boot, Tick

LEMMA CutoffStep == TypeOK /\ Cutoff /\ [Next]_vars => Cutoff'
<1>. SUFFICES ASSUME TypeOK, Cutoff, [Next]_vars PROVE Cutoff'
  OBVIOUS
<1>. USE Numbers
<1>1. CASE WakeUp
  BY <1>1 DEF WakeUp, Cutoff
<1>2. CASE Shutdown
  BY <1>2 DEF Shutdown, Cutoff
<1>3. CASE Tick
  BY <1>3 DEF Tick, Cutoff
<1>4. CASE Prune \/ PruneFails \/ Close \/ Kill \/ Boot
  BY <1>4 DEF Prune, PruneFails, Close, Kill, Boot, Cutoff
<1>5. ASSUME UNCHANGED <<now, task, cutoff>> PROVE Cutoff'
  BY <1>5 DEF Cutoff
<1>. QED  BY <1>1, <1>2, <1>3, <1>4, <1>5
          DEF Next, vars, Enter, Register, Reread, Heartbeat, AddMetric, Unknown,
              ReadRow, FindNode, ReadLatest, Respond

LEMMA HonestHolds == Spec => []Honest
<1>1. Init => Honest
  <2>. SUFFICES ASSUME Init PROVE Honest
    OBVIOUS
  <2>. USE RegistryAssumption DEF Init
  <2>1. TypeOK /\ Ending
    BY TypeInit DEF Ending
  <2>2. Stamps
    BY DEF Stamps, Idle, Writes
  <2>3. Lags
    BY DEF Lags
  <2>4. Copied /\ Cutoff
    BY DEF Copied, Cutoff, NoRead
  <2>. QED  BY <2>1, <2>2, <2>3, <2>4 DEF Honest
<1>2. Honest /\ [Next]_vars => Honest'
  BY TypeStep, EndingStep, StampsStep, LagsStep, CopiedStep, CutoffStep DEF Honest
<1>. QED  BY <1>1, <1>2, PTL DEF Spec

\* In whatever order the threads have their turn, last_seen is not further behind
\* the latest committed write than a thread waits.  (Store.register, heartbeat,
\* add_metric)
THEOREM SeenLagsLittleHolds == Spec => []SeenLagsLittle
<1>1. Honest => SeenLagsLittle
  BY DEF Honest, Lags, SeenLagsLittle, TypeOK
<1>. QED  BY <1>1, HonestHolds, PTL

\* At its judgement no view calls a node online that was not heard of within the
\* timeout, and what calls one OFFLINE that was heard of more than a wait inside it is
\* a write that was committed after the row was read, and nothing else.  (_node_view)
THEOREM StatusIsHonestHolds == Spec => []StatusIsHonest
<1>1. Honest => StatusIsHonest
  <2>. SUFFICES ASSUME Honest, get.stage = "judge"
                PROVE  /\ ~Offline => now - contact[get.node] <= OfflineTimeout
                       /\ Offline => \/ now - contact[get.node] > OfflineTimeout - MaxWait
                                     \/ overtaken
    BY DEF StatusIsHonest
  <2>1. /\ get.seen <= contact[get.node]
        /\ contact[get.node] - MaxWait <= get.seen \/ overtaken
    BY DEF Honest, Copied
  <2>2. get.seen \in Nat /\ contact[get.node] \in Nat
    BY ReadFields, Numbers DEF Honest, Times
  <2>. QED  BY <2>1, <2>2, Numbers, OfflineTimeoutAssumption DEF Honest, Offline, Expired
<1>. QED  BY <1>1, HonestHolds, PTL

\* Nothing within the retention time is deleted, whenever the thread has its turn.
\* (maintenance, Store.prune, lifespan)
THEOREM PruneSparesWindowHolds == Spec => PruneSparesWindow
<1>1. Honest /\ [Next]_vars
        => [\A n \in Nodes : \A s \in samples[n] \ samples'[n] : s < now - Retention]_vars
  <2>. SUFFICES ASSUME Honest, Next, NEW n \in Nodes, NEW s \in samples[n] \ samples'[n]
                PROVE  s < now - Retention
    OBVIOUS
  <2>1. CASE Prune
    <3>1. cutoff <= now - Retention
      BY <2>1 DEF Prune, Honest, Cutoff
    <3>2. s < cutoff /\ s \in Nat
      BY <2>1 DEF Prune, Honest, TypeOK, Times
    <3>. QED  BY <3>1, <3>2, Numbers DEF Honest
  <2>2. ASSUME NEW t \in Threads, NEW at \in Times, AddMetric(t, at) PROVE FALSE
    BY <2>2 DEF AddMetric, Honest, TypeOK
  <2>3. samples' # samples
    OBVIOUS
  <2>. QED  BY <2>1, <2>2, <2>3
            DEF Next, database, Enter, Register, Reread, Heartbeat, Unknown, ReadRow,
                FindNode, ReadLatest, Respond, WakeUp, PruneFails, Shutdown, Close,
                Kill, Boot, Tick
<1>. QED  BY <1>1, HonestHolds, PTL DEF Spec, PruneSparesWindow

-----------------------------------------------------------------------------
(* Histories.                                                              *)

LEMMA FiniteSamples ==
  ASSUME TypeOK, NEW n \in Nodes, NEW T \in SUBSET samples[n]
  PROVE  /\ T \subseteq 0 .. MaxTime
         /\ IsFiniteSet(T) /\ Cardinality(T) \in Nat
<1>1. T \subseteq 0 .. MaxTime
  BY DEF TypeOK, Times
<1>2. IsFiniteSet(0 .. MaxTime)
  <2>1. 0 \in Int /\ MaxTime \in Int
    BY RegistryAssumption
  <2>. QED  BY <2>1, FS_Interval
<1>. QED  BY <1>1, <1>2, FS_Subset, FS_CardinalityType

\* A history goes on to the end: with a sample it has all that are newer.
LEMMA HistoryHasNoHole ==
  ASSUME TypeOK, NEW n \in Nodes, NEW since \in Int,
         NEW s \in History(n, since), NEW q \in samples[n], since <= q, q > s
  PROVE  q \in History(n, since)
<1>1. s \in Times /\ q \in Times
  BY DEF TypeOK, History
<1>2. Newer(n, q) \subseteq Newer(n, s)
  BY <1>1 DEF Newer, TypeOK, Times
<1>3. Newer(n, s) \in SUBSET samples[n] /\ Newer(n, q) \in SUBSET samples[n]
  BY DEF Newer
<1>4. IsFiniteSet(Newer(n, s)) /\ Cardinality(Newer(n, s)) \in Nat
      /\ Cardinality(Newer(n, q)) \in Nat
  BY <1>3, FiniteSamples
<1>5. Cardinality(Newer(n, q)) <= Cardinality(Newer(n, s))
  BY <1>2, <1>4, FS_Subset
<1>6. Cardinality(Newer(n, s)) < Limit
  BY DEF History
<1>. QED  BY <1>4, <1>5, <1>6, RegistryAssumption DEF History

\* It ends with the newest sample.
LEMMA HistoryHasNewest ==
  ASSUME TypeOK, NEW n \in Nodes, NEW since \in Int,
         {s \in samples[n] : since <= s} # {}
  PROVE  History(n, since) # {}
<1>. DEFINE W == {s \in samples[n] : since <= s}
<1>1. W \subseteq 0 .. MaxTime /\ W # {} /\ MaxTime \in Nat
  BY RegistryAssumption DEF TypeOK, Times
<1>2. PICK x \in W : \A y \in W : y <= x
  BY <1>1, GreatestNumber
<1>3. x \in Nat /\ since <= x
  BY <1>1, <1>2
<1>4. Newer(n, x) = {}
  <2>1. ASSUME NEW y \in samples[n], y > x PROVE FALSE
    <3>1. y \in Nat
      BY DEF TypeOK, Times
    <3>2. y \in W
      BY <1>3, <2>1, <3>1
    <3>. QED  BY <1>2, <1>3, <2>1, <3>1, <3>2
  <2>. QED  BY <2>1 DEF Newer
<1>5. Cardinality(Newer(n, x)) < Limit
  BY <1>4, FS_EmptySet, RegistryAssumption
<1>. QED  BY <1>2, <1>5 DEF History

\* It has its oldest sample and what is newer, which is less than Limit.
LEMMA HistoryWithinLimit ==
  ASSUME TypeOK, NEW n \in Nodes, NEW since \in Int
  PROVE  Cardinality(History(n, since)) <= Limit
<1>. DEFINE H == History(n, since)
<1>1. H \in SUBSET samples[n] /\ H \subseteq Nat
  BY DEF History, TypeOK, Times
<1>2. CASE H = {}
  BY <1>2, FS_EmptySet, RegistryAssumption
<1>3. CASE H # {}
  <2>1. PICK x \in H : \A y \in H : x <= y
    BY <1>1, <1>3, LeastNumber
  <2>. DEFINE N == Newer(n, x)
  <2>2. N \in SUBSET samples[n] /\ Cardinality(N) < Limit
    BY DEF History, Newer
  <2>3. H \subseteq N \union {x}
    BY <1>1, <2>1 DEF History, Newer
  <2>4. IsFiniteSet(N) /\ Cardinality(N) \in Nat /\ Cardinality(H) \in Nat
    BY <1>1, <2>2, FiniteSamples
  <2>. HIDE DEF H, N
  <2>5. /\ IsFiniteSet(N \union {x})
        /\ Cardinality(N \union {x}) =
              IF x \in N THEN Cardinality(N) ELSE Cardinality(N) + 1
    BY <2>4, FS_AddElement
  <2>6. Cardinality(N \union {x}) \in Nat
    BY <2>5, FS_CardinalityType
  <2>7. Cardinality(H) <= Cardinality(N \union {x})
    BY <2>3, <2>5, FS_Subset
  <2>8. Cardinality(H) <= Limit
    BY <2>2, <2>4, <2>5, <2>6, <2>7, RegistryAssumption
  <2>. QED  BY <2>8 DEF H
<1>. QED  BY <1>2, <1>3

\* A history of any limit has no hole, ends with the newest sample of its window
\* and is no longer than its limit.  (Store.metric_history)
THEOREM HistoryIsRecentHolds == Spec => []HistoryIsRecent
<1>1. TypeOK => HistoryIsRecent
  <2>. SUFFICES ASSUME TypeOK, get.stage = "history" PROVE HistoryIsRecent
    BY DEF HistoryIsRecent
  <2>1. get.node \in Nodes /\ get.since \in Int
    BY ReadFields
  <2>2. \A s \in History(get.node, get.since) :
        \A q \in {x \in samples[get.node] : get.since <= x} :
          q > s => q \in History(get.node, get.since)
    BY <2>1, HistoryHasNoHole
  <2>. QED  BY <2>1, <2>2, HistoryHasNewest, HistoryWithinLimit DEF HistoryIsRecent
<1>. QED  BY <1>1, TypeCorrect, PTL
=============================================================================
