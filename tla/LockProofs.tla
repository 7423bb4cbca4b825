------------------------------ MODULE LockProofs ------------------------------
(* Proofs about the two kinds of advisory locks, for any threads, workers and *)
(* messages.  RunLock: the lock of a run.  StageLocks: a lock taken on a      *)
(* pooled connection keeps every other worker out of the stage it protects,   *)
(* is taken in the documented order, and is gone when an actor of a single    *)
(* stage returns; an invocation has at most two connections.                  *)
EXTENDS RunLock, StageLocks, SequenceTheorems, TLAPS

-----------------------------------------------------------------------------
(* The lock of a run.                                                         *)

LockInv == LockTypeOK /\ ConnectedIsOwner

LEMMA LockInit == InitLock => LockInv
  BY OwnerAssumption, LossAssumption DEF InitLock, LockInv, LockTypeOK, ConnectedIsOwner

LEMMA LockStep == LockInv /\ [NextLock]_lockVars => LockInv'
<1> SUFFICES ASSUME LockInv, [NextLock]_lockVars PROVE LockInv'
  OBVIOUS
<1> USE OwnerAssumption, LossAssumption DEF LockInv, LockTypeOK, ConnectedIsOwner
<1>1. ASSUME NEW w \in Threads, Start(w) PROVE LockInv'
  BY <1>1 DEF Start, Idle
<1>2. ASSUME NEW w \in Threads, DropConnection(w) PROVE LockInv'
  BY <1>2 DEF DropConnection
<1>3. ASSUME NEW w \in Threads, Finish(w) PROVE LockInv'
  BY <1>3 DEF Finish
<1>4. ASSUME NEW r \in Requests, Probe(r) PROVE LockInv'
  BY <1>4 DEF Probe
<1>5. ASSUME NEW r \in Requests, LetGo(r) PROVE LockInv'
  BY <1>5 DEF LetGo
<1>6. ASSUME NEW r \in Requests, Enqueue(r) \/ Reply(r) PROVE LockInv'
  BY <1>6 DEF Enqueue, Reply
<1>7. CASE UNCHANGED lockVars
  BY <1>7 DEF lockVars
<1> QED
  BY <1>1, <1>2, <1>3, <1>4, <1>5, <1>6, <1>7 DEF NextLock

(***************************************************************************)
(* A worker or a probe with its connection owns the lock, and nothing else *)
(* does: probes and second deliveries never take a connected worker's lock *)
(* (held_advisory_lock, is_advisory_lock_free).                            *)
(***************************************************************************)
THEOREM ConnectionOwns == LockSpec => []ConnectedIsOwner
<1>1. LockInv => ConnectedIsOwner
  BY DEF LockInv
<1> QED
  BY LockInit, LockStep, <1>1, PTL DEF LockSpec

-----------------------------------------------------------------------------
(* Each step starts one connected worker, stops the only one, or changes   *)
(* nothing the abstract specification sees.                                *)
LEMMA StepRefines ==
  ASSUME LockInv, [NextLock]_lockVars
  PROVE  [Exclusive!Next]_Connected
<1>1. \A w \in Connected : owner = w
  BY DEF LockInv, ConnectedIsOwner, Connected
<1>2. /\ Nobody \notin Threads /\ connection \in [Threads -> {"none", "open", "dropped"}]
      /\ Connected \subseteq Threads
  BY OwnerAssumption DEF LockInv, LockTypeOK, Connected
<1>3. ASSUME NEW w \in Threads, Start(w) PROVE [Exclusive!Next]_Connected
  <2>1. CASE owner = Nobody
    <3>1. Connected = {}
      BY <1>1, <1>2, <2>1
    <3>2. connection' = [connection EXCEPT ![w] = "open"]
      BY <1>3, <2>1 DEF Start
    <3>3. Connected' = {w}
      BY <1>2, <3>1, <3>2 DEF Connected
    <3> QED
      BY <3>1, <3>3 DEF Exclusive!Next, Exclusive!Start, Connected
  <2>2. CASE owner # Nobody
    BY <1>3, <2>2 DEF Start, Connected
  <2> QED
    BY <2>1, <2>2
<1>4. ASSUME NEW w \in Threads, NEW c \in {"none", "dropped"},
             connection' = [connection EXCEPT ![w] = c]
      PROVE  [Exclusive!Next]_Connected
  <2>1. Connected' = Connected \ {w}
    BY <1>2, <1>4 DEF Connected
  <2>2. CASE w \in Connected
    <3>1. Connected = {w} /\ Connected' = {}
      BY <1>1, <2>1, <2>2
    <3> QED
      BY <3>1 DEF Exclusive!Next, Exclusive!Stop, Connected
  <2>3. CASE w \notin Connected
    BY <2>1, <2>3
  <2> QED
    BY <2>2, <2>3
<1>5. ASSUME NEW w \in Threads, Finish(w) \/ DropConnection(w)
      PROVE  [Exclusive!Next]_Connected
  BY <1>4, <1>5 DEF Finish, DropConnection
<1>6. ASSUME NEW r \in Requests, Probe(r) \/ LetGo(r) \/ Enqueue(r) \/ Reply(r)
      PROVE  [Exclusive!Next]_Connected
  BY <1>6 DEF Probe, LetGo, Enqueue, Reply, Connected
<1>7. CASE UNCHANGED lockVars
  BY <1>7 DEF lockVars, Connected
<1> QED
  BY <1>3, <1>5, <1>6, <1>7 DEF NextLock

(***************************************************************************)
(* However often the database drops a connection, sessions, messages and   *)
(* probes together implement exclusive execution by connected workers.     *)
(***************************************************************************)
THEOREM LockIsExclusive == LockSpec => ImplementsExclusiveRun
<1>1. InitLock => Exclusive!Init
  BY DEF InitLock, Exclusive!Init, Connected
<1>2. LockInv /\ [NextLock]_lockVars => [Exclusive!Next]_Connected
  BY StepRefines
<1> QED
  BY <1>1, <1>2, LockInit, LockStep, PTL
     DEF LockSpec, ImplementsExclusiveRun, Exclusive!Spec, Connected

-----------------------------------------------------------------------------
(* The locks of the stages, and the pool they travel through.                 *)

(* The connections of one worker: those in the pool differ from each other    *)
(* and from the two that may be checked out, and all have been opened.        *)
Good(p, o, s, d) ==
  /\ \A i \in 1..Len(p) : p[i] \in 1..o /\ p[i] # s /\ p[i] # d
  /\ \A i, j \in 1..Len(p) : i # j => p[i] # p[j]
  /\ s <= o
  /\ d <= o
  /\ s # 0 => s # d

First(p, o) == IF p = <<>> THEN o + 1 ELSE Head(p)
Others(p) == IF p = <<>> THEN <<>> ELSE Tail(p)
Grown(p, o) == IF p = <<>> THEN o + 1 ELSE o

(* What Longest and Rest return: a connection outside the rest of the pool,   *)
(* and different from those checked out.                                      *)
LEMMA FirstIsFresh ==
  ASSUME NEW p \in Seq(Nat), NEW o \in Nat, NEW s \in Nat, NEW d \in Nat, Good(p, o, s, d)
  PROVE  /\ Others(p) \in Seq(Nat)
         /\ Grown(p, o) \in Nat
         /\ o <= Grown(p, o)
         /\ First(p, o) \in 1..Grown(p, o)
         /\ First(p, o) # s
         /\ First(p, o) # d
         /\ \A i \in 1..Len(Others(p)) :
              /\ Others(p)[i] \in 1..Grown(p, o)
              /\ Others(p)[i] # s
              /\ Others(p)[i] # d
              /\ Others(p)[i] # First(p, o)
         /\ \A i, j \in 1..Len(Others(p)) : i # j => Others(p)[i] # Others(p)[j]
<1>1. CASE p = <<>>
  BY <1>1 DEF Good, First, Others, Grown
<1>2. CASE p # <<>>
  <2>1. Len(p) \in Nat /\ 1 <= Len(p) /\ Len(Tail(p)) = Len(p) - 1 /\ Tail(p) \in Seq(Nat)
    BY <1>2
  <2>2. Head(p) = p[1] /\ \A i \in 1..Len(Tail(p)) : Tail(p)[i] = p[i + 1]
    BY <1>2, <2>1
  <2> QED BY <1>2, <2>1, <2>2 DEF Good, First, Others, Grown
<1> QED BY <1>1, <1>2

(* The session begins a transaction.                                          *)
LEMMA SessionTakes ==
  ASSUME NEW p \in Seq(Nat), NEW o \in Nat, NEW s \in Nat, NEW d \in Nat, Good(p, o, s, d)
  PROVE  Good(Others(p), Grown(p, o), First(p, o), d)
<1> DEFINE q == Others(p)
           n == Grown(p, o)
           c == First(p, o)
<1>1. /\ q \in Seq(Nat) /\ n \in Nat /\ o <= n /\ c \in 1..n /\ c # s /\ c # d
      /\ \A i \in 1..Len(q) : q[i] \in 1..n /\ q[i] # s /\ q[i] # d /\ q[i] # c
      /\ \A i, j \in 1..Len(q) : i # j => q[i] # q[j]
  BY FirstIsFresh
<1>2. s <= o /\ d <= o /\ (s # 0 => s # d)
  BY DEF Good
<1> HIDE DEF q, n, c
<1>3. Good(q, n, c, d)
  BY <1>1, <1>2 DEF Good
<1> QED BY <1>3 DEF q, n, c

(* held_advisory_lock checks a connection out.                                *)
LEMMA LockTakes ==
  ASSUME NEW p \in Seq(Nat), NEW o \in Nat, NEW s \in Nat, NEW d \in Nat, Good(p, o, s, d)
  PROVE  Good(Others(p), Grown(p, o), s, First(p, o))
<1> DEFINE q == Others(p)
           n == Grown(p, o)
           c == First(p, o)
<1>1. /\ q \in Seq(Nat) /\ n \in Nat /\ o <= n /\ c \in 1..n /\ c # s /\ c # d
      /\ \A i \in 1..Len(q) : q[i] \in 1..n /\ q[i] # s /\ q[i] # d /\ q[i] # c
      /\ \A i, j \in 1..Len(q) : i # j => q[i] # q[j]
  BY FirstIsFresh
<1>2. s <= o /\ d <= o /\ (s # 0 => s # d)
  BY DEF Good
<1> HIDE DEF q, n, c
<1>3. Good(q, n, s, c)
  BY <1>1, <1>2 DEF Good
<1> QED BY <1>3 DEF q, n, c

(* Appending a connection that is in use nowhere else keeps the pool good.    *)
LEMMA AppendGood ==
  ASSUME NEW p \in Seq(Nat), NEW o \in Nat, NEW s \in Nat, NEW d \in Nat, NEW c \in 1..o,
         Good(p, o, s, d), c # s, c # d, \A i \in 1..Len(p) : p[i] # c
  PROVE  Append(p, c) \in Seq(Nat) /\ Good(Append(p, c), o, s, d)
<1>1. /\ Len(Append(p, c)) = Len(p) + 1
      /\ \A i \in 1..Len(p) : Append(p, c)[i] = p[i]
      /\ Append(p, c)[Len(p) + 1] = c
      /\ Len(p) \in Nat
  OBVIOUS
<1>2. c \in Nat /\ Append(p, c) \in Seq(Nat)
  OBVIOUS
<1> DEFINE q == Append(p, c)
           n == Len(p)
<1>3. /\ n \in Nat /\ Len(q) = n + 1
      /\ \A i \in 1..n : q[i] = p[i]
      /\ q[n + 1] = c
  BY <1>1
<1>4. /\ \A i \in 1..n : p[i] \in 1..o /\ p[i] # s /\ p[i] # d /\ p[i] # c
      /\ \A i, j \in 1..n : i # j => p[i] # p[j]
  BY DEF Good
<1> HIDE DEF q, n
<1>5. ASSUME NEW i \in 1..Len(q)
      PROVE  q[i] \in 1..o /\ q[i] # s /\ q[i] # d
  BY <1>3, <1>4, SMTT(30)
<1>6. ASSUME NEW i \in 1..Len(q), NEW j \in 1..Len(q), i # j
      PROVE  q[i] # q[j]
  <2>1. (i \in 1..n \/ i = n + 1) /\ (j \in 1..n \/ j = n + 1)
    BY <1>3
  <2>2. CASE i \in 1..n /\ j \in 1..n
    BY <1>3, <1>4, <1>6, <2>2
  <2>3. CASE i \in 1..n /\ j = n + 1
    BY <1>3, <1>4, <2>3
  <2>4. CASE i = n + 1 /\ j \in 1..n
    BY <1>3, <1>4, <2>4
  <2> QED BY <2>1, <2>2, <2>3, <2>4, <1>6
<1>7. s <= o /\ d <= o /\ (s # 0 => s # d)
  BY DEF Good
<1>8. Good(q, o, s, d)
  BY <1>5, <1>6, <1>7 DEF Good
<1> QED BY <1>2, <1>8 DEF q

(* A transaction of the session passes through the pool.                      *)
LEMMA PassesThrough ==
  ASSUME NEW p \in Seq(Nat), NEW o \in Nat, NEW s \in Nat, NEW d \in Nat, Good(p, o, s, d)
  PROVE  /\ Append(Others(p), First(p, o)) \in Seq(Nat)
         /\ Good(Append(Others(p), First(p, o)), Grown(p, o), s, d)
<1> DEFINE q == Others(p)
           n == Grown(p, o)
           c == First(p, o)
<1>1. /\ q \in Seq(Nat) /\ n \in Nat /\ o <= n /\ c \in 1..n /\ c # s /\ c # d
      /\ \A i \in 1..Len(q) : q[i] \in 1..n /\ q[i] # s /\ q[i] # d /\ q[i] # c
      /\ \A i, j \in 1..Len(q) : i # j => q[i] # q[j]
  BY FirstIsFresh
<1>2. s <= o /\ d <= o /\ (s # 0 => s # d)
  BY DEF Good
<1> HIDE DEF q, n, c
<1>3. Good(q, n, s, d)
  BY <1>1, <1>2 DEF Good
<1>4. Append(q, c) \in Seq(Nat) /\ Good(Append(q, c), n, s, d)
  BY <1>1, <1>3, AppendGood
<1> QED BY <1>4 DEF q, n, c

(* The session's connection, or the lock's, goes back to the pool.            *)
LEMMA SessionReturns ==
  ASSUME NEW p \in Seq(Nat), NEW o \in Nat, NEW s \in Nat, NEW d \in Nat, Good(p, o, s, d), s # 0
  PROVE  Append(p, s) \in Seq(Nat) /\ Good(Append(p, s), o, 0, d)
<1>1. Good(p, o, 0, d) /\ s \in 1..o /\ s # d /\ \A i \in 1..Len(p) : p[i] # s
  BY DEF Good
<1> QED BY <1>1, AppendGood

LEMMA LockReturns ==
  ASSUME NEW p \in Seq(Nat), NEW o \in Nat, NEW s \in Nat, NEW d \in Nat, Good(p, o, s, d), d # 0
  PROVE  Append(p, d) \in Seq(Nat) /\ Good(Append(p, d), o, s, 0)
<1>1. Good(p, o, s, 0) /\ d \in 1..o /\ d # s /\ \A i \in 1..Len(p) : p[i] # d
  BY DEF Good
<1> QED BY <1>1, AppendGood

-----------------------------------------------------------------------------
(* The inductive invariant.                                                   *)

ConnTypes ==
  /\ opened \in [Workers -> Nat]
  /\ session \in [Workers -> Nat]
  /\ dedicated \in [Workers -> Nat]
  /\ pool \in [Workers -> Seq(Nat)]

LockTypes ==
  /\ holder \in [Keys -> [worker : Workers \union {NoConn}, conn : Nat, depth : Nat]]
  /\ pc \in [Workers -> {"idle", "node", "try", "work", "release", "finish", "gate", "end"}]
  /\ todo \in [Workers -> Seq(Stages)]

PoolsAreGood == \A w \in Workers : Good(pool[w], opened[w], session[w], dedicated[w])

(* The connection a stage at work holds its lock on.                          *)
LockConn(w) == IF Stage(w) \in OnItsOwnConnection THEN dedicated[w] ELSE session[w]

(* A stage at work holds its lock, on a connection that is checked out.       *)
WorkHoldsItsLock ==
  \A w \in Workers :
    pc[w] = "work" => LockConn(w) # NoConn /\ HeldOn(Key(Stage(w)), w, LockConn(w))

(* A stage that has a connection of its own keeps it until it releases.       *)
ReleasesItsOwn ==
  \A w \in Workers :
    pc[w] = "release" /\ Stage(w) \in OnItsOwnConnection => dedicated[w] # NoConn

(* An invocation between its start and its last stage has a stage to do.      *)
StagesLeft ==
  \A w \in Workers : pc[w] \notin {"idle", "gate", "end"} => todo[w] # <<>>

(* A worker between two messages holds no lock: the engine is disposed.       *)
IdleHoldsNothing ==
  \A w \in Workers, k \in Keys : pc[w] = "idle" => holder[k].worker # w

IInv ==
  /\ ConnTypes
  /\ LockTypes
  /\ StagesLeft
  /\ PoolsAreGood
  /\ WorkHoldsItsLock
  /\ ReleasesItsOwn
  /\ IdleHoldsNothing

(* What the actions do to the connections of their worker.                    *)
Takes(w) == BeginSession(w) /\ UNCHANGED dedicated
Passes(w) == PassThrough(w) /\ UNCHANGED dedicated
Returns(w) == session[w] # NoConn /\ EndSession(w) /\ UNCHANGED dedicated
TakesOwn(w) ==
  /\ dedicated' = [dedicated EXCEPT ![w] = Longest(w)]
  /\ pool' = [pool EXCEPT ![w] = Rest(w)]
  /\ Checkout(w)
  /\ UNCHANGED session
ReturnsOwn(w) ==
  /\ dedicated[w] # NoConn
  /\ pool' = [pool EXCEPT ![w] = Append(@, dedicated[w])]
  /\ dedicated' = [dedicated EXCEPT ![w] = NoConn]
  /\ UNCHANGED <<opened, session>>
Closes(w) ==
  /\ opened' = [opened EXCEPT ![w] = 0]
  /\ pool' = [pool EXCEPT ![w] = <<>>]
  /\ session' = [session EXCEPT ![w] = NoConn]
  /\ dedicated' = [dedicated EXCEPT ![w] = NoConn]

LEMMA ConnectionsStep ==
  ASSUME ConnTypes, PoolsAreGood, NEW w \in Workers,
         \/ Takes(w) \/ Passes(w) \/ Returns(w)
         \/ TakesOwn(w) \/ ReturnsOwn(w) \/ Closes(w) \/ UNCHANGED conns
  PROVE  ConnTypes' /\ PoolsAreGood'
<1> DEFINE p == pool[w]
           o == opened[w]
           s == session[w]
           d == dedicated[w]
<1>1. /\ p \in Seq(Nat) /\ o \in Nat /\ s \in Nat /\ d \in Nat
      /\ Good(p, o, s, d)
  BY DEF ConnTypes, PoolsAreGood
<1>2. Longest(w) = First(p, o) /\ Rest(w) = Others(p) /\ Rotated(w) = Append(Others(p), First(p, o))
  BY DEF Longest, Rest, Rotated, First, Others
<1>3. First(p, o) \in Nat /\ Grown(p, o) \in Nat /\ Others(p) \in Seq(Nat)
  <2>1. First(p, o) \in 1..Grown(p, o) /\ Grown(p, o) \in Nat /\ Others(p) \in Seq(Nat)
    BY <1>1, FirstIsFresh
  <2> QED BY <2>1
<1>4. Checkout(w) => opened' = [opened EXCEPT ![w] = Grown(p, o)]
  BY DEF Checkout, Grown, ConnTypes
<1> HIDE DEF p, o, s, d
<1>5. CASE Takes(w)
  <2>1. Good(Others(p), Grown(p, o), First(p, o), d)
    BY <1>1, SessionTakes
  <2>2. /\ opened' = [opened EXCEPT ![w] = Grown(p, o)]
        /\ session' = [session EXCEPT ![w] = First(p, o)]
        /\ pool' = [pool EXCEPT ![w] = Others(p)]
        /\ dedicated' = dedicated
    BY <1>2, <1>4, <1>5 DEF Takes, BeginSession
  <2> QED BY <2>1, <2>2, <1>3 DEF ConnTypes, PoolsAreGood, d
<1>6. CASE Passes(w)
  <2>1. /\ Append(Others(p), First(p, o)) \in Seq(Nat)
        /\ Good(Append(Others(p), First(p, o)), Grown(p, o), s, d)
    BY <1>1, PassesThrough
  <2>2. /\ opened' = [opened EXCEPT ![w] = Grown(p, o)]
        /\ session' = session
        /\ pool' = [pool EXCEPT ![w] = Append(Others(p), First(p, o))]
        /\ dedicated' = dedicated
    BY <1>2, <1>4, <1>6 DEF Passes, PassThrough
  <2> QED BY <2>1, <2>2, <1>3 DEF ConnTypes, PoolsAreGood, d, s
<1>7. CASE Returns(w)
  <2>1. s # 0
    BY <1>7 DEF Returns, s, NoConn
  <2>2. Append(p, s) \in Seq(Nat) /\ Good(Append(p, s), o, 0, d)
    BY <1>1, <2>1, SessionReturns
  <2>3. /\ opened' = opened
        /\ session' = [session EXCEPT ![w] = 0]
        /\ pool' = [pool EXCEPT ![w] = Append(p, s)]
        /\ dedicated' = dedicated
    BY <1>7 DEF Returns, EndSession, NoConn, p, s
  <2> QED BY <2>2, <2>3 DEF ConnTypes, PoolsAreGood, d, o
<1>8. CASE TakesOwn(w)
  <2>1. Good(Others(p), Grown(p, o), s, First(p, o))
    BY <1>1, LockTakes
  <2>2. /\ opened' = [opened EXCEPT ![w] = Grown(p, o)]
        /\ session' = session
        /\ pool' = [pool EXCEPT ![w] = Others(p)]
        /\ dedicated' = [dedicated EXCEPT ![w] = First(p, o)]
    BY <1>2, <1>4, <1>8 DEF TakesOwn
  <2> QED BY <2>1, <2>2, <1>3 DEF ConnTypes, PoolsAreGood, s
<1>9. CASE ReturnsOwn(w)
  <2>1. d # 0
    BY <1>9 DEF ReturnsOwn, d, NoConn
  <2>2. Append(p, d) \in Seq(Nat) /\ Good(Append(p, d), o, s, 0)
    BY <1>1, <2>1, LockReturns
  <2>3. /\ opened' = opened
        /\ session' = session
        /\ pool' = [pool EXCEPT ![w] = Append(p, d)]
        /\ dedicated' = [dedicated EXCEPT ![w] = 0]
    BY <1>9 DEF ReturnsOwn, NoConn, p, d
  <2> QED BY <2>2, <2>3 DEF ConnTypes, PoolsAreGood, o, s
<1>10. CASE Closes(w)
  <2>1. Good(<<>>, 0, 0, 0) /\ <<>> \in Seq(Nat)
    BY DEF Good
  <2> QED BY <1>10, <2>1 DEF Closes, NoConn, ConnTypes, PoolsAreGood
<1>11. CASE UNCHANGED conns
  BY <1>11 DEF conns, ConnTypes, PoolsAreGood
<1> QED BY <1>5, <1>6, <1>7, <1>8, <1>9, <1>10, <1>11

LEMMA KeysOnly == \A s : Key(s) \in Keys
<1>1. TAKE s
<1>2. CASE s \in Stages
  BY <1>2 DEF Keys
<1>3. CASE s \notin Stages
  <2>1. Key(s) = Key("extract")
    BY <1>3 DEF Key, Stages
  <2> QED BY <2>1 DEF Keys, Stages
<1> QED BY <1>2, <1>3

LEMMA UnlockTypes ==
  ASSUME LockTypes, NEW k \in Keys, NEW w \in Workers, NEW c
  PROVE  /\ Unlocked(k, w, c) \in [worker : Workers \union {NoConn}, conn : Nat, depth : Nat]
         /\ holder[k].worker # w => Unlocked(k, w, c) = holder[k]
         /\ Unlocked(k, w, c).worker \in {holder[k].worker, NoConn}
<1> DEFINE h == holder[k]
<1>1. h \in [worker : Workers \union {NoConn}, conn : Nat, depth : Nat]
  BY DEF LockTypes, ConnTypes
<1>2. CASE ~HeldOn(k, w, c)
  BY <1>1, <1>2 DEF Unlocked
<1>3. CASE HeldOn(k, w, c) /\ h.depth > 1
  BY <1>1, <1>3 DEF Unlocked, HeldOn
<1>4. CASE HeldOn(k, w, c) /\ ~(h.depth > 1)
  BY <1>1, <1>4 DEF Unlocked, HeldOn, Free, NoConn
<1> QED BY <1>2, <1>3, <1>4

LEMMA InvInit == Init => IInv
<1> SUFFICES ASSUME Init PROVE IInv
  OBVIOUS
<1> USE DEF Init
<1>1. ConnTypes
  BY DEF ConnTypes, NoConn
<1>5. LockTypes
  BY DEF LockTypes, Free, NoConn, Keys
<1>2. PoolsAreGood
  <2>1. Good(<<>>, 0, 0, 0)
    BY DEF Good
  <2> QED BY <2>1 DEF PoolsAreGood, NoConn
<1>3. StagesLeft /\ WorkHoldsItsLock /\ ReleasesItsOwn
  BY DEF StagesLeft, WorkHoldsItsLock, ReleasesItsOwn
<1>4. IdleHoldsNothing
  BY Assumptions DEF IdleHoldsNothing, Free
<1> QED BY <1>1, <1>2, <1>3, <1>4, <1>5 DEF IInv

(* Every action of a worker keeps the invariant.  <2>1 says what it does to   *)
(* the connections, the steps after it what it does to locks and stages.      *)
LEMMA InvStep ==
  ASSUME IInv, NEW w \in Workers, Receive(w) \/ Step(w) \/ Crash(w) \/ DropIdle(w)
  PROVE  IInv'
<1> USE DEF IInv
<1>1. ASSUME Receive(w) PROVE IInv'
  <2>1. ConnTypes' /\ PoolsAreGood'
    BY <1>1, ConnectionsStep DEF Receive, Takes, conns
  <2>2. PICK t, q : /\ todo' = [todo EXCEPT ![w] = t]
                    /\ pc' = [pc EXCEPT ![w] = q]
                    /\ t \in Seq(Stages) /\ t # <<>>
                    /\ q \in {"try", "node"}
    <3>1. Workflow \in Seq(Stages) /\ Workflow # <<>>
      BY DEF Workflow, Stages
    <3>2. \A x \in Actors : <<x>> \in Seq(Stages) /\ <<x>> # <<>>
      BY DEF Actors, Stages
    <3> QED BY <1>1, <3>1, <3>2 DEF Receive
  <2>3. LockTypes' /\ StagesLeft'
    <3>1. holder' = holder
      BY <1>1 DEF Receive
    <3>2. LockTypes'
      BY <2>2, <3>1 DEF LockTypes
    <3>3. StagesLeft'
      BY <2>2 DEF LockTypes, StagesLeft
    <3> QED BY <3>2, <3>3
  <2>5. WorkHoldsItsLock' /\ ReleasesItsOwn'
    <3>1. \A v \in Workers : v # w => /\ session'[v] = session[v]
                                     /\ Stage(v)' = Stage(v)
                                     /\ pc'[v] = pc[v]
      BY <1>1, <2>2 DEF Receive, BeginSession, ConnTypes, LockTypes, Stage
    <3>2. pc'[w] \notin {"work", "release"} /\ dedicated' = dedicated /\ holder' = holder
      BY <1>1, <2>2 DEF Receive, LockTypes
    <3> QED BY <3>1, <3>2 DEF WorkHoldsItsLock, ReleasesItsOwn, LockConn, HeldOn
  <2>4. IdleHoldsNothing'
    BY <1>1 DEF LockTypes, ConnTypes, Receive, IdleHoldsNothing
  <2> QED BY <2>1, <2>3, <2>4, <2>5
<1>2. ASSUME StartNode(w) PROVE IInv'
  <2>1. ConnTypes' /\ PoolsAreGood'
    BY <1>2, ConnectionsStep DEF StartNode, Passes, Returns
  <2>2. LockTypes'
    BY <1>2, <2>1 DEF LockTypes, StartNode
  <2>2_1. StagesLeft'
    BY <1>2, <2>1 DEF LockTypes, StagesLeft, StartNode
  <2>3. WorkHoldsItsLock' /\ ReleasesItsOwn'
    BY <1>2, SMTT(30)
       DEF LockTypes, ConnTypes, StartNode, WorkHoldsItsLock, ReleasesItsOwn, LockConn, HeldOn,
           Stage, EndSession, PassThrough
  <2>4. IdleHoldsNothing'
    BY <1>2 DEF LockTypes, ConnTypes, StartNode, IdleHoldsNothing
  <2> QED BY <2>1, <2>2, <2>2_1, <2>3, <2>4
<1>3. ASSUME SkipProcessing(w) PROVE IInv'
  <2>1. ConnTypes' /\ PoolsAreGood'
    BY <1>3, ConnectionsStep DEF SkipProcessing, Takes
  <2>2. LockTypes'
    BY <1>3, <2>1 DEF LockTypes, SkipProcessing
  <2>2_1. StagesLeft'
    BY <1>3, <2>1 DEF LockTypes, StagesLeft, SkipProcessing
  <2>3. WorkHoldsItsLock' /\ ReleasesItsOwn'
    BY <1>3, SMTT(30)
       DEF LockTypes, ConnTypes, SkipProcessing, WorkHoldsItsLock, ReleasesItsOwn, LockConn,
           HeldOn, Stage, BeginSession
  <2>4. IdleHoldsNothing'
    BY <1>3 DEF LockTypes, ConnTypes, SkipProcessing, IdleHoldsNothing
  <2> QED BY <2>1, <2>2, <2>2_1, <2>3, <2>4
<1>4. ASSUME TakeLock(w) PROVE IInv'
  <2> DEFINE k == Key(Stage(w))
             c == Longest(w)
  <2>1. ConnTypes' /\ PoolsAreGood'
    BY <1>4, ConnectionsStep DEF TakeLock, Takes, TakesOwn
  <2>2. k \in Keys /\ c \in Nat /\ c # NoConn
    <3>1. c = First(pool[w], opened[w])
      BY DEF Longest, First
    <3>2. /\ pool[w] \in Seq(Nat) /\ opened[w] \in Nat /\ session[w] \in Nat /\ dedicated[w] \in Nat
          /\ Good(pool[w], opened[w], session[w], dedicated[w])
      BY DEF LockTypes, ConnTypes, PoolsAreGood
    <3>3. c \in 1..Grown(pool[w], opened[w]) /\ Grown(pool[w], opened[w]) \in Nat
      BY <3>1, <3>2, FirstIsFresh
    <3> QED BY <3>3, KeysOnly DEF NoConn
  <2>3. /\ pc[w] = "try"
        /\ pc' = [pc EXCEPT ![w] = "work"]
        /\ todo' = todo
        /\ holder[k] = Free \/ holder[k].worker = w
        /\ holder' = [holder EXCEPT ![k] = [worker |-> w, conn |-> c, depth |-> holder[k].depth + 1]]
    BY <1>4 DEF TakeLock, Lockable, HeldOn, Locked
  <2>4. LockTypes'
    BY <2>1, <2>2, <2>3 DEF LockTypes
  <2>4_1. StagesLeft'
    BY <2>1, <2>2, <2>3 DEF LockTypes, StagesLeft
  <2>5. \/ Stage(w) \in OnItsOwnConnection /\ dedicated' = [dedicated EXCEPT ![w] = c] /\ session' = session
        \/ Stage(w) \notin OnItsOwnConnection /\ session' = [session EXCEPT ![w] = c] /\ dedicated' = dedicated
    BY <1>4 DEF TakeLock, BeginSession
  <2>6. \A v \in Workers : v # w => holder[k].worker # v
    BY <2>3, Assumptions DEF Free
  <2>7. WorkHoldsItsLock'
    <3> SUFFICES ASSUME NEW v \in Workers, pc'[v] = "work"
                 PROVE  LockConn(v)' # NoConn /\ HeldOn(Key(Stage(v)), v, LockConn(v))'
      BY DEF WorkHoldsItsLock
    <3> HIDE DEF k, c
    <3>1. CASE v = w
      BY <3>1, <2>2, <2>3, <2>5 DEF LockTypes, ConnTypes, LockConn, HeldOn, Stage, k
    <3>2. CASE v # w
      <4>1. pc[v] = "work" /\ Stage(v)' = Stage(v) /\ LockConn(v)' = LockConn(v)
        BY <3>2, <2>3, <2>5 DEF LockTypes, ConnTypes, Stage, LockConn
      <4>2. LockConn(v) # NoConn /\ HeldOn(Key(Stage(v)), v, LockConn(v))
        BY <4>1 DEF WorkHoldsItsLock
      <4>3. Key(Stage(v)) # k
        BY <4>2, <2>6, <3>2 DEF HeldOn
      <4>4. holder'[Key(Stage(v))] = holder[Key(Stage(v))]
        BY <4>3, <2>3, KeysOnly DEF LockTypes, ConnTypes
      <4> QED BY <4>1, <4>2, <4>4 DEF HeldOn
    <3> QED BY <3>1, <3>2
  <2>8. ReleasesItsOwn'
    BY <2>3, <2>5 DEF LockTypes, ConnTypes, ReleasesItsOwn, Stage
  <2>9. IdleHoldsNothing'
    BY <2>2, <2>3 DEF LockTypes, ConnTypes, IdleHoldsNothing
  <2> QED BY <2>1, <2>4, <2>4_1, <2>7, <2>8, <2>9
<1>5. ASSUME LockRefused(w) PROVE IInv'
  <2>1. ConnTypes' /\ PoolsAreGood'
    BY <1>5, ConnectionsStep DEF LockRefused, Takes, Passes
  <2>2. LockTypes'
    BY <1>5, <2>1 DEF LockTypes, LockRefused
  <2>2_1. StagesLeft'
    BY <1>5, <2>1 DEF LockTypes, StagesLeft, LockRefused
  <2>3. WorkHoldsItsLock' /\ ReleasesItsOwn'
    BY <1>5
       DEF LockTypes, ConnTypes, LockRefused, WorkHoldsItsLock, ReleasesItsOwn, LockConn,
           HeldOn, Stage, BeginSession, PassThrough
  <2>4. IdleHoldsNothing'
    BY <1>5 DEF LockTypes, ConnTypes, LockRefused, IdleHoldsNothing
  <2> QED BY <2>1, <2>2, <2>2_1, <2>3, <2>4
<1>6. ASSUME EndWork(w) PROVE IInv'
  <2>1. ConnTypes' /\ PoolsAreGood'
    BY <1>6, ConnectionsStep DEF EndWork, Passes, Returns
  <2>2. LockTypes'
    BY <1>6, <2>1 DEF LockTypes, EndWork
  <2>2_1. StagesLeft'
    BY <1>6, <2>1 DEF LockTypes, StagesLeft, EndWork
  <2>3. WorkHoldsItsLock'
    BY <1>6
       DEF LockTypes, ConnTypes, EndWork, WorkHoldsItsLock, LockConn, HeldOn, Stage, EndSession,
           PassThrough
  <2>4. ReleasesItsOwn'
    BY <1>6 DEF LockTypes, ConnTypes, EndWork, WorkHoldsItsLock, ReleasesItsOwn, LockConn, Stage
  <2>5. IdleHoldsNothing'
    BY <1>6 DEF LockTypes, ConnTypes, EndWork, IdleHoldsNothing
  <2> QED BY <2>1, <2>2, <2>2_1, <2>3, <2>4, <2>5
<1>7. ASSUME Release(w) PROVE IInv'
  <2> DEFINE k == Key(Stage(w))
  <2>1. ConnTypes' /\ PoolsAreGood'
    BY <1>7, ConnectionsStep DEF Release, Takes, ReturnsOwn, ReleasesItsOwn
  <2>2. k \in Keys
    BY KeysOnly
  <2>3. PICK c : holder' = [holder EXCEPT ![k] = Unlocked(k, w, c)]
    BY <1>7 DEF Release
  <2>4. /\ Unlocked(k, w, c) \in [worker : Workers \union {NoConn}, conn : Nat, depth : Nat]
        /\ holder[k].worker # w => Unlocked(k, w, c) = holder[k]
        /\ Unlocked(k, w, c).worker \in {holder[k].worker, NoConn}
    BY <2>2, UnlockTypes
  <2>5. pc[w] = "release" /\ pc' = [pc EXCEPT ![w] = "finish"] /\ todo' = todo
    BY <1>7 DEF Release
  <2>6. LockTypes'
    BY <2>1, <2>2, <2>3, <2>4, <2>5 DEF LockTypes
  <2>6_1. StagesLeft'
    BY <2>1, <2>2, <2>3, <2>4, <2>5 DEF LockTypes, StagesLeft
  <2>7. \A v \in Workers : v # w => session'[v] = session[v] /\ dedicated'[v] = dedicated[v]
    BY <1>7 DEF Release, BeginSession, LockTypes, ConnTypes
  <2>8. \A v \in Workers, j \in Keys : v # w /\ holder[j].worker = v => holder'[j] = holder[j]
    BY <2>2, <2>3, <2>4 DEF LockTypes, ConnTypes
  <2>9. WorkHoldsItsLock'
    <3> HIDE DEF k
    <3> SUFFICES ASSUME NEW v \in Workers, pc'[v] = "work"
                 PROVE  LockConn(v)' # NoConn /\ HeldOn(Key(Stage(v)), v, LockConn(v))'
      BY DEF WorkHoldsItsLock
    <3>1. v # w /\ pc[v] = "work" /\ Stage(v)' = Stage(v)
      BY <2>5 DEF LockTypes, ConnTypes, Stage
    <3>2. LockConn(v)' = LockConn(v)
      BY <3>1, <2>7 DEF LockConn
    <3>3. LockConn(v) # NoConn /\ HeldOn(Key(Stage(v)), v, LockConn(v))
      BY <3>1 DEF WorkHoldsItsLock
    <3>4. holder'[Key(Stage(v))] = holder[Key(Stage(v))]
      BY <3>1, <3>3, <2>8, KeysOnly DEF HeldOn
    <3> QED BY <3>1, <3>2, <3>3, <3>4 DEF HeldOn
  <2>10. ReleasesItsOwn'
    BY <2>5, <2>7 DEF LockTypes, ConnTypes, ReleasesItsOwn, Stage
  <2>11. IdleHoldsNothing'
    <3> HIDE DEF k
    <3> SUFFICES ASSUME NEW v \in Workers, NEW j \in Keys, pc'[v] = "idle"
                 PROVE  holder'[j].worker # v
      BY DEF IdleHoldsNothing
    <3>1. pc[v] = "idle" /\ holder[j].worker # v
      BY <2>5 DEF LockTypes, ConnTypes, IdleHoldsNothing
    <3>2. holder'[j].worker \in {holder[j].worker, NoConn}
      BY <2>2, <2>3, <2>4 DEF LockTypes, ConnTypes
    <3> QED BY <3>1, <3>2, Assumptions
  <2> QED BY <2>1, <2>6, <2>6_1, <2>9, <2>10, <2>11
<1>8. ASSUME FinishNode(w) PROVE IInv'
  <2>1. ConnTypes' /\ PoolsAreGood'
    BY <1>8, ConnectionsStep DEF FinishNode, Passes, Returns
  <2>2. todo[w] \in Seq(Stages) /\ todo[w] # <<>>
    BY <1>8 DEF FinishNode, LockTypes, ConnTypes, StagesLeft
  <2>3. Tail(todo[w]) \in Seq(Stages) /\ (Len(todo[w]) # 1 => Tail(todo[w]) # <<>>)
    <3>1. Len(todo[w]) \in Nat /\ Len(todo[w]) # 0 /\ Tail(todo[w]) \in Seq(Stages)
      BY <2>2
    <3>2. Len(Tail(todo[w])) = Len(todo[w]) - 1 /\ Len(<<>>) = 0
      BY <2>2
    <3>3. ASSUME Len(todo[w]) # 1, Tail(todo[w]) = <<>> PROVE FALSE
      <4>1. Len(todo[w]) - 1 = 0
        BY <3>2, <3>3
      <4> QED BY <4>1, <3>1, <3>3
    <3> QED BY <3>1, <3>3
  <2>4. LockTypes'
    BY <1>8, <2>1, <2>3 DEF LockTypes, FinishNode
  <2>4_1. StagesLeft'
    BY <1>8, <2>1, <2>3 DEF LockTypes, StagesLeft, FinishNode
  <2>5. WorkHoldsItsLock' /\ ReleasesItsOwn'
    <3>1. \A v \in Workers : v # w => /\ session'[v] = session[v]
                                     /\ Stage(v)' = Stage(v)
                                     /\ pc'[v] = pc[v]
      BY <1>8 DEF FinishNode, EndSession, PassThrough, ConnTypes, LockTypes, Stage
    <3>2. pc'[w] \notin {"work", "release"} /\ dedicated' = dedicated /\ holder' = holder
      BY <1>8 DEF FinishNode, LockTypes
    <3> QED BY <3>1, <3>2 DEF WorkHoldsItsLock, ReleasesItsOwn, LockConn, HeldOn
  <2>6. IdleHoldsNothing'
    BY <1>8 DEF LockTypes, ConnTypes, FinishNode, IdleHoldsNothing
  <2> QED BY <2>1, <2>4, <2>4_1, <2>5, <2>6
<1>9. ASSUME PassGate(w) \/ Leave(w) PROVE IInv'
  <2>1. ConnTypes' /\ PoolsAreGood'
    BY <1>9, ConnectionsStep DEF PassGate, Leave
  <2>2. LockTypes'
    BY <1>9, <2>1 DEF LockTypes, PassGate, Leave
  <2>2_1. StagesLeft'
    BY <1>9, <2>1 DEF LockTypes, StagesLeft, PassGate, Leave
  <2>3. WorkHoldsItsLock' /\ ReleasesItsOwn'
    BY <1>9, ZenonT(60)
       DEF LockTypes, ConnTypes, PassGate, Leave, conns, WorkHoldsItsLock, ReleasesItsOwn,
           LockConn, HeldOn, Stage
  <2>4. IdleHoldsNothing'
    BY <1>9 DEF LockTypes, ConnTypes, PassGate, Leave, IdleHoldsNothing
  <2> QED BY <2>1, <2>2, <2>2_1, <2>3, <2>4
<1>10. ASSUME End(w) \/ Crash(w) PROVE IInv'
  <2>1. ConnTypes' /\ PoolsAreGood'
    BY <1>10, ConnectionsStep DEF End, Crash, Dispose, Closes
  <2>2. /\ holder' = [k \in Keys |-> IF holder[k].worker = w THEN Free ELSE holder[k]]
        /\ pc' = [pc EXCEPT ![w] = "idle"]
        /\ todo' = [todo EXCEPT ![w] = <<>>]
        /\ session' = [session EXCEPT ![w] = NoConn]
        /\ dedicated' = [dedicated EXCEPT ![w] = NoConn]
    BY <1>10 DEF End, Crash, Dispose, Closed
  <2>3. LockTypes'
    BY <2>1, <2>2 DEF LockTypes, Free, NoConn
  <2>3_1. StagesLeft'
    BY <2>1, <2>2 DEF LockTypes, StagesLeft
  <2>4. WorkHoldsItsLock' /\ ReleasesItsOwn'
    BY <2>2, KeysOnly DEF LockTypes, ConnTypes, WorkHoldsItsLock, ReleasesItsOwn, LockConn, HeldOn, Stage
  <2>5. IdleHoldsNothing'
    BY <2>2, Assumptions DEF LockTypes, ConnTypes, IdleHoldsNothing, Free
  <2> QED BY <2>1, <2>3, <2>3_1, <2>4, <2>5
<1>11. ASSUME DropIdle(w) PROVE IInv'
  <2>1. PICK k \in Keys :
          /\ holder[k].worker = w
          /\ \E i \in 1..Len(pool[w]) : pool[w][i] = holder[k].conn
          /\ holder' = [holder EXCEPT ![k] = Free]
          /\ UNCHANGED <<conns, pc, todo>>
    BY <1>11 DEF DropIdle
  <2>2. ConnTypes' /\ PoolsAreGood'
    BY <2>1, ConnectionsStep
  <2>3. LockTypes'
    BY <2>1, <2>2 DEF LockTypes, Free, NoConn
  <2>3_1. StagesLeft'
    BY <2>1, <2>2 DEF LockTypes, StagesLeft
  <2>4. holder[k].conn # session[w] /\ holder[k].conn # dedicated[w]
    BY <2>1 DEF PoolsAreGood, Good
  <2>5. WorkHoldsItsLock'
    BY <2>1, <2>4, KeysOnly, SMTT(30)
       DEF LockTypes, ConnTypes, conns, WorkHoldsItsLock, LockConn, HeldOn, Stage
  <2>6. ReleasesItsOwn'
    BY <2>1 DEF conns, ReleasesItsOwn, Stage
  <2>7. IdleHoldsNothing'
    BY <2>1, Assumptions DEF LockTypes, ConnTypes, IdleHoldsNothing, Free
  <2> QED BY <2>2, <2>3, <2>3_1, <2>5, <2>6, <2>7
<1> QED BY <1>1, <1>2, <1>3, <1>4, <1>5, <1>6, <1>7, <1>8, <1>9, <1>10, <1>11
        DEF Step, Work, FailWork

LEMMA InvStutter == IInv /\ UNCHANGED vars => IInv'
BY DEF IInv, vars, LockTypes, ConnTypes, PoolsAreGood, StagesLeft, WorkHoldsItsLock, ReleasesItsOwn,
   IdleHoldsNothing, LockConn, HeldOn, Stage

(* Locks, connections, pools and stages stay in step in every state.       *)
THEOREM Invariant == Spec => []IInv
<1>1. IInv /\ [Next]_vars => IInv'
  BY InvStep, InvStutter DEF Next
<1> QED BY InvInit, <1>1, PTL DEF Spec

(* Two workers are never at work under one lock (the same stage of a filing   *)
(* or comparison, or extraction beside verification), whichever connection of *)
(* the pool the lock is taken on, and whatever earlier stages left locked     *)
(* there.                                                                     *)
THEOREM StagesAreExclusive == Spec => []WorkIsExclusive
<1>1. IInv => WorkIsExclusive
  BY KeysOnly DEF IInv, WorkHoldsItsLock, HeldOn, WorkIsExclusive
<1> QED BY Invariant, <1>1, PTL

-----------------------------------------------------------------------------
(* Alone, a stage releases its lock: its invocation has one connection for    *)
(* the session, so the transaction after the commit takes the same one again. *)

(* The connection an invocation of one stage will release its lock on.        *)
Kept(w) ==
  IF Stage(w) \in OnItsOwnConnection THEN dedicated[w]
  ELSE IF pc[w] = "work" THEN session[w]
  ELSE Head(pool[w])

HoldsOnlyKept(w) ==
  \A k \in Keys :
    holder[k].worker = w =>
      /\ pc[w] \in {"work", "release"}
      /\ k = Key(Stage(w))
      /\ holder[k].conn = Kept(w)
      /\ holder[k].depth <= 1

OneConnection(w) ==
  /\ pc[w] \notin {"node", "gate"}
  /\ pc[w] = "try" => pool[w] = <<>>
  /\ pc[w] = "work" /\ Stage(w) \notin OnItsOwnConnection => pool[w] = <<>>
  /\ pc[w] = "release" /\ Stage(w) \notin OnItsOwnConnection => pool[w] # <<>>

Alone ==
  /\ inflow \in [Workers -> BOOLEAN]
  /\ \A w \in Workers : pc[w] = "idle" => pool[w] = <<>>
  /\ \A w \in Workers : ~inflow[w] => OneConnection(w) /\ HoldsOnlyKept(w)

(* What another worker does leaves a lone stage alone.                        *)
LEMMA OthersStayAlone ==
  ASSUME IInv, Alone, NEW w \in Workers, NEW v \in Workers, v # w,
         pc'[v] = pc[v], todo'[v] = todo[v], inflow'[v] = inflow[v],
         pool'[v] = pool[v], session'[v] = session[v], dedicated'[v] = dedicated[v],
         \A k \in Keys : holder'[k].worker = v => holder'[k] = holder[k]
  PROVE  /\ pc'[v] = "idle" => pool'[v] = <<>>
         /\ ~inflow'[v] => OneConnection(v)' /\ HoldsOnlyKept(v)'
<1>1. Stage(v)' = Stage(v)
  BY DEF Stage
<1>2. Kept(v)' = Kept(v)
  BY <1>1 DEF Kept
<1> QED BY <1>1, <1>2 DEF Alone, OneConnection, HoldsOnlyKept

(* Each action changes only its worker's part of the state, and the locks it  *)
(* changes end up with that worker or with nobody.                            *)
LEMMA StaysLocal ==
  ASSUME IInv, Alone, NEW w \in Workers, Receive(w) \/ Step(w) \/ Crash(w) \/ DropIdle(w),
         NEW v \in Workers, v # w
  PROVE  /\ pc'[v] = pc[v] /\ todo'[v] = todo[v] /\ inflow'[v] = inflow[v]
         /\ pool'[v] = pool[v] /\ session'[v] = session[v] /\ dedicated'[v] = dedicated[v]
         /\ \A k \in Keys : holder'[k].worker = v => holder'[k] = holder[k]
<1> USE DEF IInv, ConnTypes, LockTypes, Alone
<1>1. CASE Receive(w)
  BY <1>1 DEF Receive, BeginSession
<1>2. CASE StartNode(w)
  BY <1>2 DEF StartNode, EndSession, PassThrough
<1>3. CASE SkipProcessing(w)
  BY <1>3 DEF SkipProcessing, BeginSession
<1>4. CASE TakeLock(w)
  BY <1>4, KeysOnly DEF TakeLock, BeginSession, Locked
<1>5. CASE LockRefused(w)
  BY <1>5 DEF LockRefused, BeginSession, PassThrough
<1>6. CASE EndWork(w)
  BY <1>6 DEF EndWork, EndSession, PassThrough
<1>7. CASE Release(w)
  <2>1. PICK c : holder' = [holder EXCEPT ![Key(Stage(w))] = Unlocked(Key(Stage(w)), w, c)]
    BY <1>7 DEF Release
  <2>2. /\ holder[Key(Stage(w))].worker # w =>
             Unlocked(Key(Stage(w)), w, c) = holder[Key(Stage(w))]
        /\ Unlocked(Key(Stage(w)), w, c).worker \in {holder[Key(Stage(w))].worker, NoConn}
    BY KeysOnly, UnlockTypes
  <2>3. \A k \in Keys : holder'[k].worker = v => holder'[k] = holder[k]
    BY <2>1, <2>2, KeysOnly, Assumptions
  <2> QED BY <1>7, <2>3 DEF Release, BeginSession
<1>8. CASE FinishNode(w)
  BY <1>8 DEF FinishNode, EndSession, PassThrough
<1>9. CASE PassGate(w) \/ Leave(w)
  BY <1>9 DEF PassGate, Leave, conns
<1>10. CASE End(w) \/ Crash(w)
  BY <1>10, Assumptions DEF End, Crash, Dispose, Closed, Free
<1>11. CASE DropIdle(w)
  BY <1>11, Assumptions DEF DropIdle, conns, Free
<1> QED BY <1>1, <1>2, <1>3, <1>4, <1>5, <1>6, <1>7, <1>8, <1>9, <1>10, <1>11
        DEF Step, Work, FailWork

(* The part of Alone that speaks of one worker.                               *)
AloneAt(w) ==
  /\ pc[w] = "idle" => pool[w] = <<>>
  /\ ~inflow[w] => OneConnection(w) /\ HoldsOnlyKept(w)

LEMMA AloneStep ==
  ASSUME IInv, Alone, NEW w \in Workers, Receive(w) \/ Step(w) \/ Crash(w) \/ DropIdle(w)
  PROVE  Alone'
<1> USE DEF IInv, ConnTypes, LockTypes
<1>a. inflow \in [Workers -> BOOLEAN] /\ AloneAt(w)
  BY DEF Alone, AloneAt
<1>b. inflow' \in [Workers -> BOOLEAN]
  BY <1>a DEF Step, Receive, StartNode, SkipProcessing, TakeLock, LockRefused, Work, FailWork,
     EndWork, Release, FinishNode, PassGate, Leave, End, Crash, DropIdle
<1>1. ASSUME Receive(w) PROVE AloneAt(w)'
  <2>1. pc[w] = "idle" /\ pool[w] = <<>> /\ holder' = holder
    BY <1>1, <1>a DEF Receive, AloneAt
  <2>2. \A k \in Keys : holder[k].worker # w
    BY <2>1 DEF IdleHoldsNothing
  <2>3. CASE inflow'[w] = FALSE
    <3>1. pc'[w] = "try" /\ pool' = pool
      BY <1>1, <1>a, <2>3 DEF Receive
    <3> QED BY <2>1, <2>2, <3>1 DEF AloneAt, OneConnection, HoldsOnlyKept
  <2>4. CASE inflow'[w] # FALSE
    <3>1. pc'[w] = "node" /\ inflow'[w] = TRUE
      BY <1>1, <1>a, <2>4 DEF Receive
    <3> QED BY <3>1 DEF AloneAt
  <2>5. AloneAt(w)'
    BY <2>3, <2>4
  <2> QED BY <2>5
<1>2. ASSUME StartNode(w) \/ SkipProcessing(w) \/ FinishNode(w) \/ PassGate(w) PROVE AloneAt(w)'
  <2>1. inflow[w] /\ inflow' = inflow /\ pc'[w] # "idle"
    BY <1>2, <1>a DEF StartNode, SkipProcessing, FinishNode, PassGate, AloneAt, OneConnection
  <2> QED BY <2>1 DEF AloneAt
<1>3. ASSUME TakeLock(w) PROVE AloneAt(w)'
  <2> SUFFICES ASSUME ~inflow[w] PROVE OneConnection(w)' /\ HoldsOnlyKept(w)'
    BY <1>3 DEF TakeLock, AloneAt
  <2> DEFINE j == Key(Stage(w))
             c == Longest(w)
  <2>1. pc[w] = "try" /\ pool[w] = <<>> /\ \A k \in Keys : holder[k].worker # w
    BY <1>3, <1>a DEF TakeLock, AloneAt, OneConnection, HoldsOnlyKept
  <2>2. /\ holder[j] = Free
        /\ holder' = [holder EXCEPT ![j] = [worker |-> w, conn |-> c, depth |-> holder[j].depth + 1]]
    BY <1>3, <2>1, KeysOnly DEF TakeLock, Lockable, HeldOn, Locked
  <2>3. /\ pool'[w] = <<>>
        /\ pc'[w] = "work"
        /\ Stage(w)' = Stage(w)
    BY <1>3, <2>1 DEF TakeLock, BeginSession, Rest, Stage
  <2>4. IF Stage(w) \in OnItsOwnConnection THEN dedicated'[w] = c ELSE session'[w] = c
    BY <1>3 DEF TakeLock, BeginSession
  <2>5. Kept(w)' = c
    BY <2>3, <2>4 DEF Kept
  <2>6. OneConnection(w)'
    BY <2>3 DEF OneConnection
  <2>7. HoldsOnlyKept(w)'
    <3> SUFFICES ASSUME NEW k \in Keys, holder'[k].worker = w
                 PROVE  k = j /\ holder'[k].conn = c /\ holder'[k].depth <= 1
      BY <2>3, <2>5 DEF HoldsOnlyKept
    <3> HIDE DEF j, c
    <3>1. k = j
      BY <2>1, <2>2
    <3> QED BY <3>1, <2>2 DEF Free
  <2> QED BY <2>6, <2>7
<1>4. ASSUME LockRefused(w) PROVE AloneAt(w)'
  <2>1. inflow' = inflow /\ holder' = holder /\ pc[w] = "try" /\ pc'[w] = "finish"
    BY <1>4 DEF LockRefused
  <2> QED BY <2>1, <1>a DEF AloneAt, OneConnection, HoldsOnlyKept
<1>5. ASSUME EndWork(w) PROVE AloneAt(w)'
  <2>1. inflow' = inflow /\ holder' = holder /\ pc[w] = "work" /\ pc'[w] = "release"
        /\ Stage(w)' = Stage(w) /\ dedicated' = dedicated
    BY <1>5 DEF EndWork, Stage
  <2> SUFFICES ASSUME ~inflow[w] PROVE OneConnection(w)' /\ HoldsOnlyKept(w)'
    BY <2>1 DEF AloneAt
  <2>2. CASE Stage(w) \in OnItsOwnConnection
    BY <2>1, <2>2, <1>a DEF AloneAt, OneConnection, HoldsOnlyKept, Kept
  <2>3. CASE Stage(w) \notin OnItsOwnConnection
    <3>1. session[w] # NoConn /\ pool[w] = <<>>
      BY <2>1, <2>3, <1>a DEF AloneAt, OneConnection, WorkHoldsItsLock, LockConn
    <3>2. pool'[w] = Append(<<>>, session[w])
      BY <1>5, <3>1 DEF EndWork, EndSession
    <3>3. pool'[w] # <<>> /\ Head(pool'[w]) = session[w]
      BY <3>2
    <3> QED BY <2>1, <2>3, <3>3, <1>a DEF AloneAt, OneConnection, HoldsOnlyKept, Kept
  <2> QED BY <2>2, <2>3
<1>6. ASSUME Release(w) PROVE AloneAt(w)'
  <2>1. inflow' = inflow /\ pc[w] = "release" /\ pc'[w] = "finish"
    BY <1>6 DEF Release
  <2> SUFFICES ASSUME ~inflow[w] PROVE OneConnection(w)' /\ HoldsOnlyKept(w)'
    BY <2>1 DEF AloneAt
  <2>2. holder' = [holder EXCEPT ![Key(Stage(w))] = Unlocked(Key(Stage(w)), w, Kept(w))]
    <3>1. CASE Stage(w) \in OnItsOwnConnection
      BY <1>6, <3>1 DEF Release, Kept
    <3>2. CASE Stage(w) \notin OnItsOwnConnection
      <4>1. pool[w] # <<>>
        BY <2>1, <3>2, <1>a DEF AloneAt, OneConnection
      <4> QED BY <1>6, <2>1, <3>2, <4>1 DEF Release, Kept, Longest
    <3> QED BY <3>1, <3>2
  <2>3. \A k \in Keys : holder'[k].worker # w
    <3> SUFFICES ASSUME NEW k \in Keys, holder'[k].worker = w PROVE FALSE
      OBVIOUS
    <3>1. holder[k].worker = w
      BY <2>2, UnlockTypes, KeysOnly, Assumptions
    <3>2. k = Key(Stage(w)) /\ holder[k].conn = Kept(w) /\ holder[k].depth <= 1
      BY <3>1, <1>a DEF AloneAt, HoldsOnlyKept
    <3>3. Unlocked(k, w, Kept(w)) = Free
      BY <3>1, <3>2 DEF Unlocked, HeldOn
    <3> QED BY <2>2, <3>2, <3>3, Assumptions DEF Free
  <2> QED BY <2>1, <2>3 DEF OneConnection, HoldsOnlyKept
<1>7. ASSUME Leave(w) PROVE AloneAt(w)'
  BY <1>7, <1>a DEF Leave, AloneAt, OneConnection, HoldsOnlyKept
<1>8. ASSUME End(w) \/ Crash(w) PROVE AloneAt(w)'
  <2>1. /\ pc'[w] = "idle" /\ pool'[w] = <<>> /\ \A k \in Keys : holder'[k].worker # w
    <3>1. /\ pc' = [pc EXCEPT ![w] = "idle"]
          /\ pool' = [pool EXCEPT ![w] = <<>>]
          /\ holder' = [k \in Keys |-> IF holder[k].worker = w THEN Free ELSE holder[k]]
      BY <1>8 DEF End, Crash, Dispose, Closed
    <3>2. \A k \in Keys : holder'[k].worker # w
      BY <3>1, Assumptions DEF Free
    <3> QED BY <3>1, <3>2
  <2> QED BY <2>1 DEF AloneAt, OneConnection, HoldsOnlyKept
<1>9. ASSUME DropIdle(w) PROVE AloneAt(w)'
  <2>1. PICK k \in Keys : holder' = [holder EXCEPT ![k] = Free] /\ UNCHANGED <<conns, pc, todo, inflow>>
    BY <1>9 DEF DropIdle
  <2>2. \A i \in Keys : holder'[i].worker = w => holder'[i] = holder[i]
    BY <2>1, Assumptions DEF Free
  <2>3. Stage(w)' = Stage(w) /\ Kept(w)' = Kept(w)
    BY <2>1 DEF conns, Stage, Kept
  <2> QED BY <2>1, <2>2, <2>3, <1>a DEF conns, AloneAt, OneConnection, HoldsOnlyKept
<1>10. AloneAt(w)'
  BY <1>1, <1>2, <1>3, <1>4, <1>5, <1>6, <1>7, <1>8, <1>9 DEF Step, Work, FailWork
<1>11. \A v \in Workers : v # w => AloneAt(v)'
  BY StaysLocal, OthersStayAlone DEF AloneAt
<1> QED BY <1>b, <1>10, <1>11 DEF Alone, AloneAt

LEMMA AloneInit == Init => Alone
<1> SUFFICES ASSUME Init PROVE Alone
  OBVIOUS
<1>1. \A w \in Workers, k \in Keys : holder[k].worker # w
  BY Assumptions DEF Init, Free
<1> QED BY <1>1 DEF Init, Alone, OneConnection, HoldsOnlyKept

LEMMA AloneNext == IInv /\ Alone /\ [Next]_vars => Alone'
<1>1. IInv /\ Alone /\ UNCHANGED vars => Alone'
  BY DEF vars, Alone, OneConnection, HoldsOnlyKept, Kept, Stage
<1> QED BY <1>1, AloneStep DEF Next

(* When the service of a lone stage has returned, its lock is free: the       *)
(* services lose locks only inside the workflow, where the pool holds the     *)
(* connection that comparison and extraction kept for theirs.                 *)
THEOREM LoneStagesRelease == Spec => []AloneReleasesItsLock
<1>1. IInv /\ Alone => AloneReleasesItsLock
  BY DEF Alone, HoldsOnlyKept, AloneReleasesItsLock, IInv
<1> QED BY <1>1, AloneInit, AloneNext, Invariant, PTL DEF Spec

-----------------------------------------------------------------------------
(* How much there can be: an invocation has at most two connections, and a    *)
(* lock that is never released nests once per stage at most.                  *)

One(c) == IF c = NoConn THEN 0 ELSE 1

(* Every connection is idle, the session's or the lock's.                     *)
Counted(w) ==
  /\ Len(pool[w]) + One(session[w]) + One(dedicated[w]) = opened[w]
  /\ opened[w] <= 2

(* When the session and held_advisory_lock have a connection.                 *)
Checked(w) ==
  /\ session[w] # NoConn => pc[w] \in {"node", "work", "finish", "end"}
  /\ dedicated[w] # NoConn => pc[w] \in {"work", "release"} /\ Stage(w) \in OnItsOwnConnection

Todos == {SubSeq(Workflow, i, 5) : i \in 1..6} \union {<<s>> : s \in Actors}

(* Which locks a worker may hold where it stands: before a stage only earlier *)
(* ones, after it also the stage's, unless it has a connection of its own.    *)
InOrder(w, k) ==
  /\ pc[w] \in {"node", "try"} => Level(k) < Level(Key(Stage(w)))
  /\ pc[w] \in {"work", "release"} => k = Key(Stage(w)) \/ Level(k) < Level(Key(Stage(w)))
  /\ pc[w] = "finish" =>
       \/ k = Key(Stage(w)) /\ Stage(w) \notin OnItsOwnConnection
       \/ Level(k) < Level(Key(Stage(w)))
  /\ pc[w] = "release" /\ k = Key(Stage(w)) /\ Stage(w) \in OnItsOwnConnection =>
       holder[k].conn = dedicated[w]

Held(w, k) == holder[k].conn \in 1..2 /\ holder[k].depth = 1 /\ InOrder(w, k)

Ordered(w) ==
  /\ todo[w] \in Todos
  /\ \A k \in Keys : holder[k].worker = w => Held(w, k)

Small ==
  /\ \A w \in Workers : Counted(w) /\ Checked(w) /\ Ordered(w)
  /\ \A k \in Keys : holder[k].worker = NoConn => holder[k] = Free
  /\ jobs \in 0..MaxJobs

LEMMA CountTakes ==
  ASSUME NEW p \in Seq(Nat), NEW o \in Nat, NEW x \in 0..1, Len(p) + x = o, o <= 2
  PROVE  /\ Others(p) \in Seq(Nat) /\ Grown(p, o) \in Nat
         /\ Len(Others(p)) + 1 + x = Grown(p, o)
         /\ Grown(p, o) <= 2
<1>1. CASE p = <<>>
  BY <1>1 DEF Others, Grown
<1>2. CASE p # <<>>
  <2>1. Len(p) \in Nat /\ Len(Tail(p)) = Len(p) - 1 /\ Tail(p) \in Seq(Nat)
    BY <1>2
  <2> QED BY <1>2, <2>1 DEF Others, Grown
<1> QED BY <1>1, <1>2

LEMMA CountStep ==
  ASSUME IInv, NEW w \in Workers, Counted(w),
         \/ session[w] = NoConn /\ dedicated[w] = NoConn /\ Takes(w)
         \/ session[w] = NoConn /\ Passes(w)
         \/ session[w] = NoConn /\ dedicated[w] = NoConn /\ TakesOwn(w)
         \/ Returns(w) \/ ReturnsOwn(w) \/ Closes(w) \/ UNCHANGED conns
  PROVE  Counted(w)' /\ (session[w] = NoConn => Longest(w) \in 1..2)
<1> DEFINE p == pool[w]
           o == opened[w]
           s == session[w]
           d == dedicated[w]
<1>1. /\ p \in Seq(Nat) /\ o \in Nat /\ s \in Nat /\ d \in Nat /\ Good(p, o, s, d)
      /\ opened \in [Workers -> Nat] /\ session \in [Workers -> Nat]
      /\ dedicated \in [Workers -> Nat] /\ pool \in [Workers -> Seq(Nat)]
  BY DEF IInv, ConnTypes, PoolsAreGood
<1>2. Longest(w) = First(p, o) /\ Rest(w) = Others(p) /\ Rotated(w) = Append(Others(p), First(p, o))
  BY DEF Longest, Rest, Rotated, First, Others
<1>3. First(p, o) \in 1..Grown(p, o)
  BY <1>1, FirstIsFresh
<1>4. Checkout(w) => opened' = [opened EXCEPT ![w] = Grown(p, o)]
  BY <1>1 DEF Checkout, Grown
<1>5. Len(p) + One(s) + One(d) = o /\ o <= 2 /\ Len(p) \in Nat
  BY <1>1 DEF Counted
<1>6. One(NoConn) = 0 /\ One(d) \in 0..1 /\ One(s) \in 0..1 /\ \A c : c # NoConn => One(c) = 1
  BY DEF One
<1>7. s = NoConn => /\ Others(p) \in Seq(Nat) /\ Grown(p, o) \in Nat
                    /\ Len(Others(p)) + 1 + One(d) = Grown(p, o)
                    /\ Grown(p, o) <= 2
  <2> SUFFICES ASSUME s = NoConn
               PROVE  /\ Others(p) \in Seq(Nat) /\ Grown(p, o) \in Nat
                      /\ Len(Others(p)) + 1 + One(d) = Grown(p, o) /\ Grown(p, o) <= 2
    OBVIOUS
  <2>1. Len(p) + One(d) = o
    BY <1>5, <1>6
  <2> HIDE DEF p, o, s, d
  <2> QED BY <1>1, <1>5, <1>6, <2>1, CountTakes
<1>8. s = NoConn => First(p, o) \in 1..2 /\ First(p, o) # NoConn
  BY <1>3, <1>7 DEF NoConn
<1>9. Counted(w)' <=> /\ Len(pool'[w]) + One(session'[w]) + One(dedicated'[w]) = opened'[w]
                       /\ opened'[w] <= 2
  BY DEF Counted, One
<1> SUFFICES Counted(w)'
  BY <1>2, <1>8
<1> HIDE DEF p, o, s, d
<1>10. CASE s = NoConn /\ d = NoConn /\ Takes(w)
  <2>1. /\ opened'[w] = Grown(p, o) /\ session'[w] = First(p, o) /\ pool'[w] = Others(p)
        /\ dedicated'[w] = d
    BY <1>1, <1>2, <1>4, <1>10 DEF Takes, BeginSession, d
  <2>2. One(First(p, o)) = 1 /\ One(d) = 0
    BY <1>6, <1>8, <1>10
  <2> QED BY <1>2, <1>6, <1>7, <1>8, <1>10, <1>9, <2>1, <2>2
<1>11. CASE s = NoConn /\ Passes(w)
  <2>1. /\ opened'[w] = Grown(p, o) /\ session'[w] = s
        /\ pool'[w] = Append(Others(p), First(p, o)) /\ dedicated'[w] = d
    BY <1>1, <1>2, <1>4, <1>11 DEF Passes, PassThrough, d, s
  <2>2. Len(pool'[w]) = Len(Others(p)) + 1
    BY <1>7, <1>8, <1>11, <2>1
  <2>3. One(s) = 0
    BY <1>6, <1>11
  <2>5. Len(Others(p)) \in Nat
    BY <1>7, <1>11
  <2> QED BY <1>6, <1>7, <1>11, <2>1, <2>2, <1>9, <2>3, <2>5
<1>12. CASE s = NoConn /\ d = NoConn /\ TakesOwn(w)
  <2>1. /\ opened'[w] = Grown(p, o) /\ session'[w] = s /\ pool'[w] = Others(p)
        /\ dedicated'[w] = First(p, o)
    BY <1>1, <1>2, <1>4, <1>12 DEF TakesOwn, s
  <2>2. One(First(p, o)) = 1 /\ One(d) = 0 /\ One(s) = 0
    BY <1>6, <1>8, <1>12
  <2>3. Len(Others(p)) \in Nat
    BY <1>7, <1>12
  <2> QED BY <1>2, <1>7, <1>8, <1>12, <1>9, <2>1, <2>2, <2>3
<1>13. CASE Returns(w)
  <2>1. /\ opened'[w] = o /\ session'[w] = NoConn /\ pool'[w] = Append(p, s)
        /\ dedicated'[w] = d /\ s # NoConn
    BY <1>1, <1>13 DEF Returns, EndSession, o, p, s, d
  <2>2. Len(Append(p, s)) = Len(p) + 1 /\ One(s) = 1
    BY <1>1, <1>6, <2>1
  <2> QED BY <1>1, <1>5, <1>6, <1>9, <2>1, <2>2
<1>14. CASE ReturnsOwn(w)
  <2>1. /\ opened'[w] = o /\ session'[w] = s /\ pool'[w] = Append(p, d)
        /\ dedicated'[w] = NoConn /\ d # NoConn
    BY <1>1, <1>14 DEF ReturnsOwn, o, p, s, d
  <2>2. Len(Append(p, d)) = Len(p) + 1 /\ One(d) = 1
    BY <1>1, <1>6, <2>1
  <2> QED BY <1>1, <1>5, <1>6, <1>9, <2>1, <2>2
<1>15. CASE Closes(w)
  <2>1. opened'[w] = 0 /\ session'[w] = NoConn /\ pool'[w] = <<>> /\ dedicated'[w] = NoConn
    BY <1>1, <1>15 DEF Closes
  <2> QED BY <1>6, <1>9, <2>1
<1>16. CASE UNCHANGED conns
  BY <1>16 DEF conns, Counted, One
<1> QED BY <1>10, <1>11, <1>12, <1>13, <1>14, <1>15, <1>16 DEF s, d

(* The parts of the workflow that are left to do.                             *)
LEMMA WorkflowParts ==
  \A i \in 1..6 : /\ SubSeq(Workflow, i, 5) \in Seq(Stages)
                  /\ Len(SubSeq(Workflow, i, 5)) = 6 - i
                  /\ \A j \in 1..(6 - i) : SubSeq(Workflow, i, 5)[j] = Workflow[i + j - 1]
<1>1. Workflow \in Seq(Stages) /\ Len(Workflow) = 5
  BY DEF Workflow, Stages
<1>2. TAKE i \in 1..6
<1>3. \A j \in i..5 : Workflow[j] \in Stages
  <2>1. \A j \in 1..5 : Workflow[j] \in Stages
    BY <1>1, LenProperties
  <2>2. i..5 \subseteq 1..5
    BY <1>2
  <2> QED BY <2>1, <2>2
<1>4. /\ SubSeq(Workflow, i, 5) \in Seq(Stages)
      /\ Len(SubSeq(Workflow, i, 5)) = IF i <= 5 THEN 5 - i + 1 ELSE 0
      /\ \A j \in 1..(5 - i + 1) : SubSeq(Workflow, i, 5)[j] = Workflow[i + j - 1]
  BY <1>2, <1>3, SubSeqProperties
<1>5. 5 - i + 1 = 6 - i /\ (~(i <= 5) => 6 - i = 0)
  BY <1>2
<1> QED BY <1>4, <1>5

(* What is left to do after a stage is what some invocation has to do.        *)
LEMMA TodoFacts ==
  ASSUME NEW t \in Todos
  PROVE  /\ Len(t) \in 0..5
         /\ t # <<>> => Len(t) >= 1 /\ Tail(t) \in Todos /\ Len(Tail(t)) = Len(t) - 1
<1>2. \A i \in 1..6 : /\ SubSeq(Workflow, i, 5) \in Seq(Stages)
                      /\ Len(SubSeq(Workflow, i, 5)) = 6 - i
                      /\ \A j \in 1..(6 - i) : SubSeq(Workflow, i, 5)[j] = Workflow[i + j - 1]
  BY WorkflowParts
<1>3. SubSeq(Workflow, 6, 5) = <<>>
  BY <1>2
<1>4. CASE t \in {<<s>> : s \in Actors}
  <2>1. PICK s : t = <<s>>
    BY <1>4
  <2>2. Len(t) = 1 /\ Tail(t) = <<>> /\ Len(Tail(t)) = 0
    BY <2>1
  <2>3. <<>> \in Todos
    BY <1>3 DEF Todos
  <2>4. Tail(t) \in Todos
    BY <2>2, <2>3
  <2>5. Len(t) \in 0..5 /\ Len(t) >= 1 /\ Len(Tail(t)) = Len(t) - 1
    BY <2>2
  <2> QED BY <2>4, <2>5
<1>5. CASE t \in {SubSeq(Workflow, i, 5) : i \in 1..6}
  <2>1. PICK i \in 1..6 : t = SubSeq(Workflow, i, 5)
    BY <1>5
  <2>2. t \in Seq(Stages) /\ Len(t) = 6 - i
    BY <1>2, <2>1
  <2>3. CASE i = 6
    BY <1>3, <2>1, <2>2, <2>3
  <2>4. CASE i # 6
    <3>1. i + 1 \in 1..6 /\ Len(t) >= 1 /\ t # <<>>
      <4>1. i + 1 \in 1..6 /\ 6 - i >= 1 /\ 6 - i # 0
        BY <2>1, <2>4
      <4>2. Len(<<>>) = 0
        BY EmptySeq
      <4> QED BY <2>2, <4>1, <4>2
    <3> DEFINE u == SubSeq(Workflow, i + 1, 5)
    <3>2. u \in Seq(Stages) /\ Len(u) = 5 - i /\ \A j \in 1..(5 - i) : u[j] = Workflow[i + j]
      <4>1. 6 - (i + 1) = 5 - i /\ \A j \in 1..(5 - i) : i + 1 + j - 1 = i + j
        OBVIOUS
      <4> QED BY <1>2, <3>1, <4>1
    <3>3. /\ Tail(t) \in Seq(Stages) /\ Len(Tail(t)) = 5 - i
          /\ \A j \in 1..(5 - i) : Tail(t)[j] = t[j + 1]
      BY <2>2, <3>1
    <3>4. \A j \in 1..(5 - i) : t[j + 1] = Workflow[i + j]
      <4>1. \A j \in 1..(5 - i) : j + 1 \in 1..(6 - i) /\ i + (j + 1) - 1 = i + j
        OBVIOUS
      <4> QED BY <1>2, <2>1, <4>1
    <3> HIDE DEF u
    <3>5. Tail(t) = u
      <4>1. \A j \in 1..Len(u) : Tail(t)[j] = u[j]
        BY <3>2, <3>3, <3>4
      <4> QED BY <3>2, <3>3, <4>1, SeqEqual
    <3>6. u \in Todos
      BY <3>1 DEF Todos, u
    <3>7. Tail(t) \in Todos
      BY <3>5, <3>6
    <3>8. Len(t) \in 0..5 /\ Len(Tail(t)) = Len(t) - 1
      BY <2>1, <2>2, <3>3
    <3> QED BY <3>1, <3>7, <3>8
  <2> QED BY <2>3, <2>4
<1> QED BY <1>4, <1>5 DEF Todos

(* The levels of the stages' locks.                                           *)
LEMMA Levels ==
  /\ Level(Key("process")) = 1 /\ Level(Key("compare")) = 2 /\ Level(Key("extract")) = 3
  /\ Level(Key("verify")) = 3 /\ Level(Key("analyze")) = 4
BY DEF Level, Key, FilingKey, ComparisonKey, FinancialKey, ContradictionKey

LEMMA LevelsAreNumbers == \A k : Level(k) \in 1..4
BY DEF Level

(* The lock of a stage of the workflow comes before the next stage's, or is   *)
(* the same one and held on a connection of its own.                          *)
LEMMA NextLevel ==
  ASSUME NEW t \in Todos, t # <<>>, Tail(t) # <<>>
  PROVE  /\ Level(Key(Head(t))) <= Level(Key(Head(Tail(t))))
         /\ Head(t) \notin OnItsOwnConnection => Level(Key(Head(t))) < Level(Key(Head(Tail(t))))
<1>1. t \notin {<<x>> : x \in Actors}
  <2>1. ASSUME NEW x \in Actors PROVE Tail(<<x>>) = <<>>
    OBVIOUS
  <2> QED BY <2>1
<1>2. PICK i \in 1..6 : t = SubSeq(Workflow, i, 5)
  BY <1>1 DEF Todos
<1>3. t \in Seq(Stages) /\ Len(t) = 6 - i /\ \A j \in 1..(6 - i) : t[j] = Workflow[i + j - 1]
  BY <1>2, WorkflowParts
<1>4. Tail(t) \in Seq(Stages) /\ Len(Tail(t)) = 5 - i /\ i \in 1..5
  <2>1. Len(t) # 0
    BY <1>3, EmptySeq
  <2>2. i \in 1..5
    BY <1>3, <2>1
  <2> QED BY <1>3, <2>2
<1>5. i \in 1..4
  <2>1. Len(Tail(t)) # 0
    BY <1>4, EmptySeq
  <2> QED BY <1>4, <2>1
<1>6. Head(t) = Workflow[i] /\ Head(Tail(t)) = Workflow[i + 1]
  <2>1. Head(t) = t[1] /\ Head(Tail(t)) = t[2]
    BY <1>3, <1>4, <1>5
  <2>2. 1 \in 1..(6 - i) /\ 2 \in 1..(6 - i) /\ i + 1 - 1 = i /\ i + 2 - 1 = i + 1
    BY <1>5
  <2> QED BY <1>3, <2>1, <2>2
<1>7. /\ Workflow[1] = "process" /\ Workflow[2] = "compare" /\ Workflow[3] = "extract"
      /\ Workflow[4] = "verify" /\ Workflow[5] = "analyze"
  BY DEF Workflow
<1>8. i = 1 \/ i = 2 \/ i = 3 \/ i = 4
  BY <1>5
<1> QED BY <1>6, <1>7, <1>8, Levels DEF OnItsOwnConnection

LEMMA OthersStaySmall ==
  ASSUME IInv, Alone, Small,
         NEW w \in Workers, Receive(w) \/ Step(w) \/ Crash(w) \/ DropIdle(w),
         NEW v \in Workers, v # w
  PROVE  Counted(v)' /\ Checked(v)' /\ Ordered(v)'
<1>1. /\ pc'[v] = pc[v] /\ todo'[v] = todo[v]
      /\ pool'[v] = pool[v] /\ session'[v] = session[v] /\ dedicated'[v] = dedicated[v]
      /\ \A k \in Keys : holder'[k].worker = v => holder'[k] = holder[k]
  BY StaysLocal
<1>2. opened'[v] = opened[v]
  BY DEF IInv, ConnTypes, Step, Receive, StartNode, SkipProcessing, TakeLock, LockRefused, Work,
     FailWork, EndWork, Release, FinishNode, PassGate, Leave, End, Crash, DropIdle, BeginSession,
     EndSession, PassThrough, Checkout, Dispose, conns
<1>3. Counted(v) /\ Checked(v) /\ Ordered(v)
  BY DEF Small
<1>4. Counted(v)'
  BY <1>1, <1>2, <1>3 DEF Counted, One
<1>5. Stage(v)' = Stage(v)
  BY <1>1 DEF Stage
<1>6. Checked(v)'
  BY <1>1, <1>3, <1>5 DEF Checked
<1>7. Ordered(v)'
  <2>1. ASSUME NEW k \in Keys, holder'[k].worker = v PROVE Held(v, k)'
    <3>1. Held(v, k)
      BY <1>1, <1>3, <2>1 DEF Ordered
    <3> QED BY <1>1, <1>5, <2>1, <3>1 DEF Held, InOrder
  <2> QED BY <1>1, <1>3, <2>1 DEF Ordered
<1> QED BY <1>4, <1>6, <1>7

LEMMA NobodysLocksAreFree ==
  ASSUME IInv, Small, NEW w \in Workers, Receive(w) \/ Step(w) \/ Crash(w) \/ DropIdle(w)
  PROVE  \A k \in Keys : holder'[k].worker = NoConn => holder'[k] = Free
<1> USE DEF IInv, LockTypes
<1>1. CASE TakeLock(w)
  BY <1>1, Assumptions DEF TakeLock, Locked, Small
<1>2. CASE Release(w)
  <2>1. PICK c : holder' = [holder EXCEPT ![Key(Stage(w))] = Unlocked(Key(Stage(w)), w, c)]
    BY <1>2 DEF Release
  <2>2. \A k \in Keys : Unlocked(k, w, c).worker = NoConn => Unlocked(k, w, c) = Free
    BY Assumptions DEF Unlocked, HeldOn, Small
  <2> QED BY <2>1, <2>2 DEF Small
<1>3. CASE End(w) \/ Crash(w)
  BY <1>3 DEF End, Crash, Dispose, Closed, Small
<1>4. CASE DropIdle(w)
  BY <1>4 DEF DropIdle, Small
<1>5. CASE holder' = holder
  BY <1>5 DEF Small
<1> QED BY <1>1, <1>2, <1>3, <1>4, <1>5
     DEF Step, Receive, StartNode, SkipProcessing, LockRefused, Work, FailWork, EndWork,
         FinishNode, PassGate, Leave

(* What the worker's own actions do.                                          *)
LEMMA SmallStep ==
  ASSUME IInv, Alone, Small, NEW w \in Workers, Receive(w) \/ Step(w) \/ Crash(w) \/ DropIdle(w)
  PROVE  Counted(w)' /\ Checked(w)' /\ Ordered(w)'
<1> USE DEF IInv, ConnTypes, LockTypes
<1> DEFINE Goal == Counted(w)' /\ Checked(w)' /\ Ordered(w)'
           j == Key(Stage(w))
<1>1. Counted(w) /\ Checked(w) /\ Ordered(w)
  BY DEF Small
<1>2. /\ todo[w] \in Todos
      /\ todo[w] # <<>> => Tail(todo[w]) \in Todos
  BY <1>1, TodoFacts DEF Ordered
<1>3. pc[w] \notin {"idle", "gate", "end"} => todo[w] # <<>>
  BY DEF StagesLeft
<1>4. \A k \in Keys : holder[k].worker = w => Held(w, k)
  BY <1>1 DEF Ordered
<1>5. \A k : Level(k) \in 1..4
  BY LevelsAreNumbers
(* The locks stay as they are, and are still in order.                        *)
<1>6. ASSUME holder' = holder, todo'[w] \in Todos,
             \A k \in Keys : holder[k].worker = w /\ InOrder(w, k) => InOrder(w, k)'
      PROVE  Ordered(w)'
  <2>1. ASSUME NEW k \in Keys, holder'[k].worker = w PROVE Held(w, k)'
    <3>1. holder'[k] = holder[k] /\ Held(w, k)
      BY <1>4, <1>6, <2>1
    <3> QED BY <1>6, <2>1, <3>1 DEF Held
  <2> QED BY <1>6, <2>1 DEF Ordered
<1> HIDE DEF j
<1>10. ASSUME Receive(w) PROVE Goal
  <2>1. pc[w] = "idle" /\ session[w] = NoConn /\ dedicated[w] = NoConn /\ dedicated' = dedicated
        /\ holder' = holder
    BY <1>1, <1>10 DEF Receive, Checked
  <2>2. Counted(w)'
    BY <1>1, <1>10, <2>1, CountStep DEF Receive, Takes, conns
  <2>3. PICK t, q : /\ todo' = [todo EXCEPT ![w] = t] /\ pc' = [pc EXCEPT ![w] = q]
                    /\ t \in Todos
                    /\ (q = "try" /\ session' = session) \/ q = "node"
    <3>1. Workflow \in Todos
      <4>1. Workflow = SubSeq(Workflow, 1, 5)
        BY DEF Workflow
      <4> QED BY <4>1 DEF Todos
    <3>2. \A s \in Actors : <<s>> \in Todos
      BY DEF Todos
    <3> QED BY <1>10, <3>1, <3>2 DEF Receive
  <2>4. pc'[w] = q /\ \A k \in Keys : holder'[k].worker # w
    BY <2>1, <2>3 DEF IdleHoldsNothing
  <2>5. Checked(w)'
    BY <2>1, <2>3, <2>4 DEF Checked
  <2>6. Ordered(w)'
    BY <2>3, <2>4 DEF Ordered
  <2> QED BY <2>2, <2>5, <2>6
<1>11. ASSUME StartNode(w) PROVE Goal
  <2>1. Counted(w)'
    BY <1>1, <1>11, CountStep DEF StartNode, Passes, Returns
  <2>2. pc[w] = "node" /\ pc' = [pc EXCEPT ![w] = "try"] /\ todo' = todo /\ holder' = holder
        /\ dedicated' = dedicated /\ session'[w] = NoConn
    BY <1>11 DEF StartNode, EndSession, PassThrough
  <2>3. Checked(w)'
    BY <1>1, <2>2 DEF Checked
  <2>4. Ordered(w)'
    BY <1>2, <1>6, <2>2 DEF InOrder, Stage
  <2> QED BY <2>1, <2>3, <2>4
<1>12. ASSUME SkipProcessing(w) \/ LockRefused(w) PROVE Goal
  <2>1. pc[w] = "try" /\ pc' = [pc EXCEPT ![w] = "finish"] /\ todo' = todo /\ holder' = holder
        /\ dedicated' = dedicated
    BY <1>12 DEF SkipProcessing, LockRefused
  <2>2. session[w] = NoConn /\ dedicated[w] = NoConn
    BY <1>1, <2>1 DEF Checked
  <2>3. Counted(w)'
    BY <1>1, <1>12, <2>2, CountStep DEF SkipProcessing, LockRefused, Passes, Takes
  <2>4. Checked(w)'
    BY <2>1, <2>2 DEF Checked
  <2>5. Ordered(w)'
    BY <1>2, <1>6, <2>1 DEF InOrder, Stage
  <2> QED BY <2>3, <2>4, <2>5
<1>13. ASSUME TakeLock(w) PROVE Goal
  <2> DEFINE c == Longest(w)
  <2>1. /\ pc[w] = "try" /\ pc' = [pc EXCEPT ![w] = "work"] /\ todo' = todo
        /\ holder[j] = Free \/ holder[j].worker = w
        /\ holder' = [holder EXCEPT ![j] = [worker |-> w, conn |-> c, depth |-> holder[j].depth + 1]]
    BY <1>13 DEF TakeLock, Lockable, HeldOn, Locked, j
  <2>2. session[w] = NoConn /\ dedicated[w] = NoConn
    BY <1>1, <2>1 DEF Checked
  <2>3. Counted(w)' /\ c \in 1..2
    BY <1>1, <1>13, <2>2, CountStep DEF TakeLock, TakesOwn, Takes
  <2>4. Checked(w)'
    <3>1. pc'[w] = "work" /\ Stage(w)' = Stage(w)
          /\ (Stage(w) \in OnItsOwnConnection \/ dedicated' = dedicated)
      BY <1>13, <2>1 DEF TakeLock, Stage
    <3> QED BY <2>2, <3>1 DEF Checked
  <2> HIDE DEF c
  <2>5. j \in Keys /\ j = Key(Stage(w)) /\ j' = j
    BY <2>1, KeysOnly DEF j, Stage
  <2>6. holder[j].worker # w
    <3>1. holder[j].worker = w => Level(j) < Level(j)
      BY <1>4, <2>1, <2>5 DEF Held, InOrder
    <3>2. Level(j) \in 1..4
      BY <1>5
    <3>3. ~(Level(j) < Level(j))
      BY <3>2
    <3> QED BY <3>1, <3>3
  <2>7. holder[j].depth = 0
    BY <2>1, <2>6 DEF Free
  <2>8. ASSUME NEW k \in Keys, holder'[k].worker = w PROVE Held(w, k)'
    <3>1. CASE k = j
      <4>1. holder'[k].conn = c /\ holder'[k].depth = 1
        BY <2>1, <2>5, <2>7, <3>1
      <4> QED BY <2>1, <2>3, <2>5, <3>1, <4>1 DEF Held, InOrder, j
    <3>2. CASE k # j
      <4>1. holder'[k] = holder[k] /\ Held(w, k)
        BY <1>4, <2>1, <2>8, <3>2
      <4>2. Level(k) < Level(j)
        BY <2>1, <2>5, <4>1 DEF Held, InOrder
      <4> QED BY <2>1, <2>5, <3>2, <4>1, <4>2 DEF Held, InOrder, j
    <3> QED BY <3>1, <3>2
  <2>9. Ordered(w)'
    BY <1>2, <2>1, <2>8 DEF Ordered
  <2> QED BY <2>3, <2>4, <2>9
<1>14. ASSUME EndWork(w) PROVE Goal
  <2>1. Counted(w)'
    BY <1>1, <1>14, CountStep DEF EndWork, Passes, Returns
  <2>2. pc[w] = "work" /\ pc' = [pc EXCEPT ![w] = "release"] /\ todo' = todo /\ holder' = holder
        /\ dedicated' = dedicated /\ session'[w] = NoConn
    BY <1>14 DEF EndWork, EndSession, PassThrough
  <2>3. Checked(w)'
    BY <1>1, <2>2 DEF Checked, Stage
  <2>4. Stage(w) \in OnItsOwnConnection => holder[Key(Stage(w))].conn = dedicated[w]
    BY <2>2 DEF WorkHoldsItsLock, LockConn, HeldOn
  <2>5. Ordered(w)'
    BY <1>2, <1>6, <2>2, <2>4 DEF InOrder, Stage
  <2> QED BY <2>1, <2>3, <2>5
<1>15. ASSUME Release(w) PROVE Goal
  <2>1. PICK c : /\ holder' = [holder EXCEPT ![j] = Unlocked(j, w, c)]
                 /\ Stage(w) \in OnItsOwnConnection => c = dedicated[w]
    BY <1>15 DEF Release, j
  <2>2. pc[w] = "release" /\ pc' = [pc EXCEPT ![w] = "finish"] /\ todo' = todo
    BY <1>15 DEF Release
  <2>3. session[w] = NoConn
    BY <1>1, <2>2 DEF Checked
  <2>4. Stage(w) \notin OnItsOwnConnection => dedicated[w] = NoConn
    BY <1>1, <2>2 DEF Checked
  <2>5. Stage(w) \in OnItsOwnConnection => dedicated[w] # NoConn
    BY <2>2 DEF ReleasesItsOwn
  <2>6. Counted(w)'
    BY <1>1, <1>15, <2>3, <2>4, <2>5, CountStep DEF Release, Takes, ReturnsOwn
  <2>7. Checked(w)'
    BY <1>15, <2>2, <2>4 DEF Release, Checked
  <2>8. j \in Keys /\ j = Key(Stage(w)) /\ Stage(w)' = Stage(w)
    BY <2>2, KeysOnly DEF j, Stage
  <2>9. ASSUME NEW k \in Keys, holder'[k].worker = w
        PROVE  holder'[k] = holder[k] /\ (Stage(w) \in OnItsOwnConnection => k # j)
    <3>1. CASE k # j
      BY <2>1, <3>1
    <3>2. CASE k = j
      <4>1. Unlocked(j, w, c).worker = w
        BY <2>1, <2>8, <2>9, <3>2
      <4>2. holder[j].worker = w
        BY <2>8, <4>1, UnlockTypes, Assumptions
      <4>3. Held(w, j)
        BY <1>4, <2>8, <4>2
      <4>4. ~HeldOn(j, w, c)
        <5>1. HeldOn(j, w, c) => Unlocked(j, w, c) = Free
          BY <4>3 DEF Unlocked, Held
        <5> QED BY <4>1, <5>1, Assumptions DEF Free
      <4>5. Unlocked(j, w, c) = holder[j]
        BY <4>4 DEF Unlocked
      <4>6. Stage(w) \notin OnItsOwnConnection
        BY <2>1, <2>2, <2>8, <4>2, <4>3, <4>4 DEF Held, InOrder, HeldOn
      <4> QED BY <2>1, <2>8, <3>2, <4>5, <4>6
    <3> QED BY <3>1, <3>2
  <2>10. ASSUME NEW k \in Keys, holder'[k].worker = w PROVE Held(w, k)'
    <3>1. holder'[k] = holder[k] /\ (Stage(w) \in OnItsOwnConnection => k # j)
      BY <2>9, <2>10
    <3>2. Held(w, k)
      BY <1>4, <2>10, <3>1
    <3> QED BY <2>2, <2>8, <3>1, <3>2 DEF Held, InOrder
  <2>11. Ordered(w)'
    BY <1>2, <2>2, <2>10 DEF Ordered
  <2> QED BY <2>6, <2>7, <2>11
<1>16. ASSUME FinishNode(w) PROVE Goal
  <2>1. Counted(w)'
    BY <1>1, <1>16, CountStep DEF FinishNode, Passes, Returns
  <2>2. PICK q \in {"gate", "node"} :
          /\ pc[w] = "finish" /\ pc' = [pc EXCEPT ![w] = q]
          /\ q = "node" => Len(todo[w]) # 1
          /\ todo' = [todo EXCEPT ![w] = Tail(todo[w])] /\ holder' = holder
          /\ dedicated' = dedicated /\ session'[w] = NoConn
    BY <1>16 DEF FinishNode, EndSession, PassThrough
  <2>3. Checked(w)'
    BY <1>1, <2>2 DEF Checked
  <2>4. todo[w] # <<>> /\ Tail(todo[w]) \in Todos
    BY <1>2, <1>3, <2>2
  <2>4_1. pc'[w] = q /\ todo'[w] \in Todos /\ holder' = holder
    BY <2>2, <2>4
  <2>5. ASSUME q = "gate" PROVE Ordered(w)'
    <3>1. \A k \in Keys : holder[k].worker = w /\ InOrder(w, k) => InOrder(w, k)'
      BY <2>4_1, <2>5 DEF InOrder
    <3> QED BY <1>6, <2>4_1, <3>1
  <2>6. ASSUME q = "node" PROVE Ordered(w)'
    <3>1. Tail(todo[w]) # <<>>
      <4>1. Len(Tail(todo[w])) = Len(todo[w]) - 1 /\ Len(todo[w]) \in Nat
        BY <1>2, <2>4, TodoFacts
      <4>2. Len(todo[w]) - 1 # 0
        BY <2>2, <2>6, <4>1
      <4> QED BY <4>1, <4>2, EmptySeq
    <3>2. /\ Level(Key(Head(todo[w]))) <= Level(Key(Head(Tail(todo[w]))))
          /\ Head(todo[w]) \notin OnItsOwnConnection =>
               Level(Key(Head(todo[w]))) < Level(Key(Head(Tail(todo[w]))))
      BY <1>2, <2>4, <3>1, NextLevel
    <3>3. Stage(w) = Head(todo[w]) /\ Stage(w)' = Head(Tail(todo[w]))
      BY <2>2 DEF Stage
    <3>4. ASSUME NEW k \in Keys, holder[k].worker = w, InOrder(w, k)
          PROVE  Level(k) < Level(Key(Stage(w)'))
      <4>1. \/ k = Key(Stage(w)) /\ Stage(w) \notin OnItsOwnConnection
            \/ Level(k) < Level(Key(Stage(w)))
        BY <2>2, <3>4 DEF InOrder
      <4>2. CASE k = Key(Stage(w)) /\ Stage(w) \notin OnItsOwnConnection
        BY <3>2, <3>3, <4>2
      <4>3. CASE Level(k) < Level(Key(Stage(w)))
        <5>1. Level(Key(Stage(w))) <= Level(Key(Stage(w)'))
          BY <3>2, <3>3
        <5>2. /\ Level(k) \in 1..4 /\ Level(Key(Stage(w))) \in 1..4
              /\ Level(Key(Stage(w)')) \in 1..4
          BY <1>5
        <5> QED BY <4>3, <5>1, <5>2
      <4> QED BY <4>1, <4>2, <4>3
    <3>5. \A k \in Keys : holder[k].worker = w /\ InOrder(w, k) => InOrder(w, k)'
      <4>1. pc'[w] = "node"
        BY <2>2, <2>6
      <4> QED BY <3>4, <4>1 DEF InOrder
    <3> QED BY <1>6, <2>4_1, <3>5
  <2>7. Ordered(w)'
    BY <2>5, <2>6
  <2> QED BY <2>1, <2>3, <2>7
<1>17. ASSUME PassGate(w) \/ Leave(w) PROVE Goal
  <2>1. Counted(w)'
    BY <1>1, <1>17, CountStep DEF PassGate, Leave
  <2>2. pc[w] \in {"gate", "finish"} /\ pc' = [pc EXCEPT ![w] = "end"] /\ todo' = todo
        /\ holder' = holder /\ UNCHANGED conns
    BY <1>17 DEF PassGate, Leave
  <2>3. Checked(w)'
    BY <1>1, <2>2 DEF Checked, conns
  <2>4. Ordered(w)'
    BY <1>2, <1>6, <2>2 DEF InOrder
  <2> QED BY <2>1, <2>3, <2>4
<1>18. ASSUME End(w) \/ Crash(w) PROVE Goal
  <2>1. Counted(w)'
    BY <1>1, <1>18, CountStep DEF End, Crash, Dispose, Closes
  <2>2. /\ pc'[w] = "idle" /\ todo'[w] = <<>> /\ session'[w] = NoConn /\ dedicated'[w] = NoConn
        /\ holder' = [k \in Keys |-> IF holder[k].worker = w THEN Free ELSE holder[k]]
    BY <1>18 DEF End, Crash, Dispose, Closed
  <2>3. \A k \in Keys : holder'[k].worker # w
    BY <2>2, Assumptions DEF Free
  <2>4. <<>> \in Todos
    <3>1. SubSeq(Workflow, 6, 5) = <<>>
      BY SubSeqEmpty
    <3> QED BY <3>1 DEF Todos
  <2> QED BY <2>1, <2>2, <2>3, <2>4 DEF Checked, Ordered
<1>19. ASSUME DropIdle(w) PROVE Goal
  <2>1. PICK k \in Keys : /\ holder' = [holder EXCEPT ![k] = Free]
                          /\ UNCHANGED <<conns, pc, todo>>
    BY <1>19 DEF DropIdle
  <2>2. \A i \in Keys : holder'[i].worker = w => holder'[i] = holder[i]
    BY <2>1, Assumptions DEF Free
  <2>3. Counted(w)'
    BY <1>1, <2>1, CountStep
  <2>4. Checked(w)'
    BY <1>1, <2>1 DEF Checked, conns, Stage
  <2>5. ASSUME NEW i \in Keys, holder'[i].worker = w PROVE Held(w, i)'
    <3>1. holder'[i] = holder[i] /\ Held(w, i)
      BY <1>4, <2>2, <2>5
    <3>2. pc' = pc /\ dedicated' = dedicated /\ Stage(w)' = Stage(w)
      BY <2>1 DEF conns, Stage
    <3> QED BY <3>1, <3>2 DEF Held, InOrder
  <2>6. Ordered(w)'
    BY <1>2, <2>1, <2>5 DEF Ordered
  <2> QED BY <2>3, <2>4, <2>6
<1> QED BY <1>10, <1>11, <1>12, <1>13, <1>14, <1>15, <1>16, <1>17, <1>18, <1>19
        DEF Step, Work, FailWork

LEMMA SmallInit == Init => Small
<1> SUFFICES ASSUME Init PROVE Small
  OBVIOUS
<1>1. \A k \in Keys : holder[k] = Free
  BY DEF Init
<1>2. \A w \in Workers : Counted(w) /\ Checked(w)
  <2>1. \A w \in Workers : /\ pool[w] = <<>> /\ opened[w] = 0
                            /\ session[w] = NoConn /\ dedicated[w] = NoConn
    BY DEF Init
  <2>2. One(NoConn) = 0 /\ Len(<<>>) = 0
    BY EmptySeq DEF One
  <2>3. ASSUME NEW w \in Workers
        PROVE  Len(pool[w]) = 0 /\ One(session[w]) = 0 /\ One(dedicated[w]) = 0 /\ opened[w] = 0
    BY <2>1, <2>2
  <2>4. ASSUME NEW w \in Workers PROVE Counted(w)
    <3>1. Len(pool[w]) + One(session[w]) + One(dedicated[w]) = opened[w] /\ opened[w] <= 2
      <4>1. 0 + 0 + 0 = 0 /\ 0 <= 2
        OBVIOUS
      <4>2. Len(pool[w]) = 0 /\ One(session[w]) = 0 /\ One(dedicated[w]) = 0 /\ opened[w] = 0
        BY <2>3
      <4> QED BY <4>1, <4>2, Zenon
    <3> QED BY <3>1 DEF Counted
  <2> QED BY <2>1, <2>4 DEF Checked
<1>3. <<>> \in Todos
  <2>1. SubSeq(Workflow, 6, 5) = <<>>
    BY SubSeqEmpty
  <2> QED BY <2>1 DEF Todos
<1>4. \A w \in Workers : Ordered(w)
  BY <1>1, <1>3, Assumptions DEF Init, Ordered, Free
<1>5. jobs \in 0..MaxJobs
  BY Assumptions DEF Init
<1> QED BY <1>1, <1>2, <1>4, <1>5 DEF Small

LEMMA SmallNext == IInv /\ Alone /\ Small /\ [Next]_vars => Small'
<1> SUFFICES ASSUME IInv, Alone, Small, [Next]_vars PROVE Small'
  OBVIOUS
<1>1. CASE UNCHANGED vars
  BY <1>1 DEF vars, Small, Counted, Checked, Ordered, Held, InOrder, One, Stage
<1>2. ASSUME NEW w \in Workers, Receive(w) \/ Step(w) \/ Crash(w) \/ DropIdle(w) PROVE Small'
  <2>1. jobs' \in 0..MaxJobs
    <3>1. jobs \in 0..MaxJobs /\ MaxJobs \in Nat
      BY Assumptions DEF Small
    <3>2. (jobs < MaxJobs /\ jobs' = jobs + 1) \/ jobs' = jobs
      BY <1>2 DEF Step, Receive, StartNode, SkipProcessing, TakeLock, LockRefused, Work,
         FailWork, EndWork, Release, FinishNode, PassGate, Leave, End, Crash, DropIdle
    <3> QED BY <3>1, <3>2
  <2>2. \A v \in Workers : Counted(v)' /\ Checked(v)' /\ Ordered(v)'
    BY <1>2, SmallStep, OthersStaySmall
  <2>3. \A k \in Keys : holder'[k].worker = NoConn => holder'[k] = Free
    BY <1>2, NobodysLocksAreFree
  <2> QED BY <2>1, <2>2, <2>3 DEF Small
<1> QED BY <1>1, <1>2 DEF Next

(* For any workers and messages, a stage that is about to take its lock finds *)
(* its worker holding only locks that come earlier in the documented order,   *)
(* whatever the stages before it left locked on the connections of the pool.  *)
THEOREM LocksFollowTheOrder == Spec => []LocksAreTakenInOrder
<1>1. Small => LocksAreTakenInOrder
  BY DEF Small, Ordered, Held, InOrder, LocksAreTakenInOrder
<1> QED BY <1>1, AloneInit, AloneNext, SmallInit, SmallNext, Invariant, PTL DEF Spec

(* The variables the other invariants do not speak of.                        *)
Plain ==
  /\ ok \in [Workers -> BOOLEAN] /\ done \subseteq Stages /\ passed \in [Workers -> BOOLEAN]

LEMMA PlainNext == IInv /\ Plain /\ [Next]_vars => Plain'
<1> SUFFICES ASSUME IInv, Plain, [Next]_vars PROVE Plain'
  OBVIOUS
<1>1. CASE UNCHANGED vars
  BY <1>1 DEF vars, Plain
<1>2. ASSUME NEW w \in Workers, Work(w) PROVE Plain'
  <2>1. todo[w] \in Seq(Stages) /\ todo[w] # <<>>
    BY <1>2 DEF Work, EndWork, IInv, LockTypes, StagesLeft
  <2>2. Stage(w) \in Stages
    BY <2>1, HeadTailProperties DEF Stage
  <2> QED BY <1>2, <2>2 DEF Work, EndWork, Plain
<1>3. ASSUME NEW w \in Workers, LockRefused(w) PROVE Plain'
  <2>1. (Stage(w) \in {"process", "compare"} => Stage(w) \in done) \in BOOLEAN
    OBVIOUS
  <2> QED BY <1>3, <2>1 DEF LockRefused, Plain
<1>4. ASSUME NEW w \in Workers, Step(w), ~Work(w), ~LockRefused(w) PROVE Plain'
  BY <1>4 DEF Step, Plain, StartNode, SkipProcessing, TakeLock, FailWork, EndWork, Release,
     FinishNode, PassGate, Leave, End
<1>5. ASSUME NEW w \in Workers, Receive(w) \/ Crash(w) \/ DropIdle(w) PROVE Plain'
  BY <1>5 DEF Receive, Crash, DropIdle, Plain
<1> QED BY <1>1, <1>2, <1>3, <1>4, <1>5 DEF Next

(* For any number of workers and messages every variable has its type: an     *)
(* invocation never has more than two connections beside the run lock's       *)
(* (db/session.py), however its stages interleave with the pool, and never    *)
(* holds a lock twice over.                                                   *)
THEOREM TypeCorrect == Spec => []TypeOK
<1>1. Init => Plain
  BY DEF Init, Plain
<1>2. IInv /\ Alone /\ Small /\ Plain => TypeOK
  <2> SUFFICES ASSUME IInv, Alone, Small, Plain PROVE TypeOK
    OBVIOUS
  <2> USE DEF IInv, ConnTypes, LockTypes
  <2>1. ASSUME NEW w \in Workers
        PROVE  /\ opened[w] \in 0..2 /\ session[w] \in 0..2 /\ dedicated[w] \in 0..2
               /\ pool[w] \in UNION {[1..n -> 1..2] : n \in 0..2}
    <3> DEFINE p == pool[w]
    <3>1. /\ Good(p, opened[w], session[w], dedicated[w]) /\ Counted(w)
          /\ opened[w] \in Nat /\ session[w] \in Nat /\ dedicated[w] \in Nat /\ p \in Seq(Nat)
      BY DEF PoolsAreGood, Small
    <3>2. Len(p) \in Nat /\ One(session[w]) \in 0..1 /\ One(dedicated[w]) \in 0..1
      BY <3>1 DEF One
    <3>3. opened[w] \in 0..2 /\ Len(p) \in 0..2
      <4>1. Len(p) + One(session[w]) + One(dedicated[w]) = opened[w] /\ opened[w] <= 2
        BY <3>1 DEF Counted
      <4>2. ASSUME NEW l \in Nat, NEW a \in 0..1, NEW b \in 0..1, l + a + b <= 2
            PROVE  l + a + b \in 0..2 /\ l \in 0..2
        BY <4>2
      <4>3. Len(p) + One(session[w]) + One(dedicated[w]) <= 2
        BY <4>1
      <4>4. Len(p) + One(session[w]) + One(dedicated[w]) \in 0..2 /\ Len(p) \in 0..2
        BY <3>2, <4>2, <4>3
      <4> QED BY <4>1, <4>4
    <3>4. session[w] \in 0..2 /\ dedicated[w] \in 0..2
      BY <3>1, <3>3 DEF Good
    <3>5. \A i \in 1..Len(p) : p[i] \in 1..2
      BY <3>1, <3>3 DEF Good
    <3>6. p \in [1..Len(p) -> Nat]
      BY <3>1, LenProperties
    <3> HIDE DEF p
    <3>7. p \in [1..Len(p) -> 1..2]
      BY <3>5, <3>6
    <3>8. p \in UNION {[1..n -> 1..2] : n \in 0..2}
      BY <3>3, <3>7
    <3> QED BY <3>3, <3>4, <3>8 DEF p
  <2>2. pool \in [Workers -> UNION {[1..n -> 1..2] : n \in 0..2}]
    BY <2>1
  <2>3. /\ opened \in [Workers -> 0..2] /\ session \in [Workers -> 0..2]
        /\ dedicated \in [Workers -> 0..2]
    BY <2>1
  <2>4. ASSUME NEW k \in Keys PROVE holder[k] \in Locks
    <3> DEFINE h == holder[k]
    <3>1. h \in [worker : Workers \union {NoConn}, conn : Nat, depth : Nat]
      OBVIOUS
    <3>2. CASE h.worker = NoConn
      BY <3>2 DEF Small, Locks
    <3>3. CASE h.worker \in Workers
      <4> DEFINE w == h.worker
      <4>1. h.conn \in 1..2 /\ h.depth \in {1}
        BY <3>3 DEF Small, Ordered, Held
      <4> HIDE DEF w
      <4>8. h = [worker |-> h.worker, conn |-> h.conn, depth |-> h.depth]
        BY <3>1
      <4> HIDE DEF h
      <4>9. h \in [worker : Workers, conn : 1..2, depth : {1}]
        BY <3>3, <4>1, <4>8
      <4> QED BY <4>9 DEF Locks, h
    <3> QED BY <3>1, <3>2, <3>3
  <2>5. holder \in [Keys -> Locks]
    <3>1. holder = [k \in Keys |-> holder[k]]
      OBVIOUS
    <3> HIDE DEF IInv, ConnTypes, LockTypes
    <3> QED BY <2>4, <3>1
  <2>6. todo \in [Workers -> Todos] /\ jobs \in 0..MaxJobs
    <3>1. \A w \in Workers : todo[w] \in Todos
      BY DEF Small, Ordered
    <3> QED BY <3>1 DEF Small
  <2> QED BY <2>2, <2>3, <2>5, <2>6 DEF TypeOK, Todos, Plain, Alone
<1> QED BY <1>1, <1>2, AloneInit, AloneNext, SmallInit, SmallNext, PlainNext, Invariant, PTL DEF Spec

=============================================================================
