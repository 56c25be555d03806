---------------------------- MODULE Pool_proofs ----------------------------
(***************************************************************************)
(* Proofs about the connection pool: about its readers (ReaderPool), for   *)
(* every number of readers, every finite set of coroutines, every storm    *)
(* limit and every number of faults; about its writer (WriterConn), for    *)
(* every set of writes, every storm limit and every number of faults and   *)
(* cancellations; and about the two side by side (PoolMC).                 *)
(***************************************************************************)
EXTENDS PoolMC, FiniteSetTheorems, SequenceTheorems, TLAPS

-----------------------------------------------------------------------------
(* The inductive invariant.                                                *)

\* SlotsConserved, with what makes the cardinalities meaningful.
Counted == IsFiniteSet(repl) /\ SlotsConserved

\* Whoever heals found a lost slot and is alone under the heal lock, so the slot
\* is still lost when the open returns and the deficit never goes negative.
HealBound ==
    \A c \in Clients : client[c].pc = "heal" =>
        /\ lost > 0
        /\ \A d \in Clients : client[d].pc = "heal" => d = c

\* Until the teardown clears the list, a replacement finds its slot in it.
SlotsThere ==
    state \in {"ready", "closing"} =>
        /\ Len(slots) > 0
        /\ \A r \in repl : r.idx <= Len(slots)

\* A connection number is never given twice.
Known ==
    /\ \A i \in DOMAIN queue : queue[i] <= opened
    /\ \A c \in InUse : client[c].conn \in 1 .. opened
    /\ \A r \in repl : r.old <= opened

\* HeldOnce, and the same between a use and a replacement, and two replacements.
Separate ==
    /\ HeldOnce
    /\ \A c \in InUse : \A r \in repl : r.old # client[c].conn
    /\ \A r, s \in repl : r.old = s.old => r = s

IInv == TypeOK /\ Counted /\ HealBound /\ SlotsThere /\ Known /\ Separate

-----------------------------------------------------------------------------
(* Lemmas: how the set of coroutines that use a reader moves.              *)

ClientType ==
    client \in [Clients -> [pc : {"idle", "wait", "timeout", "heal", "use"}, conn : Nat]]

\* A coroutine that goes from elsewhere to elsewhere leaves the users alone.
LEMMA UseSame ==
    ASSUME ClientType, NEW c \in Clients, client[c].pc # "use",
           NEW pc, pc # "use", Goto(c, pc, None)
    PROVE  /\ InUse' = InUse
           /\ \A d \in InUse : client'[d] = client[d]
    BY DEF ClientType, Goto, InUse

\* A coroutine that gets a connection is one user more.
LEMMA UseGrows ==
    ASSUME ClientType, NEW c \in Clients, client[c].pc # "use",
           NEW conn, Goto(c, "use", conn)
    PROVE  /\ InUse' = InUse \cup {c}
           /\ Cardinality(InUse') = Cardinality(InUse) + 1
           /\ client'[c].conn = conn
           /\ \A d \in InUse : d # c /\ client'[d] = client[d]
<1>1. InUse' = InUse \cup {c} /\ c \notin InUse
  BY DEF ClientType, Goto, InUse
<1>2. IsFiniteSet(InUse)
  BY ReaderAssumption, FS_Subset DEF InUse
<1>3. Cardinality(InUse') = Cardinality(InUse) + 1
  BY <1>1, <1>2, FS_AddElement
<1>4. client'[c].conn = conn /\ \A d \in InUse : d # c /\ client'[d] = client[d]
  BY DEF ClientType, Goto, InUse
<1> QED
  BY <1>1, <1>3, <1>4

\* A coroutine that gives its connection up is one user less.
LEMMA UseShrinks ==
    ASSUME ClientType, NEW c \in Clients, client[c].pc = "use", Goto(c, "idle", None)
    PROVE  /\ InUse' = InUse \ {c}
           /\ c \in InUse
           /\ Cardinality(InUse') = Cardinality(InUse) - 1
           /\ \A d \in InUse' : client'[d] = client[d]
<1>1. InUse' = InUse \ {c} /\ c \in InUse
  BY DEF ClientType, Goto, InUse
<1>2. IsFiniteSet(InUse)
  BY ReaderAssumption, FS_Subset DEF InUse
<1>3. Cardinality(InUse') = Cardinality(InUse) - 1
  BY <1>1, <1>2, FS_RemoveElement
<1>4. \A d \in InUse' : client'[d] = client[d]
  BY <1>1 DEF ClientType, Goto, InUse
<1> QED
  BY <1>1, <1>3, <1>4

\* The counts are natural numbers.
LEMMA CountsAreNat ==
    ASSUME IsFiniteSet(repl)
    PROVE  Cardinality(InUse) \in Nat /\ Cardinality(repl) \in Nat /\ N \in Nat
<1>1. IsFiniteSet(InUse)
  BY ReaderAssumption, FS_Subset DEF InUse
<1> QED
  BY <1>1, FS_CardinalityType, ReaderAssumption

\* A replacement that ends is one of the counted ones.
LEMMA ReplEnds ==
    ASSUME IsFiniteSet(repl), NEW r \in repl
    PROVE  /\ IsFiniteSet(repl \ {r})
           /\ Cardinality(repl \ {r}) = Cardinality(repl) - 1
    BY FS_RemoveElement

\* A replacement that starts is one more.
LEMMA ReplStarts ==
    ASSUME IsFiniteSet(repl), NEW r, r \notin repl
    PROVE  /\ IsFiniteSet(repl \cup {r})
           /\ Cardinality(repl \cup {r}) = Cardinality(repl) + 1
    BY FS_AddElement

-----------------------------------------------------------------------------
(* Lemmas: what a put and a get do to the queue.                           *)

Conns == Nat \ {None}

\* A put adds one connection at the end, if there is room.
LEMMA PutOne ==
    ASSUME queue \in Seq(Conns), NEW conn \in Conns, Put(conn)
    PROVE  /\ queue' \in Seq(Conns)
           /\ Len(queue) < N => Len(queue') = Len(queue) + 1
           /\ \A i \in DOMAIN queue' :
                 \/ i \in DOMAIN queue /\ queue'[i] = queue[i]
                 \/ i = Len(queue) + 1 /\ queue'[i] = conn
<1>1. CASE Len(queue) < N
  <2>1. queue' = Append(queue, conn)
    BY <1>1 DEF Put
  <2>2. /\ queue' \in Seq(Conns) /\ Len(queue') = Len(queue) + 1
        /\ \A i \in 1 .. Len(queue) : queue'[i] = queue[i]
        /\ queue'[Len(queue) + 1] = conn
    BY <2>1, AppendProperties
  <2>3. DOMAIN queue' = 1 .. Len(queue') /\ DOMAIN queue = 1 .. Len(queue)
        /\ Len(queue) \in Nat
    BY <2>2, LenProperties
  <2> QED
    BY <2>2, <2>3
<1>2. CASE ~(Len(queue) < N)
  BY <1>2 DEF Put
<1> QED
  BY <1>1, <1>2

\* A get takes the first connection and moves the others up.
LEMMA TakeOne ==
    ASSUME queue \in Seq(Conns), queue # <<>>, queue' = Tail(queue)
    PROVE  /\ queue' \in Seq(Conns)
           /\ Len(queue') = Len(queue) - 1
           /\ Head(queue) \in Conns
           /\ Head(queue) = queue[1]
           /\ 1 \in DOMAIN queue
           /\ \A i \in DOMAIN queue' : i + 1 \in DOMAIN queue /\ i \in Nat \ {0}
                                       /\ queue'[i] = queue[i + 1]
<1>1. /\ Head(queue) \in Conns /\ Tail(queue) \in Seq(Conns)
      /\ Len(Tail(queue)) = Len(queue) - 1
      /\ \A i \in 1 .. Len(Tail(queue)) : Tail(queue)[i] = queue[i + 1]
  BY HeadTailProperties
<1>2. /\ DOMAIN queue = 1 .. Len(queue) /\ Len(queue) \in Nat
      /\ DOMAIN queue' = 1 .. Len(queue')
  BY <1>1, LenProperties
<1>3. Len(queue) # 0
  BY EmptySeq
<1>4. Head(queue) = queue[1]
  BY HeadTailProperties
<1> QED
  BY <1>1, <1>2, <1>3, <1>4

-----------------------------------------------------------------------------
(* Each action preserves the invariant.                                    *)

Accounts == Counted /\ HealBound /\ SlotsThere /\ Known /\ Separate

\* A coroutine that moves without holding a connection.  One that goes to heal
\* has found a lost slot, alone under the lock.
LEMMA Moves ==
    ASSUME IInv, NEW c \in Clients, client[c].pc # "use",
           NEW pc \in {"idle", "wait", "timeout", "heal"}, Goto(c, pc, None),
           pc = "heal" => lost > 0 /\ \A d \in Clients : client[d].pc # "heal",
           UNCHANGED <<state, queue, slots, lost, repl>>,
           opened' \in Nat, opened' >= opened
    PROVE  ClientType' /\ Accounts'
<1>1. ClientType /\ opened \in Nat
  BY DEF IInv, TypeOK, ClientType
<1>2. InUse' = InUse /\ \A d \in InUse : client'[d] = client[d]
  BY <1>1, UseSame
<1>3. ClientType'
  BY <1>1 DEF ClientType, Goto, None
<1>4. Counted'
  BY <1>2 DEF IInv, Counted, SlotsConserved
<1>5. HealBound'
  <2>1. \A d \in Clients : d # c => client'[d] = client[d]
    BY <1>1 DEF ClientType, Goto
  <2>2. client'[c].pc = pc
    BY <1>1 DEF ClientType, Goto
  <2> QED
    BY <2>1, <2>2 DEF IInv, HealBound
<1>6. SlotsThere'
  BY DEF IInv, SlotsThere
<1>7. Known'
  <2>1. opened \in Nat /\ queue' = queue /\ repl' = repl
    BY <1>1
  <2>2. \A i \in DOMAIN queue' : queue'[i] \in Nat /\ queue'[i] <= opened
    BY <2>1, ElementOfSeq, LenProperties DEF IInv, TypeOK, Known
  <2>3. \A d \in InUse' : client'[d].conn \in 1 .. opened
    BY <1>2 DEF IInv, Known
  <2>4. \A r \in repl' : r.old \in Nat /\ r.old <= opened
    BY <2>1 DEF IInv, TypeOK, Known
  <2> QED
    BY <2>1, <2>2, <2>3, <2>4 DEF Known
<1>8. Separate'
  BY <1>2 DEF IInv, Separate, HeldOnce
<1> QED
  BY <1>3, <1>4, <1>5, <1>6, <1>7, <1>8 DEF Accounts

\* Asking for a reader moves one coroutine.
LEMMA AskStep ==
    ASSUME IInv, NEW c \in Clients, Ask(c)
    PROVE  IInv'
<1>1. opened' \in Nat /\ opened' >= opened
  BY DEF IInv, TypeOK, Ask
<1>2. ClientType' /\ Accounts'
  BY <1>1, Moves DEF Ask
<1> QED
  BY <1>2 DEF IInv, Accounts, TypeOK, ClientType, Ask

\* So does the timeout,
LEMMA TimeOutStep ==
    ASSUME IInv, NEW c \in Clients, TimeOut(c)
    PROVE  IInv'
<1>1. opened' \in Nat /\ opened' >= opened
  BY DEF IInv, TypeOK, TimeOut
<1>2. ClientType' /\ Accounts'
  BY <1>1, Moves DEF TimeOut
<1> QED
  BY <1>2 DEF IInv, Accounts, TypeOK, ClientType, TimeOut

\* the entry under the heal lock, which tests both parts of HealBound,
LEMMA EnterHealStep ==
    ASSUME IInv, NEW c \in Clients, EnterHeal(c)
    PROVE  IInv'
<1>1. opened' \in Nat /\ opened' >= opened
  BY DEF IInv, TypeOK, EnterHeal
<1>2. CASE lost > 0
  <2>1. ClientType' /\ Accounts'
    BY <1>1, <1>2, Moves DEF EnterHeal
  <2> QED
    BY <2>1 DEF IInv, Accounts, TypeOK, ClientType, EnterHeal
<1>3. CASE ~(lost > 0)
  <2>1. ClientType' /\ Accounts'
    BY <1>1, <1>3, Moves DEF EnterHeal
  <2> QED
    BY <2>1 DEF IInv, Accounts, TypeOK, ClientType, EnterHeal
<1> QED
  BY <1>2, <1>3

\* an abandoned checkout,
LEMMA LeaveStep ==
    ASSUME IInv, NEW c \in Clients, Leave(c)
    PROVE  IInv'
<1>1. opened' \in Nat /\ opened' >= opened
  BY DEF IInv, TypeOK, Leave
<1>2. ClientType' /\ Accounts'
  BY <1>1, Moves DEF Leave
<1> QED
  BY <1>2 DEF IInv, Accounts, TypeOK, ClientType, Leave

\* and an open that fails, with or without a connection left behind.
LEMMA HealFailsStep ==
    ASSUME IInv, NEW c \in Clients, HealFails(c)
    PROVE  IInv'
<1>1. opened' \in Nat /\ opened' >= opened /\ open' \subseteq Nat /\ faults' \in Nat
  <2>1. opened \in Nat /\ open \subseteq Nat /\ faults \in Nat
    BY DEF IInv, TypeOK
  <2>2. faults' = faults + 1 /\ (OpenFresh \/ UNCHANGED <<open, opened>>)
    BY DEF HealFails, Fault
  <2>3. CASE OpenFresh
    BY <2>1, <2>2, <2>3 DEF OpenFresh, Fresh
  <2>4. CASE UNCHANGED <<open, opened>>
    BY <2>1, <2>2, <2>4
  <2> QED
    BY <2>2, <2>3, <2>4
<1>2. ClientType' /\ Accounts'
  BY <1>1, Moves DEF HealFails
<1> QED
  BY <1>1, <1>2 DEF IInv, Accounts, TypeOK, ClientType, HealFails

\* A checkout takes one connection from the queue to one coroutine.
LEMMA TakeStep ==
    ASSUME IInv, NEW c \in Clients, Take(c)
    PROVE  IInv'
<1> DEFINE conn == Head(queue)
<1>1. ClientType /\ queue \in Seq(Conns) /\ Len(queue) \in Nat /\ opened \in Nat
      /\ lost \in Nat
  BY LenProperties DEF IInv, TypeOK, ClientType, Conns
<1>2. /\ queue' \in Seq(Conns) /\ Len(queue') = Len(queue) - 1
      /\ conn \in Conns /\ conn = queue[1] /\ 1 \in DOMAIN queue
      /\ \A i \in DOMAIN queue' : i + 1 \in DOMAIN queue /\ i \in Nat \ {0}
                                  /\ queue'[i] = queue[i + 1]
  BY <1>1, TakeOne DEF Take
<1>3. /\ InUse' = InUse \cup {c} /\ Cardinality(InUse') = Cardinality(InUse) + 1
      /\ client'[c].conn = conn
      /\ \A d \in InUse : d # c /\ client'[d] = client[d]
  BY <1>1, UseGrows DEF Take
<1>4. UNCHANGED <<state, cursor, slots, healthy, lost, repl, recent, open, opened, faults>>
  BY DEF Take
<1>5. TypeOK'
  BY <1>1, <1>2, <1>4 DEF IInv, TypeOK, Take, Goto, Conns, None, ClientType
<1>6. Counted'
  <2>1. Cardinality(InUse) \in Nat /\ Cardinality(repl) \in Nat /\ N \in Nat
    BY CountsAreNat DEF IInv, Counted
  <2> QED
    BY <1>1, <1>2, <1>3, <1>4, <2>1, SMTT(30) DEF IInv, Counted, SlotsConserved
<1>7. HealBound'
  <2>1. \A d \in Clients : client'[d].pc = "heal" => client[d].pc = "heal"
    BY <1>1 DEF ClientType, Goto, Take
  <2> QED
    BY <1>4, <2>1 DEF IInv, HealBound
<1>8. SlotsThere'
  BY <1>4 DEF IInv, SlotsThere
<1>9. Known'
  <2>1. conn \in 1 .. opened
    BY <1>1, <1>2, SMTT(30) DEF IInv, Known, Conns, None
  <2> QED
    BY <1>2, <1>3, <1>4, <2>1 DEF IInv, Known
<1>10. Separate'
  <2>1. \A i, j \in DOMAIN queue' : queue'[i] = queue'[j] => i = j
    <3>1. SUFFICES ASSUME NEW i \in DOMAIN queue', NEW j \in DOMAIN queue',
                          queue'[i] = queue'[j]
                   PROVE  i = j
      OBVIOUS
    <3>2. i + 1 = j + 1
      BY <1>2, <3>1 DEF IInv, Separate, HeldOnce
    <3> QED
      BY <1>2, <3>2
  <2>2. \A i \in DOMAIN queue' : queue'[i] # conn
    <3>1. SUFFICES ASSUME NEW i \in DOMAIN queue', queue'[i] = conn PROVE FALSE
      OBVIOUS
    <3>2. i + 1 = 1 /\ i \in Nat \ {0}
      BY <1>2, <3>1 DEF IInv, Separate, HeldOnce
    <3> QED
      BY <3>2
  <2>3. \A d \in InUse : client[d].conn # conn
    BY <1>2 DEF IInv, Separate, HeldOnce
  <2>4. \A r \in repl : r.old # conn
    BY <1>2 DEF IInv, Separate, HeldOnce
  <2> HIDE DEF conn
  <2>5. \A a, b \in InUse' : client'[a].conn = client'[b].conn => a = b
    BY <1>3, <2>3 DEF IInv, Separate, HeldOnce
  <2>6. \A i \in DOMAIN queue' : \A a \in InUse' : client'[a].conn # queue'[i]
    BY <1>2, <1>3, <2>2 DEF IInv, Separate, HeldOnce
  <2>7. \A i \in DOMAIN queue' : \A r \in repl' : r.old # queue'[i]
    BY <1>2, <1>4 DEF IInv, Separate, HeldOnce
  <2>8. \A a \in InUse' : \A r \in repl' : r.old # client'[a].conn
    BY <1>3, <1>4, <2>4 DEF IInv, Separate
  <2>9. \A r, s \in repl' : r.old = s.old => r = s
    BY <1>4 DEF IInv, Separate
  <2> QED
    BY <2>1, <2>5, <2>6, <2>7, <2>8, <2>9 DEF Separate, HeldOnce
<1> QED
  BY <1>5, <1>6, <1>7, <1>8, <1>9, <1>10 DEF IInv

\* A heal turns a lost slot into a connection in use.
LEMMA HealStep ==
    ASSUME IInv, NEW c \in Clients, Heal(c)
    PROVE  IInv'
<1>1. ClientType /\ opened \in Nat /\ lost \in Nat /\ slots \in Seq(Conns)
      /\ Fresh \in Conns /\ Fresh = opened + 1
  BY DEF IInv, TypeOK, ClientType, Conns, Fresh, None
<1>2. /\ InUse' = InUse \cup {c} /\ Cardinality(InUse') = Cardinality(InUse) + 1
      /\ client'[c].conn = Fresh
      /\ \A d \in InUse : d # c /\ client'[d] = client[d]
  BY <1>1, UseGrows DEF Heal
<1>3. /\ UNCHANGED <<state, cursor, queue, repl, recent, faults>>
      /\ opened' = Fresh /\ open' = open \cup {Fresh}
      /\ lost' = lost - 1 /\ lost > 0
  BY DEF Heal, OpenFresh, IInv, HealBound
<1>4. slots' \in Seq(Conns) /\ Len(slots') >= Len(slots) /\ Len(slots) \in Nat
  <2>1. Len(slots) \in Nat
    BY <1>1, LenProperties
  <2>2. CASE slots' = Append(slots, Fresh)
    BY <1>1, <2>1, <2>2, AppendProperties
  <2>3. CASE slots' = [slots EXCEPT ![FirstUnhealthy] = Fresh]
    <3>1. CASE FirstUnhealthy \in 1 .. Len(slots)
      BY <1>1, <2>1, <2>3, <3>1, ExceptSeq
    <3>2. CASE FirstUnhealthy \notin 1 .. Len(slots)
      <4>1. slots' = slots
        BY <1>1, <2>3, <3>2, LenProperties
      <4> QED
        BY <1>1, <2>1, <4>1
    <3> QED
      BY <3>1, <3>2
  <2> QED
    BY <2>2, <2>3, <2>1 DEF Heal, Adopt
<1>5. healthy' \in [0 .. N -> BOOLEAN]
  BY DEF IInv, TypeOK, Heal, Adopt
<1>6. client' \in [Clients -> [pc : {"idle", "wait", "timeout", "heal", "use"}, conn : Nat]]
  BY <1>1 DEF ClientType, Heal, Goto, Conns
<1>7. TypeOK'
  BY <1>1, <1>3, <1>4, <1>5, <1>6 DEF IInv, TypeOK, Conns
<1>8. Counted'
  <2>1. Cardinality(InUse) \in Nat /\ Cardinality(repl) \in Nat /\ N \in Nat
    BY CountsAreNat DEF IInv, Counted
  <2>2. Len(queue) \in Nat
    BY LenProperties DEF IInv, TypeOK
  <2> QED
    BY <1>1, <1>2, <1>3, <2>1, <2>2, SMTT(30) DEF IInv, Counted, SlotsConserved
<1>9. HealBound'
  <2>1. \A d \in Clients : client'[d].pc = "heal" => client[d].pc = "heal" /\ d # c
    BY <1>1 DEF ClientType, Goto, Heal
  <2>2. \A d \in Clients : client[d].pc = "heal" => d = c
    BY DEF IInv, HealBound, Heal
  <2> QED
    BY <2>1, <2>2 DEF HealBound
<1>10. SlotsThere'
  <2>1. \A r \in repl : r.idx \in Nat
    BY DEF IInv, TypeOK
  <2> QED
    BY <1>3, <1>4, <2>1, LenProperties DEF IInv, SlotsThere
<1>11. Known'
  <2>1. /\ \A i \in DOMAIN queue : queue[i] \in Nat
        /\ \A r \in repl : r.old \in Nat
    BY LenProperties, ElementOfSeq DEF IInv, TypeOK
  <2> QED
    BY <1>1, <1>2, <1>3, <2>1 DEF IInv, Known
<1>12. Separate'
  <2>1. /\ \A i \in DOMAIN queue : queue[i] # Fresh
        /\ \A d \in InUse : client[d].conn # Fresh
        /\ \A r \in repl : r.old # Fresh
    BY <1>1 DEF IInv, Known
  <2>2. \A a, b \in InUse' : client'[a].conn = client'[b].conn => a = b
    BY <1>2, <2>1 DEF IInv, Separate, HeldOnce
  <2>3. \A a \in InUse' : /\ \A i \in DOMAIN queue' : client'[a].conn # queue'[i]
                          /\ \A r \in repl' : r.old # client'[a].conn
    BY <1>2, <1>3, <2>1 DEF IInv, Separate, HeldOnce
  <2> QED
    BY <1>3, <2>2, <2>3 DEF IInv, Separate, HeldOnce
<1> QED
  BY <1>7, <1>8, <1>9, <1>10, <1>11, <1>12 DEF IInv

\* A release puts the connection of one coroutine back into the queue.
LEMMA ReleaseStep ==
    ASSUME IInv, NEW c \in Clients, Release(c)
    PROVE  IInv'
<1> DEFINE conn == client[c].conn
<1>1. ClientType /\ queue \in Seq(Conns) /\ opened \in Nat /\ lost \in Nat
      /\ Len(queue) \in Nat
  BY LenProperties DEF IInv, TypeOK, ClientType, Conns
<1>2. c \in InUse /\ conn \in 1 .. opened /\ conn \in Conns
  BY <1>1 DEF Release, InUse, IInv, Known, Conns, None
<1>3. UNCHANGED <<state, cursor, slots, healthy, lost, repl, recent, open, opened, faults>>
      /\ Put(conn) /\ Goto(c, "idle", None)
  BY DEF Release
<1>4. /\ queue' \in Seq(Conns)
      /\ Len(queue) < N => Len(queue') = Len(queue) + 1
      /\ \A i \in DOMAIN queue' :
            \/ i \in DOMAIN queue /\ queue'[i] = queue[i]
            \/ i = Len(queue) + 1 /\ queue'[i] = conn
  BY <1>1, <1>2, <1>3, PutOne
<1>5. /\ InUse' = InUse \ {c} /\ Cardinality(InUse') = Cardinality(InUse) - 1
      /\ \A d \in InUse' : client'[d] = client[d]
  BY <1>1, <1>3, UseShrinks DEF Release
<1>6. TypeOK'
  BY <1>1, <1>3, <1>4 DEF IInv, TypeOK, Goto, Conns, None
<1>7. Counted'
  <2>1. Cardinality(InUse) \in Nat /\ Cardinality(InUse') \in Nat
        /\ Cardinality(repl) \in Nat /\ N \in Nat
    <3>1. IsFiniteSet(InUse')
      BY ReaderAssumption, FS_Subset DEF InUse
    <3> QED
      BY <3>1, CountsAreNat, FS_CardinalityType DEF IInv, Counted
  <2>2. SUFFICES ASSUME state \in {"ready", "closing"}
                 PROVE  Len(queue') + Cardinality(InUse') + Cardinality(repl) + lost = N
    BY <1>3 DEF IInv, Counted, SlotsConserved
  <2>3. Len(queue) + Cardinality(InUse) + Cardinality(repl) + lost = N
    BY <2>2 DEF IInv, Counted, SlotsConserved
  <2>4. Len(queue) < N
    BY <1>1, <1>5, <2>1, <2>3
  <2>5. Len(queue') = Len(queue) + 1 /\ Cardinality(InUse') = Cardinality(InUse) - 1
    BY <1>4, <1>5, <2>4
  <2> QED
    BY <1>1, <2>1, <2>3, <2>5
<1>8. HealBound'
  <2>1. \A d \in Clients : client'[d].pc = "heal" => client[d].pc = "heal"
    BY <1>1, <1>3 DEF ClientType, Goto
  <2> QED
    BY <1>3, <2>1 DEF IInv, HealBound
<1>9. SlotsThere'
  BY <1>3 DEF IInv, SlotsThere
<1> HIDE DEF conn
<1>10. Known'
  <2>1. \A i \in DOMAIN queue' : queue'[i] <= opened
    BY <1>1, <1>2, <1>4 DEF IInv, Known
  <2> QED
    BY <1>3, <1>5, <2>1 DEF IInv, Known
<1>11. Separate'
  <2>1. /\ \A i \in DOMAIN queue : queue[i] # conn
        /\ \A d \in InUse' : client[d].conn # conn
        /\ \A r \in repl : r.old # conn
    BY <1>2, <1>5 DEF IInv, Separate, HeldOnce, conn
  <2>2. \A i, j \in DOMAIN queue' : queue'[i] = queue'[j] => i = j
    BY <1>4, <2>1 DEF IInv, Separate, HeldOnce
  <2>3. \A a, b \in InUse' : client'[a].conn = client'[b].conn => a = b
    BY <1>5 DEF IInv, Separate, HeldOnce
  <2>4. \A i \in DOMAIN queue' : /\ \A a \in InUse' : client'[a].conn # queue'[i]
                                 /\ \A r \in repl' : r.old # queue'[i]
    BY <1>3, <1>4, <1>5, <2>1 DEF IInv, Separate, HeldOnce
  <2> QED
    BY <1>3, <1>5, <2>2, <2>3, <2>4 DEF IInv, Separate, HeldOnce
<1> QED
  BY <1>6, <1>7, <1>8, <1>9, <1>10, <1>11 DEF IInv

\* A loss turns a use into a replacement.
LEMMA LoseStep ==
    ASSUME IInv, NEW c \in Clients, Lose(c)
    PROVE  IInv'
<1> DEFINE conn == client[c].conn
           r0 == [old |-> conn, idx |-> IndexOf(conn), pc |-> "mark"]
<1>1. ClientType /\ opened \in Nat /\ lost \in Nat /\ slots \in Seq(Conns)
      /\ Len(slots) \in Nat /\ DOMAIN slots = 1 .. Len(slots) /\ Len(queue) \in Nat
  BY LenProperties DEF IInv, TypeOK, ClientType, Conns
<1>2. c \in InUse /\ conn \in 1 .. opened
  BY <1>1 DEF Lose, InUse, IInv, Known
<1>3. IndexOf(conn) \in 0 .. Len(slots)
  BY <1>1 DEF IndexOf, Places, NotFound
<1>4. UNCHANGED <<state, cursor, queue, slots, healthy, lost, recent, open, opened>>
      /\ repl' = repl \cup {r0} /\ Goto(c, "idle", None) /\ faults' = faults + 1
  BY DEF Lose, Fault
<1>5. r0 \notin repl /\ \A r \in repl : r.old # conn
  BY <1>2 DEF IInv, Separate
<1>6. /\ InUse' = InUse \ {c} /\ Cardinality(InUse') = Cardinality(InUse) - 1
      /\ \A d \in InUse' : client'[d] = client[d]
  BY <1>1, <1>4, UseShrinks DEF Lose
<1>7. TypeOK'
  <2>1. r0 \in [old : Nat, idx : Nat, pc : {"mark", "open"}]
    BY <1>1, <1>2, <1>3
  <2>2. ClientType'
    BY <1>1, <1>4 DEF ClientType, Goto, None
  <2> QED
    BY <1>4, <2>1, <2>2 DEF IInv, TypeOK, ClientType
<1>8. Counted'
  <2>1. Cardinality(InUse) \in Nat /\ Cardinality(repl) \in Nat /\ N \in Nat
    BY CountsAreNat DEF IInv, Counted
  <2>2. IsFiniteSet(repl') /\ Cardinality(repl') = Cardinality(repl) + 1
    BY <1>4, <1>5, ReplStarts DEF IInv, Counted
  <2> QED
    BY <1>1, <1>4, <1>6, <2>1, <2>2, SMTT(30) DEF IInv, Counted, SlotsConserved
<1>9. HealBound'
  <2>1. \A d \in Clients : client'[d].pc = "heal" => client[d].pc = "heal"
    BY <1>1, <1>4 DEF ClientType, Goto
  <2> QED
    BY <1>4, <2>1 DEF IInv, HealBound
<1>10. SlotsThere'
  BY <1>1, <1>3, <1>4 DEF IInv, SlotsThere
<1>11. Known'
  BY <1>1, <1>2, <1>4, <1>6 DEF IInv, Known
<1>12. Separate'
  <2>1. /\ \A i \in DOMAIN queue : queue[i] # conn
        /\ \A d \in InUse' : client[d].conn # conn
    BY <1>2, <1>6 DEF IInv, Separate, HeldOnce
  <2>2. \A r \in repl' : r \in repl \/ r.old = conn
    BY <1>4
  <2> HIDE DEF conn
  <2>3. HeldOnce'
    BY <1>4, <1>6, <2>1, <2>2 DEF IInv, Separate, HeldOnce
  <2>4. \A a \in InUse' : \A r \in repl' : r.old # client'[a].conn
    BY <1>6, <2>1, <2>2 DEF IInv, Separate
  <2>5. \A r, s \in repl' : r.old = s.old => r = s
    BY <1>4, <1>5 DEF IInv, Separate
  <2> QED
    BY <2>3, <2>4, <2>5 DEF Separate
<1> QED
  BY <1>7, <1>8, <1>9, <1>10, <1>11, <1>12 DEF IInv

\* The storm guard turns a replacement into a lost slot; otherwise it goes on.
LEMMA MarkStep ==
    ASSUME IInv, NEW r \in repl, Mark(r)
    PROVE  IInv'
<1> DEFINE q == [r EXCEPT !.pc = "open"]
<1>1. /\ r \in [old : Nat, idx : Nat, pc : {"mark", "open"}]
      /\ recent \in Nat /\ lost \in Nat /\ Len(queue) \in Nat
  BY LenProperties DEF IInv, TypeOK
<1>2. q \in [old : Nat, idx : Nat, pc : {"mark", "open"}] /\ q.old = r.old /\ q.idx = r.idx
  BY <1>1
<1>3. /\ UNCHANGED <<state, cursor, queue, slots, client, opened, faults>>
      /\ recent' = recent + 1 /\ healthy' = [healthy EXCEPT ![r.idx] = FALSE]
  BY DEF Mark
<1>4. \/ repl' = repl \ {r} /\ lost' = lost + 1 /\ open' = open
      \/ repl' = (repl \ {r}) \cup {q} /\ lost' = lost /\ open' = open \ {r.old}
  BY DEF Mark
<1>5. q \notin repl \ {r}
  BY <1>2 DEF IInv, Separate
<1>6. \A s \in repl' : s \in repl \/ s = q
  BY <1>4
<1> HIDE DEF q
<1>7. TypeOK'
  <2>1. /\ recent' \in Nat /\ lost' \in Nat /\ open' \subseteq open
        /\ repl' \subseteq repl \cup {q}
    BY <1>1, <1>3, <1>4
  <2>2. healthy' \in [0 .. N -> BOOLEAN]
    BY <1>3 DEF IInv, TypeOK
  <2> QED
    BY <1>2, <1>3, <2>1, <2>2 DEF IInv, TypeOK
<1>8. Counted'
  <2>1. Cardinality(InUse) \in Nat /\ Cardinality(repl) \in Nat /\ N \in Nat
    BY CountsAreNat DEF IInv, Counted
  <2>2. IsFiniteSet(repl \ {r}) /\ Cardinality(repl \ {r}) = Cardinality(repl) - 1
    BY ReplEnds DEF IInv, Counted
  <2>3. InUse' = InUse
    BY <1>3 DEF InUse
  <2>4. CASE repl' = repl \ {r} /\ lost' = lost + 1
    BY <1>1, <1>3, <2>1, <2>2, <2>3, <2>4, SMTT(30) DEF IInv, Counted, SlotsConserved
  <2>5. CASE repl' = (repl \ {r}) \cup {q} /\ lost' = lost
    <3>1. IsFiniteSet(repl') /\ Cardinality(repl') = Cardinality(repl \ {r}) + 1
      BY <1>5, <2>2, <2>5, FS_AddElement
    <3>2. Cardinality(repl') = Cardinality(repl)
      BY <2>1, <2>2, <3>1
    <3> QED
      BY <1>3, <2>3, <2>5, <3>1, <3>2, SMTT(30) DEF IInv, Counted, SlotsConserved
  <2> QED
    BY <1>4, <2>4, <2>5
<1>9. HealBound'
  BY <1>1, <1>3, <1>4 DEF IInv, HealBound
<1>10. SlotsThere'
  BY <1>2, <1>3, <1>6 DEF IInv, SlotsThere
<1>11. Known'
  BY <1>2, <1>3, <1>6 DEF IInv, Known, InUse
<1>12. Separate'
  <2>1. InUse' = InUse /\ client' = client /\ queue' = queue
    BY <1>3 DEF InUse
  <2>2. \A s \in repl' : \E p \in repl : s.old = p.old
    BY <1>2, <1>6
  <2>3. \A s, p \in repl' : s.old = p.old => s = p
    BY <1>2, <1>4 DEF IInv, Separate
  <2>4. HeldOnce'
    BY <2>1, <2>2 DEF IInv, Separate, HeldOnce
  <2>5. \A c \in InUse' : \A s \in repl' : s.old # client'[c].conn
    BY <2>1, <2>2 DEF IInv, Separate
  <2> QED
    BY <2>3, <2>4, <2>5 DEF Separate
<1> QED
  BY <1>7, <1>8, <1>9, <1>10, <1>11, <1>12 DEF IInv

\* A failed open turns a replacement into a lost slot.
LEMMA ReplFailsStep ==
    ASSUME IInv, NEW r \in repl, ReplFails(r)
    PROVE  IInv'
<1>1. /\ UNCHANGED <<state, cursor, queue, slots, healthy, client, recent>>
      /\ repl' = repl \ {r} /\ lost' = lost + 1 /\ faults' = faults + 1
      /\ OpenFresh \/ UNCHANGED <<open, opened>>
  BY DEF ReplFails, Fault
<1>2. /\ opened \in Nat /\ open \subseteq Nat /\ faults \in Nat /\ lost \in Nat
      /\ Len(queue) \in Nat
  BY LenProperties DEF IInv, TypeOK
<1>3. opened' \in Nat /\ opened' >= opened /\ open' \subseteq Nat
  <2>1. CASE OpenFresh
    BY <1>2, <2>1 DEF OpenFresh, Fresh
  <2>2. CASE UNCHANGED <<open, opened>>
    BY <1>2, <2>2
  <2> QED
    BY <1>1, <2>1, <2>2
<1>4. InUse' = InUse
  BY <1>1 DEF InUse
<1>5. TypeOK'
  BY <1>1, <1>2, <1>3 DEF IInv, TypeOK
<1>6. Counted'
  <2>1. Cardinality(InUse) \in Nat /\ Cardinality(repl) \in Nat /\ N \in Nat
    BY CountsAreNat DEF IInv, Counted
  <2>2. IsFiniteSet(repl') /\ Cardinality(repl') = Cardinality(repl) - 1
    BY <1>1, ReplEnds DEF IInv, Counted
  <2> QED
    BY <1>1, <1>2, <1>4, <2>1, <2>2, SMTT(30) DEF IInv, Counted, SlotsConserved
<1>7. HealBound'
  BY <1>1, <1>2 DEF IInv, HealBound
<1>8. SlotsThere'
  BY <1>1 DEF IInv, SlotsThere
<1>9. Known'
  <2>1. /\ \A i \in DOMAIN queue : queue[i] \in Nat
        /\ \A s \in repl : s.old \in Nat
    BY LenProperties, ElementOfSeq DEF IInv, TypeOK
  <2> QED
    BY <1>1, <1>2, <1>3, <1>4, <2>1 DEF IInv, Known
<1>10. Separate'
  BY <1>1, <1>4 DEF IInv, Separate, HeldOnce
<1> QED
  BY <1>5, <1>6, <1>7, <1>8, <1>9, <1>10 DEF IInv

\* A replacement that succeeds turns into a connection of the queue.
LEMMA ReplaceStep ==
    ASSUME IInv, NEW r \in repl, Replace(r)
    PROVE  IInv'
<1> DEFINE i0 == IF r.idx = NotFound THEN Len(slots) ELSE r.idx
<1>1. /\ opened \in Nat /\ lost \in Nat /\ Len(queue) \in Nat /\ Len(slots) \in Nat
      /\ queue \in Seq(Conns) /\ slots \in Seq(Conns) /\ DOMAIN slots = 1 .. Len(slots)
      /\ Fresh \in Conns /\ Fresh = opened + 1 /\ r.idx \in Nat
  BY LenProperties DEF IInv, TypeOK, Conns, Fresh, None
<1>2. /\ UNCHANGED <<state, cursor, lost, client, recent, faults>>
      /\ repl' = repl \ {r} /\ opened' = Fresh /\ open' = open \cup {Fresh}
  BY DEF Replace, OpenFresh
<1>3. IF i0 \in DOMAIN slots
        THEN /\ slots' = [slots EXCEPT ![i0] = Fresh] /\ Put(Fresh)
             /\ healthy' = [healthy EXCEPT ![r.idx] = @ \/ Len(queue) < N]
        ELSE UNCHANGED <<slots, queue, healthy>>
  BY DEF Replace
<1>4. InUse' = InUse
  BY <1>2 DEF InUse
<1>5. state \in {"ready", "closing"} => i0 \in DOMAIN slots
  BY <1>1 DEF IInv, SlotsThere, NotFound
<1> HIDE DEF i0
<1>6. /\ queue' \in Seq(Conns)
      /\ (i0 \in DOMAIN slots /\ Len(queue) < N) => Len(queue') = Len(queue) + 1
      /\ \A i \in DOMAIN queue' :
            \/ i \in DOMAIN queue /\ queue'[i] = queue[i]
            \/ i = Len(queue) + 1 /\ queue'[i] = Fresh
  <2>1. CASE i0 \in DOMAIN slots
    BY <1>1, <1>3, <2>1, PutOne
  <2>2. CASE i0 \notin DOMAIN slots
    BY <1>1, <1>3, <2>2
  <2> QED
    BY <2>1, <2>2
<1>7. slots' \in Seq(Conns) /\ Len(slots') = Len(slots)
  <2>1. CASE i0 \in DOMAIN slots
    <3>1. slots' = [slots EXCEPT ![i0] = Fresh] /\ i0 \in 1 .. Len(slots)
      BY <1>1, <1>3, <2>1
    <3> QED
      BY <1>1, <3>1, ExceptSeq
  <2>2. CASE i0 \notin DOMAIN slots
    <3>1. slots' = slots
      BY <1>3, <2>2
    <3> QED
      BY <1>1, <3>1
  <2> QED
    BY <2>1, <2>2
<1>8. healthy' \in [0 .. N -> BOOLEAN]
  <2>1. healthy \in [0 .. N -> BOOLEAN]
    BY DEF IInv, TypeOK
  <2>2. CASE i0 \in DOMAIN slots
    <3>1. (healthy[r.idx] \/ Len(queue) < N) \in BOOLEAN
      OBVIOUS
    <3>2. healthy' = [healthy EXCEPT ![r.idx] = healthy[r.idx] \/ Len(queue) < N]
      BY <1>3, <2>2
    <3> QED
      BY <2>1, <3>1, <3>2
  <2> QED
    BY <1>3, <2>1, <2>2
<1>9. TypeOK'
  BY <1>1, <1>2, <1>6, <1>7, <1>8 DEF IInv, TypeOK, Conns
<1>10. Counted'
  <2>1. Cardinality(InUse) \in Nat /\ Cardinality(repl) \in Nat /\ N \in Nat
    BY CountsAreNat DEF IInv, Counted
  <2>2. /\ IsFiniteSet(repl') /\ Cardinality(repl') = Cardinality(repl) - 1
        /\ Cardinality(repl') \in Nat
    BY <1>2, ReplEnds, FS_CardinalityType DEF IInv, Counted
  <2>3. SUFFICES ASSUME state \in {"ready", "closing"}
                 PROVE  Len(queue') + Cardinality(InUse) + Cardinality(repl') + lost = N
    BY <1>2, <1>4, <2>2, SMTT(30) DEF IInv, Counted, SlotsConserved
  <2>4. Len(queue) + Cardinality(InUse) + Cardinality(repl) + lost = N
    BY <2>3 DEF IInv, Counted, SlotsConserved
  <2>5. Len(queue) < N
    BY <1>1, <2>1, <2>2, <2>4
  <2>6. Len(queue') = Len(queue) + 1
    BY <1>5, <1>6, <2>3, <2>5
  <2> QED
    BY <1>1, <2>1, <2>2, <2>4, <2>6
<1>11. HealBound'
  BY <1>2 DEF IInv, HealBound
<1>12. SlotsThere'
  BY <1>2, <1>7 DEF IInv, SlotsThere
<1>13. /\ \A i \in DOMAIN queue : queue[i] \in Nat /\ queue[i] # Fresh
       /\ \A s \in repl : s.old \in Nat /\ s.old # Fresh
       /\ \A d \in InUse : client[d].conn # Fresh
  <2>1. \A i \in DOMAIN queue : queue[i] \in Nat
    BY LenProperties, ElementOfSeq DEF IInv, TypeOK
  <2>2. \A s \in repl : s.old \in Nat
    BY DEF IInv, TypeOK
  <2> QED
    BY <1>1, <2>1, <2>2 DEF IInv, Known
<1>14. Known'
  <2>1. \A i \in DOMAIN queue' : queue'[i] <= opened'
    BY <1>1, <1>2, <1>6, <1>13 DEF IInv, Known
  <2>2. /\ \A d \in InUse : client[d].conn \in 1 .. opened'
        /\ \A s \in repl : s.old <= opened'
    BY <1>1, <1>2, <1>13 DEF IInv, Known
  <2> QED
    BY <1>2, <1>4, <2>1, <2>2 DEF Known
<1>15. Separate'
  <2>1. \A i, j \in DOMAIN queue' : queue'[i] = queue'[j] => i = j
    BY <1>6, <1>13 DEF IInv, Separate, HeldOnce
  <2>2. \A i \in DOMAIN queue' : /\ \A d \in InUse : client[d].conn # queue'[i]
                                 /\ \A s \in repl : s.old # queue'[i]
    BY <1>6, <1>13 DEF IInv, Separate, HeldOnce
  <2> QED
    BY <1>2, <1>4, <2>1, <2>2 DEF IInv, Separate, HeldOnce
<1> QED
  BY <1>9, <1>10, <1>11, <1>12, <1>14, <1>15 DEF IInv

\* The window of the storm guard is not part of the invariant.
LEMMA ExpireStep ==
    ASSUME IInv, Expire
    PROVE  IInv'
<1>1. UNCHANGED <<state, cursor, queue, slots, healthy, lost, client, repl, open, opened, faults>>
      /\ recent' = recent - 1 /\ recent > 0
  BY DEF Expire
<1>2. TypeOK'
  BY <1>1 DEF IInv, TypeOK
<1> QED
  BY <1>1, <1>2 DEF IInv, Counted, SlotsConserved, HealBound, SlotsThere, Known,
                    Separate, HeldOnce, InUse

\* The steps of the teardown that leave the queue alone.
LEMMA CloseStep ==
    ASSUME IInv, Close \/ CloseSlot
    PROVE  IInv'
<1>1. /\ UNCHANGED <<queue, healthy, lost, client, repl, recent, opened, faults>>
      /\ state' \in {"closing", "draining"} /\ state \in {"ready", "closing"}
      /\ open' \subseteq open
      /\ cursor' \in {cursor, cursor + 1}
      /\ (slots' = slots \/ (slots' = <<>> /\ state' = "draining"))
  BY DEF Close, CloseSlot
<1>2. TypeOK'
  <2>1. slots' \in Seq(Nat \ {None})
    BY <1>1, EmptySeq DEF IInv, TypeOK
  <2> QED
    BY <1>1, <2>1 DEF IInv, TypeOK
<1>3. InUse' = InUse
  BY <1>1 DEF InUse
<1>4. Counted' /\ HealBound' /\ Known' /\ Separate'
  BY <1>1, <1>3 DEF IInv, Counted, SlotsConserved, HealBound, Known, Separate, HeldOnce
<1>5. SlotsThere'
  BY <1>1 DEF IInv, SlotsThere
<1> QED
  BY <1>2, <1>4, <1>5 DEF IInv

\* The teardown's second loop takes from the queue.
LEMMA DrainStep ==
    ASSUME IInv, Drain
    PROVE  IInv'
<1>1. /\ UNCHANGED <<cursor, slots, healthy, lost, client, repl, recent, opened, faults>>
      /\ state' \in {"draining", "closed"} /\ open' \subseteq open
      /\ \/ queue # <<>> /\ queue' = Tail(queue)
         \/ queue' = queue
  BY DEF Drain
<1>2. InUse' = InUse
  BY <1>1 DEF InUse
<1>3. /\ queue' \in Seq(Conns)
      /\ \/ queue' = queue
         \/ \A i \in DOMAIN queue' : i + 1 \in DOMAIN queue /\ i \in Nat \ {0}
                                     /\ queue'[i] = queue[i + 1]
  <2>1. queue \in Seq(Conns)
    BY DEF IInv, TypeOK, Conns
  <2> QED
    BY <1>1, <2>1, TakeOne
<1>4. TypeOK'
  BY <1>1, <1>3 DEF IInv, TypeOK, Conns
<1>5. Counted' /\ HealBound' /\ SlotsThere'
  BY <1>1 DEF IInv, Counted, SlotsConserved, HealBound, SlotsThere
<1>6. Known'
  BY <1>1, <1>2, <1>3 DEF IInv, Known
<1>7. Separate'
  <2>1. \A i, j \in DOMAIN queue' : queue'[i] = queue'[j] => i = j
    <3>1. CASE queue' = queue
      BY <3>1 DEF IInv, Separate, HeldOnce
    <3>2. CASE \A i \in DOMAIN queue' : i + 1 \in DOMAIN queue /\ i \in Nat \ {0}
                                        /\ queue'[i] = queue[i + 1]
      <4>1. SUFFICES ASSUME NEW i \in DOMAIN queue', NEW j \in DOMAIN queue',
                            queue'[i] = queue'[j]
                     PROVE  i = j
        OBVIOUS
      <4>2. i + 1 = j + 1
        BY <3>2, <4>1 DEF IInv, Separate, HeldOnce
      <4> QED
        BY <3>2, <4>2
    <3> QED
      BY <1>3, <3>1, <3>2
  <2>2. \A i \in DOMAIN queue' : \E j \in DOMAIN queue : queue'[i] = queue[j]
    BY <1>3
  <2>3. \A i \in DOMAIN queue' : /\ \A c \in InUse : client[c].conn # queue'[i]
                                 /\ \A r \in repl : r.old # queue'[i]
    BY <2>2 DEF IInv, Separate, HeldOnce
  <2> QED
    BY <1>1, <1>2, <2>1, <2>3 DEF IInv, Separate, HeldOnce
<1> QED
  BY <1>4, <1>5, <1>6, <1>7 DEF IInv

-----------------------------------------------------------------------------
(* The invariant holds, and with it the safety properties.                 *)

\* The invariant holds when the pool is created.
LEMMA InitInv == Init => IInv
<1> SUFFICES ASSUME Init PROVE IInv
  OBVIOUS
<1>1. N \in Nat \ {0}
  BY ReaderAssumption
<1>2. queue \in Seq(Conns) /\ Len(queue) = N /\ DOMAIN queue = Slots /\ slots = queue
  BY <1>1 DEF Init, Slots, Conns, None
<1>3. InUse = {}
  BY DEF Init, InUse, Idle
<1>4. IsFiniteSet({}) /\ Cardinality({}) = 0
  BY FS_EmptySet
<1>5. TypeOK
  BY <1>1, <1>2 DEF Init, TypeOK, Conns, Idle, None, NotFound, Slots
<1>6. Counted
  BY <1>1, <1>2, <1>3, <1>4 DEF Init, Counted, SlotsConserved
<1>7. HealBound /\ SlotsThere /\ Known
  BY <1>1, <1>2, <1>3 DEF Init, HealBound, SlotsThere, Known, Idle, Slots
<1>8. Separate
  BY <1>2, <1>3 DEF Init, Separate, HeldOnce, Slots
<1> QED
  BY <1>5, <1>6, <1>7, <1>8 DEF IInv

\* Every step of the pool preserves the invariant.
LEMMA NextInv == IInv /\ [Next]_vars => IInv'
<1> SUFFICES ASSUME IInv, [Next]_vars PROVE IInv'
  OBVIOUS
<1>1. ASSUME NEW c \in Clients,
             \/ Ask(c) \/ Take(c) \/ TimeOut(c) \/ EnterHeal(c) \/ Heal(c)
             \/ HealFails(c) \/ Leave(c) \/ Release(c) \/ Lose(c)
      PROVE  IInv'
  BY <1>1, AskStep, TakeStep, TimeOutStep, EnterHealStep, HealStep, HealFailsStep,
     LeaveStep, ReleaseStep, LoseStep
<1>2. ASSUME NEW r \in repl, Mark(r) \/ ReplFails(r) \/ Replace(r)
      PROVE  IInv'
  BY <1>2, MarkStep, ReplFailsStep, ReplaceStep
<1>3. CASE Expire \/ Close \/ CloseSlot \/ Drain
  BY <1>3, ExpireStep, CloseStep, DrainStep
<1>4. CASE UNCHANGED vars
  BY <1>4, SMTT(30) DEF vars, IInv, TypeOK, Counted, SlotsConserved, HealBound, SlotsThere,
              Known, Separate, HeldOnce, InUse
<1> QED
  BY <1>1, <1>2, <1>3, <1>4 DEF Next

\* The invariant holds in every reachable state of the pool.
THEOREM Inductive == Spec => []IInv
  BY InitInv, NextInv, PTL DEF Spec

\* Every variable keeps its type, however many faults and losses there are.
THEOREM TypeCorrect == Spec => []TypeOK
<1>1. IInv => TypeOK
  BY DEF IInv
<1> QED
  BY <1>1, Inductive, PTL

\* db/pool.py:830-921 and 970-1057: no reader slot is ever gained or forgotten.
THEOREM SlotsConservedCorrect == Spec => []SlotsConserved
<1>1. IInv => SlotsConserved
  BY DEF IInv, Counted
<1> QED
  BY <1>1, Inductive, PTL

\* db/pool.py:830-921 and 970-1057: no connection is ever in two hands.
THEOREM HeldOnceCorrect == Spec => []HeldOnce
<1>1. IInv => HeldOnce
  BY DEF IInv, Separate
<1> QED
  BY <1>1, Inductive, PTL

-----------------------------------------------------------------------------
(* Every healthy slot holds a reader in circulation.  Distinct slots hold   *)
(* distinct readers, so there are at most as many healthy slots as readers *)
(* in circulation; SlotsConserved then says that a lost slot, or one whose *)
(* replacement is under way, leaves some slot unhealthy.                   *)

\* Idle, in use, or lost by a replacement that has not run yet.
Live ==
    {queue[i] : i \in DOMAIN queue} \cup {client[c].conn : c \in InUse}
    \cup {r.old : r \in {s \in repl : s.pc = "mark"}}

HealthyHolds ==
    state \in {"ready", "closing"} =>
        /\ Len(slots) >= N
        /\ \A i \in Slots : healthy[i] => slots[i] \in Live

\* Each connection of the list is in one slot, the one its replacement marks.
Placed ==
    /\ \A i \in DOMAIN slots : slots[i] <= opened
    /\ \A i, j \in DOMAIN slots : slots[i] = slots[j] => i = j
    /\ \A r \in repl : r.pc = "mark" =>
          \A j \in DOMAIN slots : slots[j] = r.old => j = r.idx

HInv == HealthyHolds /\ Placed

\* A step that leaves the slots alone keeps them, if nothing leaves circulation
\* but through a mark of its slot.
LEMMA HoldsKept ==
    ASSUME IInv, HInv, UNCHANGED <<state, slots>>, opened' \in Nat, opened' >= opened,
           \A i \in Slots : healthy'[i] => healthy[i],
           \A i \in Slots :
              (state \in {"ready", "closing"} /\ healthy'[i] /\ slots[i] \in Live)
                => slots[i] \in Live'
    PROVE  HealthyHolds' /\ \A i \in DOMAIN slots' : slots'[i] <= opened'
<1>1. HealthyHolds'
  BY DEF HInv, HealthyHolds, Slots
<1>2. \A i \in DOMAIN slots : slots[i] \in Nat
  BY LenProperties, ElementOfSeq DEF IInv, TypeOK
<1>3. \A i \in DOMAIN slots' : slots'[i] <= opened'
  BY <1>2 DEF HInv, Placed, IInv, TypeOK
<1> QED
  BY <1>1, <1>3

\* A step that touches neither slots, queue, replacements nor users keeps HInv.
LEMMA StillHolds ==
    ASSUME IInv, HInv, UNCHANGED <<state, slots, healthy, queue, repl>>,
           opened' \in Nat, opened' >= opened,
           InUse' = InUse, \A c \in InUse : client'[c] = client[c]
    PROVE  HInv'
<1>1. Live' = Live
  BY DEF Live
<1>2. HealthyHolds' /\ \A i \in DOMAIN slots' : slots'[i] <= opened'
  BY <1>1, HoldsKept
<1> QED
  BY <1>2 DEF HInv, Placed

\* Nothing enters or leaves circulation while a coroutine waits.
LEMMA MovesHolds ==
    ASSUME IInv, HInv, NEW c \in Clients,
           Ask(c) \/ TimeOut(c) \/ EnterHeal(c) \/ Leave(c) \/ HealFails(c)
    PROVE  HInv'
<1>1. ClientType /\ opened \in Nat
  BY DEF IInv, TypeOK, ClientType
<1>2. /\ client[c].pc # "use"
      /\ \E pc \in {"idle", "wait", "timeout", "heal"} : Goto(c, pc, None)
      /\ UNCHANGED <<state, slots, healthy, queue, repl>>
  BY DEF Ask, TimeOut, EnterHeal, Leave, HealFails
<1>3. InUse' = InUse /\ \A d \in InUse : client'[d] = client[d]
  BY <1>1, <1>2, UseSame
<1>4. opened' = opened \/ opened' = opened + 1
  BY DEF Ask, TimeOut, EnterHeal, Leave, HealFails, OpenFresh, Fresh
<1>5. opened' \in Nat /\ opened' >= opened
  BY <1>1, <1>4
<1> QED
  BY <1>2, <1>3, <1>5, StillHolds

\* A checkout keeps the connection in circulation.
LEMMA TakeHolds ==
    ASSUME IInv, HInv, NEW c \in Clients, Take(c)
    PROVE  HInv'
<1>1. ClientType /\ queue \in Seq(Conns) /\ Len(queue) \in Nat
      /\ DOMAIN queue = 1 .. Len(queue) /\ opened \in Nat
  BY LenProperties DEF IInv, TypeOK, ClientType, Conns
<1>2. /\ queue' \in Seq(Conns) /\ Len(queue') = Len(queue) - 1 /\ Head(queue) = queue[1]
      /\ \A i \in DOMAIN queue' : queue'[i] = queue[i + 1]
  BY <1>1, TakeOne DEF Take
<1>3. DOMAIN queue' = 1 .. Len(queue')
  BY <1>2, LenProperties
<1>4. /\ InUse' = InUse \cup {c} /\ client'[c].conn = Head(queue)
      /\ \A d \in InUse : client'[d] = client[d]
  BY <1>1, UseGrows DEF Take
<1>5. UNCHANGED <<state, slots, healthy, repl, opened>>
  BY DEF Take
<1>6. Live \subseteq Live'
  <2> SUFFICES ASSUME NEW conn \in Live PROVE conn \in Live'
    OBVIOUS
  <2>1. CASE \E i \in DOMAIN queue : queue[i] = conn
    <3>1. PICK i \in DOMAIN queue : queue[i] = conn
      BY <2>1
    <3>2. CASE i = 1
      BY <1>2, <1>4, <3>1, <3>2 DEF Live
    <3>3. CASE i # 1
      <4>1. i - 1 \in DOMAIN queue' /\ (i - 1) + 1 = i
        BY <1>1, <1>2, <1>3, <3>3
      <4>2. queue'[i - 1] = conn
        BY <1>2, <3>1, <4>1
      <4> QED
        BY <4>1, <4>2 DEF Live
    <3> QED
      BY <3>2, <3>3
  <2>2. CASE \E d \in InUse : client[d].conn = conn
    BY <1>4, <2>2 DEF Live
  <2>3. CASE \E r \in repl : r.pc = "mark" /\ r.old = conn
    BY <1>5, <2>3 DEF Live
  <2> QED
    BY <2>1, <2>2, <2>3 DEF Live
<1>7. HealthyHolds' /\ \A i \in DOMAIN slots' : slots'[i] <= opened'
  BY <1>1, <1>5, <1>6, HoldsKept
<1> QED
  BY <1>5, <1>7 DEF HInv, Placed

\* SlotsConserved leaves room in the queue for the reader that is returned.
LEMMA ReleaseHolds ==
    ASSUME IInv, HInv, NEW c \in Clients, Release(c)
    PROVE  HInv'
<1>1. ClientType /\ queue \in Seq(Conns) /\ Len(queue) \in Nat
      /\ DOMAIN queue = 1 .. Len(queue) /\ opened \in Nat /\ lost \in Nat
  BY LenProperties DEF IInv, TypeOK, ClientType, Conns
<1>2. c \in InUse /\ client[c].conn \in Conns
  BY <1>1 DEF Release, InUse, IInv, Known, Conns, None
<1>3. /\ UNCHANGED <<state, slots, healthy, repl, opened>>
      /\ Put(client[c].conn) /\ Goto(c, "idle", None)
  BY DEF Release
<1>4. /\ InUse' = InUse \ {c} /\ Cardinality(InUse') = Cardinality(InUse) - 1
      /\ \A d \in InUse' : client'[d] = client[d]
  BY <1>1, <1>3, UseShrinks DEF Release
<1>5. state \in {"ready", "closing"} => Live \subseteq Live'
  <2> SUFFICES ASSUME state \in {"ready", "closing"}, NEW conn \in Live
               PROVE  conn \in Live'
    OBVIOUS
  <2>1. Cardinality(InUse) \in Nat /\ Cardinality(InUse') \in Nat
        /\ Cardinality(repl) \in Nat /\ N \in Nat
    <3>1. IsFiniteSet(InUse')
      BY ReaderAssumption, FS_Subset DEF InUse
    <3> QED
      BY <3>1, CountsAreNat, FS_CardinalityType DEF IInv, Counted
  <2>2. Len(queue) + Cardinality(InUse) + Cardinality(repl) + lost = N
    BY DEF IInv, Counted, SlotsConserved
  <2>3. Len(queue) < N
    BY <1>1, <1>4, <2>1, <2>2
  <2>4. queue' = Append(queue, client[c].conn)
    BY <1>3, <2>3 DEF Put
  <2>5. /\ queue' \in Seq(Conns) /\ Len(queue') = Len(queue) + 1
        /\ \A i \in 1 .. Len(queue) : queue'[i] = queue[i]
        /\ queue'[Len(queue) + 1] = client[c].conn
    BY <1>1, <1>2, <2>4, AppendProperties
  <2>6. DOMAIN queue' = 1 .. Len(queue) + 1
    BY <2>5, LenProperties
  <2>7. CASE \E i \in DOMAIN queue : queue[i] = conn
    <3>1. PICK i \in DOMAIN queue : queue[i] = conn
      BY <2>7
    <3>2. i \in DOMAIN queue' /\ queue'[i] = conn
      BY <1>1, <2>5, <2>6, <3>1
    <3> QED
      BY <3>2 DEF Live
  <2>8. CASE client[c].conn = conn
    <3>1. Len(queue) + 1 \in DOMAIN queue'
      BY <1>1, <2>6
    <3> QED
      BY <2>5, <2>8, <3>1 DEF Live
  <2>9. CASE \E d \in InUse \ {c} : client[d].conn = conn
    BY <1>4, <2>9 DEF Live
  <2>10. CASE \E r \in repl : r.pc = "mark" /\ r.old = conn
    BY <1>3, <2>10 DEF Live
  <2> QED
    BY <2>7, <2>8, <2>9, <2>10 DEF Live
<1>6. HealthyHolds' /\ \A i \in DOMAIN slots' : slots'[i] <= opened'
  BY <1>1, <1>3, <1>5, HoldsKept
<1> QED
  BY <1>3, <1>6 DEF HInv, Placed

\* A lost connection counts as in circulation until its slot is marked.
LEMMA LoseHolds ==
    ASSUME IInv, HInv, NEW c \in Clients, Lose(c)
    PROVE  HInv'
<1> DEFINE conn == client[c].conn
           r0 == [old |-> conn, idx |-> IndexOf(conn), pc |-> "mark"]
<1>1. ClientType /\ opened \in Nat
  BY DEF IInv, TypeOK, ClientType
<1>2. UNCHANGED <<state, queue, slots, healthy, opened>>
      /\ repl' = repl \cup {r0} /\ Goto(c, "idle", None)
  BY DEF Lose
<1>3. InUse' = InUse \ {c} /\ \A d \in InUse' : client'[d] = client[d]
  BY <1>1, <1>2, UseShrinks DEF Lose
<1>4. Live \subseteq Live'
  <2>1. conn \in Live'
    <3>1. r0 \in repl' /\ r0.pc = "mark" /\ r0.old = conn
      BY <1>2
    <3> QED
      BY <3>1 DEF Live
  <2>2. \A d \in InUse : client[d].conn \in Live'
    BY <1>3, <2>1 DEF Live
  <2> QED
    BY <1>2, <2>2 DEF Live
<1>5. HealthyHolds' /\ \A i \in DOMAIN slots' : slots'[i] <= opened'
  BY <1>1, <1>2, <1>4, HoldsKept
<1>6. \A j \in DOMAIN slots : slots[j] = conn => j = IndexOf(conn)
  BY DEF HInv, Placed, IndexOf, Places
<1>7. \A r \in repl' : r.pc = "mark" =>
         \A j \in DOMAIN slots : slots[j] = r.old => j = r.idx
  BY <1>2, <1>6 DEF HInv, Placed
<1> QED
  BY <1>2, <1>5, <1>7 DEF HInv, Placed

\* What leaves circulation is the reader of the slot that is marked.
LEMMA MarkHolds ==
    ASSUME IInv, HInv, NEW r \in repl, Mark(r)
    PROVE  HInv'
<1> DEFINE q == [r EXCEPT !.pc = "open"]
<1>1. /\ r \in [old : Nat, idx : Nat, pc : {"mark", "open"}]
      /\ opened \in Nat /\ healthy \in [0 .. N -> BOOLEAN] /\ N \in Nat
      /\ DOMAIN slots = 1 .. Len(slots) /\ Len(slots) \in Nat
  BY ReaderAssumption, LenProperties DEF IInv, TypeOK
<1>2. /\ UNCHANGED <<state, queue, slots, client, opened>>
      /\ r.pc = "mark" /\ healthy' = [healthy EXCEPT ![r.idx] = FALSE]
      /\ repl' = repl \ {r} \/ repl' = (repl \ {r}) \cup {q}
  BY DEF Mark
<1>3. q.pc = "open"
  BY <1>1
<1>4. /\ \A s \in repl : s # r => s \in repl'
      /\ \A s \in repl' : s.pc = "mark" => s \in repl
  BY <1>2, <1>3
<1>5. \A i \in Slots : healthy'[i] => healthy[i] /\ i # r.idx
  BY <1>1, <1>2 DEF Slots
<1>6. \A i \in Slots :
         (state \in {"ready", "closing"} /\ healthy'[i] /\ slots[i] \in Live)
           => slots[i] \in Live'
  <2> SUFFICES ASSUME NEW i \in Slots, state \in {"ready", "closing"}, healthy'[i],
                      slots[i] \in Live
               PROVE  slots[i] \in Live'
    OBVIOUS
  <2>1. i \in DOMAIN slots
    BY <1>1 DEF HInv, HealthyHolds, Slots
  <2>2. slots[i] # r.old
    BY <1>2, <1>5, <2>1 DEF HInv, Placed
  <2>3. InUse' = InUse
    BY <1>2 DEF InUse
  <2> QED
    BY <1>2, <1>4, <2>2, <2>3 DEF Live
<1>7. HealthyHolds' /\ \A i \in DOMAIN slots' : slots'[i] <= opened'
  BY <1>1, <1>2, <1>5, <1>6, HoldsKept
<1> QED
  BY <1>2, <1>4, <1>7 DEF HInv, Placed

\* A failed replacement was marked before.
LEMMA ReplFailsHolds ==
    ASSUME IInv, HInv, NEW r \in repl, ReplFails(r)
    PROVE  HInv'
<1>1. /\ UNCHANGED <<state, queue, slots, healthy, client>>
      /\ repl' = repl \ {r} /\ r.pc = "open"
      /\ opened' = opened \/ opened' = opened + 1
  BY DEF ReplFails, OpenFresh, Fresh
<1>2. opened \in Nat /\ opened' \in Nat /\ opened' >= opened
  BY <1>1 DEF IInv, TypeOK
<1>3. InUse' = InUse
  BY <1>1 DEF InUse
<1>4. Live \subseteq Live'
  BY <1>1, <1>3 DEF Live
<1>5. HealthyHolds' /\ \A i \in DOMAIN slots' : slots'[i] <= opened'
  BY <1>1, <1>2, <1>4, HoldsKept
<1> QED
  BY <1>1, <1>5 DEF HInv, Placed

\* A connection just opened takes one place of the list, its old one or a new one.
LEMMA PlacedKept ==
    ASSUME IInv, HInv, opened' = Fresh, repl' \subseteq repl,
           \A i \in DOMAIN slots' :
              slots'[i] = Fresh \/ (i \in DOMAIN slots /\ slots'[i] = slots[i]),
           \A i, j \in DOMAIN slots' : slots'[i] = Fresh /\ slots'[j] = Fresh => i = j
    PROVE  Placed'
<1>1. /\ opened \in Nat /\ Fresh = opened + 1
      /\ \A r \in repl : r.old \in Nat
      /\ \A i \in DOMAIN slots : slots[i] \in Nat
  BY LenProperties, ElementOfSeq DEF IInv, TypeOK, Fresh
<1>2. \A i \in DOMAIN slots : slots[i] # Fresh
  BY <1>1 DEF HInv, Placed
<1>3. \A i \in DOMAIN slots' : slots'[i] <= opened'
  <2>1. \A i \in DOMAIN slots : slots[i] <= opened
    BY DEF HInv, Placed
  <2>2. \A i \in DOMAIN slots : slots[i] <= Fresh
    BY <1>1, <2>1
  <2>3. Fresh <= Fresh
    BY <1>1
  <2> QED
    BY <2>2, <2>3
<1>4. \A i, j \in DOMAIN slots' : slots'[i] = slots'[j] => i = j
  BY <1>2 DEF HInv, Placed
<1>5. \A r \in repl : r.old # Fresh
  BY <1>1 DEF IInv, Known
<1>6. \A r \in repl' : r.pc = "mark" =>
         \A j \in DOMAIN slots' : slots'[j] = r.old => j = r.idx
  BY <1>5 DEF HInv, Placed
<1> QED
  BY <1>3, <1>4, <1>6 DEF Placed

\* The connection that a heal puts into a slot is in use.
LEMMA HealHolds ==
    ASSUME IInv, HInv, NEW c \in Clients, Heal(c)
    PROVE  HInv'
<1> DEFINE k == FirstUnhealthy
<1>1. ClientType /\ opened \in Nat /\ slots \in Seq(Conns) /\ Fresh \in Conns
      /\ healthy \in [0 .. N -> BOOLEAN] /\ N \in Nat
  BY ReaderAssumption DEF IInv, TypeOK, ClientType, Conns, Fresh, None
<1>2. Len(slots) \in Nat /\ DOMAIN slots = 1 .. Len(slots)
  BY <1>1, LenProperties
<1>3. /\ UNCHANGED <<state, queue, repl>> /\ opened' = Fresh
      /\ \/ slots' = Append(slots, Fresh) /\ healthy' = healthy
         \/ /\ k <= Len(slots) /\ slots' = [slots EXCEPT ![k] = Fresh]
            /\ healthy' = [healthy EXCEPT ![k] = TRUE]
         \/ /\ ~(k <= Len(slots)) /\ slots' = Append(slots, Fresh)
            /\ healthy' = [healthy EXCEPT ![k] = TRUE]
  BY DEF Heal, Adopt, OpenFresh
<1> HIDE DEF k
<1>4. /\ InUse' = InUse \cup {c} /\ client'[c].conn = Fresh
      /\ \A d \in InUse : client'[d] = client[d]
  BY <1>1, UseGrows DEF Heal
<1>5. Live \subseteq Live' /\ Fresh \in Live'
  BY <1>3, <1>4 DEF Live
<1>6. CASE slots' = Append(slots, Fresh)
  <2>1. /\ DOMAIN slots' = 1 .. Len(slots) + 1 /\ Len(slots') = Len(slots) + 1
        /\ \A i \in 1 .. Len(slots) : slots'[i] = slots[i]
        /\ slots'[Len(slots) + 1] = Fresh
    BY <1>1, <1>6, AppendProperties, LenProperties
  <2>2. \A i \in DOMAIN slots : slots[i] # Fresh
    BY <1>1, <1>2, ElementOfSeq DEF HInv, Placed, Fresh, Conns
  <2>3. \A i \in DOMAIN slots' :
           slots'[i] = Fresh \/ (i \in DOMAIN slots /\ slots'[i] = slots[i])
    BY <1>2, <2>1
  <2>4. \A i, j \in DOMAIN slots' : slots'[i] = Fresh /\ slots'[j] = Fresh => i = j
    BY <1>2, <2>1, <2>2
  <2>5. Placed'
    BY <1>3, <2>3, <2>4, PlacedKept
  <2>6. HealthyHolds'
    <3>1. SUFFICES ASSUME state \in {"ready", "closing"}
                   PROVE  /\ Len(slots') >= N
                          /\ \A i \in Slots : healthy'[i] => slots'[i] \in Live'
      BY <1>3 DEF HealthyHolds
    <3>2. Len(slots) >= N /\ \A i \in Slots : healthy[i] => slots[i] \in Live
      BY <3>1 DEF HInv, HealthyHolds
    <3>3. Len(slots') >= N
      BY <1>1, <1>2, <2>1, <3>2
    <3>4. ASSUME NEW i \in Slots, healthy'[i] PROVE healthy[i]
      <4>1. i \in 0 .. N /\ i <= Len(slots)
        BY <1>1, <1>2, <3>2 DEF Slots
      <4>2. CASE k = i
        <5>1. k <= Len(slots)
          BY <4>1, <4>2
        <5>2. healthy' = healthy \/ slots' = [slots EXCEPT ![k] = Fresh]
          BY <1>3, <5>1
        <5>3. slots' # [slots EXCEPT ![k] = Fresh]
          <6>1. Len(slots) + 1 \in DOMAIN slots' /\ Len(slots) + 1 \notin DOMAIN slots
            BY <1>2, <2>1
          <6>2. DOMAIN [slots EXCEPT ![k] = Fresh] = DOMAIN slots
            OBVIOUS
          <6> QED
            BY <6>1, <6>2
        <5> QED
          BY <3>4, <5>2, <5>3
      <4>3. CASE k # i
        BY <1>1, <1>3, <3>4, <4>1, <4>3
      <4> QED
        BY <4>2, <4>3
    <3>5. \A i \in Slots : slots'[i] = slots[i]
      BY <1>1, <1>2, <2>1, <3>2 DEF Slots
    <3> QED
      BY <1>5, <3>2, <3>3, <3>4, <3>5
  <2> QED
    BY <2>5, <2>6 DEF HInv
<1>7. CASE slots' # Append(slots, Fresh)
  <2>1. /\ slots' = [slots EXCEPT ![k] = Fresh]
        /\ healthy' = [healthy EXCEPT ![k] = TRUE]
    BY <1>3, <1>7
  <2>2. DOMAIN slots' = DOMAIN slots /\ Len(slots') = Len(slots)
    <3>1. CASE k \in 1 .. Len(slots)
      BY <1>1, <1>2, <2>1, <3>1, ExceptSeq, LenProperties
    <3>2. CASE k \notin 1 .. Len(slots)
      <4>1. slots' = slots
        BY <1>1, <1>2, <2>1, <3>2, LenProperties
      <4> QED
        BY <4>1
    <3> QED
      BY <3>1, <3>2
  <2>3. \A i \in DOMAIN slots : slots'[i] = IF i = k THEN Fresh ELSE slots[i]
    BY <2>1
  <2>4. \A i \in DOMAIN slots : slots[i] # Fresh
    BY <1>1, <1>2, ElementOfSeq DEF HInv, Placed, Fresh, Conns
  <2>5. Placed'
    BY <1>3, <2>2, <2>3, <2>4, PlacedKept
  <2>6. HealthyHolds'
    <3>1. SUFFICES ASSUME state \in {"ready", "closing"}
                   PROVE  /\ Len(slots') >= N
                          /\ \A i \in Slots : healthy'[i] => slots'[i] \in Live'
      BY <1>3 DEF HealthyHolds
    <3>2. Len(slots) >= N /\ \A i \in Slots : healthy[i] => slots[i] \in Live
      BY <3>1 DEF HInv, HealthyHolds
    <3>3. \A i \in Slots : i \in DOMAIN slots /\ i \in 0 .. N
      BY <1>1, <1>2, <3>2 DEF Slots
    <3>4. \A i \in Slots : i # k => healthy'[i] = healthy[i]
      BY <1>1, <2>1, <3>3
    <3> QED
      BY <1>5, <2>2, <2>3, <3>2, <3>3, <3>4
  <2> QED
    BY <2>5, <2>6 DEF HInv
<1> QED
  BY <1>6, <1>7

\* SlotsConserved leaves room in the queue for the replacement.
LEMMA ReplaceHolds ==
    ASSUME IInv, HInv, NEW r \in repl, Replace(r)
    PROVE  HInv'
<1> DEFINE i0 == IF r.idx = NotFound THEN Len(slots) ELSE r.idx
<1>1. /\ opened \in Nat /\ lost \in Nat /\ Len(queue) \in Nat /\ Len(slots) \in Nat
      /\ queue \in Seq(Conns) /\ slots \in Seq(Conns)
      /\ DOMAIN slots = 1 .. Len(slots) /\ DOMAIN queue = 1 .. Len(queue)
      /\ Fresh \in Conns /\ r.idx \in Nat
      /\ healthy \in [0 .. N -> BOOLEAN] /\ N \in Nat
  BY ReaderAssumption, LenProperties DEF IInv, TypeOK, Conns, Fresh, None
<1>2. /\ UNCHANGED <<state, lost, client>> /\ r.pc = "open"
      /\ repl' = repl \ {r} /\ opened' = Fresh
  BY DEF Replace, OpenFresh
<1>3. \/ i0 \notin DOMAIN slots /\ UNCHANGED <<slots, queue, healthy>>
      \/ /\ i0 \in DOMAIN slots /\ slots' = [slots EXCEPT ![i0] = Fresh] /\ Put(Fresh)
         /\ healthy' = [healthy EXCEPT ![r.idx] = @ \/ Len(queue) < N]
  BY DEF Replace
<1>4. InUse' = InUse
  BY <1>2 DEF InUse
<1>5. state \in {"ready", "closing"} => i0 \in DOMAIN slots
  BY <1>1 DEF IInv, SlotsThere, NotFound
<1>6. r.idx \in Slots => i0 = r.idx
  BY <1>1 DEF Slots, NotFound
<1> HIDE DEF i0
<1>7. \A i \in DOMAIN slots : slots[i] # Fresh
  BY <1>1, ElementOfSeq DEF HInv, Placed, Fresh, Conns
<1>8. CASE i0 \in DOMAIN slots
  <2>1. slots' = [slots EXCEPT ![i0] = Fresh] /\ Put(Fresh)
        /\ healthy' = [healthy EXCEPT ![r.idx] = @ \/ Len(queue) < N]
    BY <1>3, <1>8
  <2>2. DOMAIN slots' = DOMAIN slots /\ Len(slots') = Len(slots)
    BY <1>1, <1>8, <2>1, ExceptSeq, LenProperties
  <2>3. \A i \in DOMAIN slots : slots'[i] = IF i = i0 THEN Fresh ELSE slots[i]
    BY <2>1
  <2>4. Placed'
    BY <1>2, <1>7, <2>2, <2>3, PlacedKept
  <2>5. HealthyHolds'
    <3>1. SUFFICES ASSUME state \in {"ready", "closing"}
                   PROVE  /\ Len(slots') >= N
                          /\ \A i \in Slots : healthy'[i] => slots'[i] \in Live'
      BY <1>2 DEF HealthyHolds
    <3>2. Len(slots) >= N /\ \A i \in Slots : healthy[i] => slots[i] \in Live
      BY <3>1 DEF HInv, HealthyHolds
    <3>3. \A i \in Slots : i \in DOMAIN slots /\ i \in 0 .. N
      BY <1>1, <3>2 DEF Slots
    <3>4. Len(queue) < N
      <4>1. /\ Cardinality(InUse) \in Nat /\ Cardinality(repl) \in Nat
            /\ Cardinality(repl') = Cardinality(repl) - 1 /\ Cardinality(repl') \in Nat
        BY <1>2, CountsAreNat, ReplEnds, FS_CardinalityType DEF IInv, Counted
      <4>2. Len(queue) + Cardinality(InUse) + Cardinality(repl) + lost = N
        BY <3>1 DEF IInv, Counted, SlotsConserved
      <4> QED
        BY <1>1, <4>1, <4>2
    <3>5. queue' = Append(queue, Fresh)
      BY <2>1, <3>4 DEF Put
    <3>6. /\ DOMAIN queue' = 1 .. Len(queue) + 1
          /\ \A i \in 1 .. Len(queue) : queue'[i] = queue[i]
          /\ queue'[Len(queue) + 1] = Fresh
      BY <1>1, <3>5, AppendProperties, LenProperties
    <3>7. {queue[i] : i \in DOMAIN queue} \subseteq {queue'[i] : i \in DOMAIN queue'}
      BY <1>1, <3>6
    <3>8. Live \subseteq Live'
      BY <1>2, <1>4, <3>7 DEF Live
    <3>9. Fresh \in Live'
      <4>1. Len(queue) + 1 \in DOMAIN queue'
        BY <1>1, <3>6
      <4> QED
        BY <3>6, <4>1 DEF Live
    <3>10. \A i \in Slots : i # i0 => healthy'[i] = healthy[i]
      BY <1>1, <1>6, <2>1, <3>3
    <3> QED
      BY <2>2, <2>3, <3>2, <3>3, <3>8, <3>9, <3>10
  <2> QED
    BY <2>4, <2>5 DEF HInv
<1>9. CASE i0 \notin DOMAIN slots
  <2>1. UNCHANGED <<slots, queue, healthy>> /\ state \notin {"ready", "closing"}
    BY <1>3, <1>5, <1>9
  <2>2. HealthyHolds'
    BY <1>2, <2>1 DEF HealthyHolds
  <2>3. Placed'
    BY <1>2, <1>7, <2>1, PlacedKept
  <2> QED
    BY <2>2, <2>3 DEF HInv
<1> QED
  BY <1>8, <1>9

\* The teardown ends what HealthyHolds is about.
LEMMA TeardownHolds ==
    ASSUME IInv, HInv, Close \/ CloseSlot \/ Drain
    PROVE  HInv'
<1>1. /\ UNCHANGED <<healthy, client, repl, opened>>
      /\ \/ slots' = slots
         \/ slots' = <<>> /\ state' = "draining"
      /\ state' \in {"ready", "closing"} =>
            state \in {"ready", "closing"} /\ UNCHANGED <<slots, queue>>
  BY DEF Close, CloseSlot, Drain
<1>2. Placed'
  BY <1>1 DEF HInv, Placed
<1>3. HealthyHolds'
  BY <1>1 DEF HInv, HealthyHolds, Live, InUse
<1> QED
  BY <1>2, <1>3 DEF HInv

\* HInv holds when the pool is created.
LEMMA HoldsInit == Init => HInv
<1> SUFFICES ASSUME Init PROVE HInv
  OBVIOUS
<1>1. N \in Nat \ {0}
  BY ReaderAssumption
<1>2. queue \in Seq(Conns) /\ Len(queue) = N /\ DOMAIN queue = Slots /\ slots = queue
  BY <1>1 DEF Init, Slots, Conns, None
<1>3. HealthyHolds
  BY <1>1, <1>2 DEF HealthyHolds, Live
<1>4. Placed
  BY <1>1, <1>2 DEF Init, Placed, Slots
<1> QED
  BY <1>3, <1>4 DEF HInv

\* Every step of the pool preserves HInv.
LEMMA HoldsNext == IInv /\ HInv /\ [Next]_vars => HInv'
<1> SUFFICES ASSUME IInv, HInv, [Next]_vars PROVE HInv'
  OBVIOUS
<1>1. ASSUME NEW c \in Clients,
             \/ Ask(c) \/ Take(c) \/ TimeOut(c) \/ EnterHeal(c) \/ Heal(c)
             \/ HealFails(c) \/ Leave(c) \/ Release(c) \/ Lose(c)
      PROVE  HInv'
  BY <1>1, MovesHolds, TakeHolds, HealHolds, ReleaseHolds, LoseHolds
<1>2. ASSUME NEW r \in repl, Mark(r) \/ ReplFails(r) \/ Replace(r)
      PROVE  HInv'
  BY <1>2, MarkHolds, ReplFailsHolds, ReplaceHolds
<1>3. CASE Expire \/ UNCHANGED vars
  <2>1. UNCHANGED <<state, queue, slots, healthy, client, repl, opened>>
    BY <1>3 DEF Expire, vars
  <2>2. InUse' = InUse /\ opened \in Nat
    BY <2>1 DEF InUse, IInv, TypeOK
  <2>3. opened' \in Nat /\ opened' >= opened
    BY <2>1, <2>2
  <2> QED
    BY <2>1, <2>2, <2>3, StillHolds
<1>4. CASE Close \/ CloseSlot \/ Drain
  BY <1>4, TeardownHolds
<1> QED
  BY <1>1, <1>2, <1>3, <1>4 DEF Next

\* The numbers up to n are n.
LEMMA CountTo ==
    ASSUME NEW n \in Nat
    PROVE  IsFiniteSet(1 .. n) /\ Cardinality(1 .. n) = n
<1>1. 1 \in Int /\ n \in Int
  OBVIOUS
<1>2. IsFiniteSet(1 .. n) /\ Cardinality(1 .. n) = IF 1 > n THEN 0 ELSE n - 1 + 1
  BY <1>1, FS_Interval
<1> QED
  BY <1>2

\* With no more healthy slots than readers in circulation, a whole health map
\* leaves no room for a lost slot or a replacement under way.
LEMMA GreenFromHolds ==
    ASSUME IInv, HInv
    PROVE  GreenIsWhole
<1> SUFFICES ASSUME state = "ready", Unhealthy = {}
             PROVE  lost = 0 /\ \A r \in repl : r.pc = "mark"
  BY DEF GreenIsWhole
<1> DEFINE A == {queue[i] : i \in DOMAIN queue}
           B == {client[c].conn : c \in InUse}
           marks == {s \in repl : s.pc = "mark"}
           C == {r.old : r \in marks}
<1>1. /\ Len(queue) \in Nat /\ lost \in Nat /\ N \in Nat
      /\ DOMAIN queue = 1 .. Len(queue) /\ DOMAIN slots = 1 .. Len(slots)
      /\ Len(slots) \in Nat
  BY ReaderAssumption, LenProperties DEF IInv, TypeOK
<1>2. IsFiniteSet(InUse) /\ IsFiniteSet(repl)
  BY ReaderAssumption, FS_Subset DEF InUse, IInv, Counted
<1>3. IsFiniteSet(marks) /\ Cardinality(marks) \in Nat
  BY <1>2, FS_Subset, FS_CardinalityType
<1>4. IsFiniteSet(A) /\ Cardinality(A) <= Len(queue) /\ Cardinality(A) \in Nat
  <2>1. IsFiniteSet(1 .. Len(queue)) /\ Cardinality(1 .. Len(queue)) = Len(queue)
    BY <1>1, CountTo
  <2>2. [i \in 1 .. Len(queue) |-> queue[i]] \in Surjection(1 .. Len(queue), A)
    BY <1>1 DEF Surjection
  <2> QED
    BY <2>1, <2>2, FS_Surjection, FS_CardinalityType
<1>5. IsFiniteSet(B) /\ Cardinality(B) <= Cardinality(InUse) /\ Cardinality(B) \in Nat
  <2>1. [c \in InUse |-> client[c].conn] \in Surjection(InUse, B)
    BY DEF Surjection
  <2> QED
    BY <1>2, <2>1, FS_Surjection, FS_CardinalityType
<1>6. IsFiniteSet(C) /\ Cardinality(C) <= Cardinality(marks) /\ Cardinality(C) \in Nat
  <2>1. [r \in marks |-> r.old] \in Surjection(marks, C)
    BY DEF Surjection
  <2> QED
    BY <1>3, <2>1, FS_Surjection, FS_CardinalityType
<1>7. IsFiniteSet(A \cup B) /\ Cardinality(A \cup B) <= Cardinality(A) + Cardinality(B)
      /\ Cardinality(A \cup B) \in Nat
  <2>1. IsFiniteSet(A \cup B) /\ IsFiniteSet(A \cap B)
        /\ Cardinality(A \cup B) = Cardinality(A) + Cardinality(B) - Cardinality(A \cap B)
    BY <1>4, <1>5, FS_Union, FS_Intersection
  <2>2. Cardinality(A \cap B) \in Nat /\ Cardinality(A \cup B) \in Nat
    BY <2>1, FS_CardinalityType
  <2> QED
    BY <1>4, <1>5, <2>1, <2>2
<1>8. IsFiniteSet(Live) /\ Cardinality(Live) <= Cardinality(A \cup B) + Cardinality(C)
      /\ Cardinality(Live) \in Nat
  <2>1. Live = (A \cup B) \cup C
    BY DEF Live
  <2>2. IsFiniteSet(Live) /\ IsFiniteSet((A \cup B) \cap C)
        /\ Cardinality(Live) = Cardinality(A \cup B) + Cardinality(C)
                               - Cardinality((A \cup B) \cap C)
    BY <1>6, <1>7, <2>1, FS_Union, FS_Intersection
  <2>3. Cardinality((A \cup B) \cap C) \in Nat /\ Cardinality(Live) \in Nat
    BY <2>2, FS_CardinalityType
  <2> QED
    BY <1>6, <1>7, <2>2, <2>3
<1>9. N <= Cardinality(Live)
  <2>1. IsFiniteSet(1 .. N) /\ Cardinality(1 .. N) = N
    BY <1>1, CountTo
  <2>2. \A i \in 1 .. N : i \in DOMAIN slots /\ slots[i] \in Live
    BY <1>1 DEF HInv, HealthyHolds, Unhealthy, Slots
  <2>3. \A i, j \in 1 .. N : slots[i] = slots[j] => i = j
    BY <2>2 DEF HInv, Placed
  <2>4. [i \in 1 .. N |-> slots[i]] \in Injection(1 .. N, Live)
    BY <2>2, <2>3 DEF Injection, IsInjective
  <2>5. Cardinality(1 .. N) <= Cardinality(Live)
    BY <1>8, <2>4, FS_Injection
  <2> QED
    BY <2>1, <2>5
<1> HIDE DEF A, B, C, marks
<1>10. Len(queue) + Cardinality(InUse) + Cardinality(repl) + lost = N
  BY DEF IInv, Counted, SlotsConserved
<1>11. Cardinality(InUse) \in Nat /\ Cardinality(repl) \in Nat
  BY <1>2, FS_CardinalityType
<1>12. N <= Len(queue) + Cardinality(InUse) + Cardinality(marks)
  BY <1>1, <1>3, <1>4, <1>5, <1>6, <1>7, <1>8, <1>9, <1>11
<1>13. Cardinality(repl) + lost <= Cardinality(marks)
  BY <1>1, <1>3, <1>10, <1>11, <1>12
<1>14. marks \subseteq repl
  BY DEF marks
<1>15. Cardinality(marks) <= Cardinality(repl)
       /\ (Cardinality(repl) = Cardinality(marks) => repl = marks)
  BY <1>2, <1>14, FS_Subset
<1>16. lost = 0 /\ Cardinality(repl) = Cardinality(marks)
  BY <1>1, <1>3, <1>11, <1>13, <1>15
<1> QED
  BY <1>15, <1>16 DEF marks

\* api/routers/health.py:53-57: /health is never green while capacity is lost.
THEOREM GreenIsWholeCorrect == Spec => []GreenIsWhole
<1>1. Spec => [](IInv /\ HInv)
  <2>1. Init => IInv /\ HInv
    BY InitInv, HoldsInit
  <2>2. (IInv /\ HInv) /\ [Next]_vars => (IInv /\ HInv)'
    BY NextInv, HoldsNext
  <2> QED
    BY <2>1, <2>2, PTL DEF Spec
<1>2. IInv /\ HInv => GreenIsWhole
  BY GreenFromHolds
<1> QED
  BY <1>1, <1>2, PTL

-----------------------------------------------------------------------------
(* The writer, in WriterConn: the inductive invariant.                     *)

Owning == {"heal"} \cup Statements

\* Whoever heals or runs a statement is first in the lock's line.
Excluded == \A w \in Ops : op[w].pc \in Owning => Holds("op", w)

\* Where an operation is says what the database and the open transaction hold of
\* it: nothing before its statement and after an error, everything after a return.
RowsOf(w) ==
    /\ op[w].pc \in {"idle", "line", "heal", "exec", "begin", "body", "error"}
         => w \notin durable \cup txn.rows
    /\ op[w].pc = "commit" => w \notin durable /\ (Alive => w \in txn.rows)
    /\ op[w].pc = "ok" => w \in durable

\* A connection that is closed carries nothing.
Rows == (\A w \in Ops : RowsOf(w)) /\ (~Alive => txn.rows = {})

\* Connections are numbered as they are opened, and one that is about to be closed
\* is known to be bad if it is the writer.
Numbered ==
    /\ writers \cup closing \subseteq 1 .. writersOpened
    /\ writer \in 0 .. writersOpened
    /\ writer \in closing => ~writerHealthy

\* A replacement belongs to an operation that lost its connection; past the mark,
\* the connection it replaces is closed or about to be, and the one it opened is
\* nobody else's.
ReplOf(w) ==
    LET s == swapper[w] IN
    /\ op[w].pc # "lost" => s.pc = "none"
    /\ s.pc \in {"none", "mark", "open"} => s.new = NoWriter
    /\ s.pc # "none" => s.old \in 1 .. writersOpened
    /\ s.pc \in {"open", "swap"} => (s.old \in writers => s.old \in closing \cup abandoned)
    /\ s.pc = "swap" => s.new \in writers /\ s.new \notin closing /\ s.new # writer

\* Two replacements never hold each other's connections.
Apart ==
    \A v, w \in Ops : swapper[w].pc = "swap" =>
        /\ swapper[v].pc # "none" => swapper[v].old # swapper[w].new
        /\ (swapper[v].pc = "swap" /\ v # w) => swapper[v].new # swapper[w].new

\* NoOtherLeak, one connection at a time.
Owned ==
    \A c \in writers : \/ c \in {writer} \cup closing \cup abandoned
                       \/ \E w \in Ops : swapper[w].new = c

Links ==
    Numbered /\ (\A w \in Ops : ReplOf(w)) /\ Apart /\ DeadWriterIsKnown /\ Owned

WInv == WriterTypeOK /\ Excluded /\ Rows /\ Links

-----------------------------------------------------------------------------
(* Lemmas: an operation moves, the line moves.                             *)

WriterPc == {"idle", "line", "heal"} \cup Statements \cup Outcomes

OpType == op \in [Ops -> [pc : WriterPc, kind : {"single", "tx"}]]

\* One operation goes on, the others stay where they are.
LEMMA Goes ==
    ASSUME OpType, NEW w \in Ops, NEW pc \in WriterPc, Go(w, pc)
    PROVE  /\ OpType'
           /\ op'[w].pc = pc /\ op'[w].kind = op[w].kind
           /\ \A v \in Ops \ {w} : op'[v] = op[v]
    BY DEF OpType, Go

\* The first of the line is one, and the line behind it is a line.
LEMMA LineFacts ==
    ASSUME line \in Seq(Who), line # <<>>
    PROVE  /\ Tail(line) \in Seq(Who)
           /\ Head(line) = line[1]
           /\ Len(line) \in Nat \ {0} /\ DOMAIN line = 1 .. Len(line)
    BY HeadTailProperties, LenProperties, EmptySeq

\* Two operations are not both first.
LEMMA OneHolder ==
    ASSUME NEW a, NEW v, NEW b, NEW w, Holds(a, v), Holds(b, w)
    PROVE  a = b /\ v = w
    BY DEF Holds

\* The head of the line stays, and whoever owns the writer owned it or has the lock.
LEMMA HeadStays ==
    ASSUME Excluded,
           line # <<>> => line' # <<>> /\ Head(line') = Head(line),
           \A v \in Ops : op'[v].pc \in Owning => op[v].pc \in Owning \/ Holds("op", v)
    PROVE  Excluded'
    BY DEF Excluded, Holds

\* One more joins the line.
LEMMA Joins ==
    ASSUME line \in Seq(Who), NEW e \in Who, line' = Append(line, e)
    PROVE  /\ line' \in Seq(Who)
           /\ line # <<>> => line' # <<>> /\ Head(line') = Head(line)
<1>1. /\ line' \in Seq(Who) /\ Len(line') = Len(line) + 1
      /\ \A i \in 1 .. Len(line) : line'[i] = line[i]
      /\ Len(line) \in Nat
  BY AppendProperties, LenProperties
<1>2. ASSUME line # <<>> PROVE line' # <<>> /\ Head(line') = Head(line)
  <2>1. Len(line) # 0
    BY <1>1, <1>2, EmptySeq
  <2>2. line' # <<>>
    BY <1>1, EmptySeq
  <2>3. line'[1] = line[1]
    BY <1>1, <2>1
  <2> QED
    BY <1>1, <1>2, <2>2, <2>3, HeadTailProperties
<1> QED
  BY <1>1, <1>2

\* Who has the lock lets it go, so that nobody owns the writer.
LEMMA LetsGo ==
    ASSUME Excluded, NEW who \in {"op", "swap"}, NEW w \in Ops, Holds(who, w),
           \A v \in Ops \ {w} : op'[v] = op[v],
           op'[w].pc \notin Owning
    PROVE  Excluded'
    BY OneHolder DEF Excluded

\* A cancelled operation leaves the line, wherever it stands in it.
LEMMA LeavesLine ==
    ASSUME line \in Seq(Who), Excluded, OpType, NEW w \in Ops, Cancelled(w)
    PROVE  /\ line' \in Seq(Who) /\ Excluded'
           /\ OpType'
           /\ op'[w].pc = "cancelled" /\ op'[w].kind = op[w].kind
           /\ \A v \in Ops \ {w} : op'[v] = op[v]
<1>1. /\ OpType' /\ op'[w].pc = "cancelled" /\ op'[w].kind = op[w].kind
      /\ \A v \in Ops \ {w} : op'[v] = op[v]
  BY Goes DEF Cancelled, WriterPc, Outcomes
<1>2. PICK i \in DOMAIN line :
        /\ line[i] = <<"op", w>>
        /\ line' = [j \in 1 .. Len(line) - 1 |-> line[IF j < i THEN j ELSE j + 1]]
  BY DEF Cancelled
<1>3. DOMAIN line = 1 .. Len(line) /\ Len(line) \in Nat
      /\ \A j \in 1 .. Len(line) : line[j] \in Who
  BY LenProperties, ElementOfSeq
<1>4. /\ Len(line) - 1 \in Nat
      /\ \A j \in 1 .. Len(line) - 1 : (IF j < i THEN j ELSE j + 1) \in 1 .. Len(line)
  BY <1>2, <1>3
<1>5. line' \in Seq(Who) /\ Len(line') = Len(line) - 1
  <2>1. line' \in [1 .. Len(line) - 1 -> Who]
    BY <1>2, <1>3, <1>4
  <2> QED
    BY <1>4, <2>1, SeqDef, LenProperties
<1>6. Excluded'
  <2>1. SUFFICES ASSUME NEW v \in Ops, op'[v].pc \in Owning
                 PROVE  Holds("op", v)'
    BY DEF Excluded
  <2>2. v # w /\ op[v].pc \in Owning
    BY <1>1, <2>1 DEF Owning, Statements
  <2>3. line # <<>> /\ Head(line) = <<"op", v>>
    BY <2>2 DEF Excluded, Holds
  <2>4. line[1] = <<"op", v>>
    BY <2>3, LineFacts
  <2>5. i # 1
    BY <1>2, <2>2, <2>4
  <2>6. 1 \in 1 .. Len(line) - 1 /\ line'[1] = line[1]
    BY <1>2, <1>3, <1>4, <2>5
  <2>7. line' # <<>>
    BY <1>5, <2>6, EmptySeq
  <2>8. Head(line') = line'[1]
    BY <1>5, <2>7, HeadTailProperties
  <2> QED
    BY <2>4, <2>6, <2>7, <2>8 DEF Holds
<1> QED
  BY <1>1, <1>5, <1>6

\* Links are about the connections and the replacements only.
LEMMA LinksKeep ==
    ASSUME Links, UNCHANGED <<conns, swapper>>,
           \A v \in Ops : op[v].pc = "lost" => op'[v].pc = "lost"
    PROVE  Links'
    BY DEF Links, Numbered, ReplOf, Apart, DeadWriterIsKnown, Owned, Alive, conns

-----------------------------------------------------------------------------
(* Each action of the writer preserves the invariant.                      *)

\* Arriving joins the line.
LEMMA ArriveStep ==
    ASSUME WInv, NEW w \in Ops, NEW kind \in {"single", "tx"}, Arrive(w, kind)
    PROVE  WInv'
<1>1. OpType /\ line \in Seq(Who) /\ <<"op", w>> \in Who
  BY DEF WInv, WriterTypeOK, OpType, WriterPc, Who
<1>2. /\ OpType' /\ op'[w].pc = "line" /\ op[w].pc = "idle"
      /\ \A v \in Ops \ {w} : op'[v] = op[v]
  BY <1>1 DEF Arrive, OpType, WriterPc
<1>3. line' \in Seq(Who) /\ (line # <<>> => line' # <<>> /\ Head(line') = Head(line))
  BY <1>1, Joins DEF Arrive
<1>4. UNCHANGED <<conns, txn, swapper, durable, writerFaults, cancels>>
  BY DEF Arrive
<1>5. WriterTypeOK'
  BY <1>2, <1>3, <1>4 DEF WInv, WriterTypeOK, OpType, WriterPc, conns
<1>6. Excluded'
  <2>1. \A v \in Ops : op'[v].pc \in Owning => op[v].pc \in Owning
    BY <1>2 DEF Owning, Statements
  <2> QED
    BY <1>3, <2>1, HeadStays DEF WInv
<1>7. Rows'
  BY <1>2, <1>4 DEF WInv, Rows, RowsOf, Alive, conns
<1>8. Links'
  BY <1>2, <1>4, LinksKeep DEF WInv
<1> QED
  BY <1>5, <1>6, <1>7, <1>8 DEF WInv

\* Entering leaves the line only when the pool is closed.
LEMMA EnterStep ==
    ASSUME WInv, NEW w \in Ops, Enter(w)
    PROVE  WInv'
<1> DEFINE goal == IF writer = NoWriter THEN "error"
                   ELSE IF writerHealthy THEN First(w) ELSE "heal"
<1>1. OpType /\ line \in Seq(Who) /\ line # <<>> /\ op[w].pc = "line"
  BY DEF WInv, WriterTypeOK, OpType, WriterPc, Enter, Holds
<1>2. goal \in {"error", "exec", "begin", "heal"} /\ Go(w, goal)
  BY DEF Enter, First
<1>3. goal \in WriterPc
  BY <1>2 DEF WriterPc, Statements, Outcomes
<1> HIDE DEF goal
<1>4. /\ OpType' /\ op'[w].pc = goal
      /\ \A v \in Ops \ {w} : op'[v] = op[v]
  BY <1>1, <1>2, <1>3, Goes
<1>5. UNCHANGED <<conns, txn, swapper, durable, writerFaults, cancels>>
  BY DEF Enter
<1>6. line' \in Seq(Who)
  BY <1>1, LineFacts DEF Enter, PassOn
<1>7. WriterTypeOK'
  BY <1>4, <1>5, <1>6 DEF WInv, WriterTypeOK, OpType, WriterPc, conns
<1>8. Excluded'
  <2>1. CASE writer = NoWriter
    <3>1. goal \notin Owning
      BY <2>1 DEF goal, Owning, Statements
    <3> QED
      BY <1>4, <3>1, LetsGo DEF WInv, Enter
  <2>2. CASE writer # NoWriter
    <3>1. line' = line
      BY <2>2 DEF Enter
    <3>2. \A v \in Ops : op'[v].pc \in Owning => op[v].pc \in Owning \/ Holds("op", v)
      BY <1>4 DEF Enter
    <3> QED
      BY <3>1, <3>2, HeadStays DEF WInv
  <2> QED
    BY <2>1, <2>2
<1>9. Rows'
  BY <1>1, <1>2, <1>4, <1>5 DEF WInv, Rows, RowsOf, Alive, conns
<1>10. Links'
  BY <1>1, <1>4, <1>5, LinksKeep DEF WInv
<1> QED
  BY <1>7, <1>8, <1>9, <1>10 DEF WInv

\* The operation that has the lock goes on under it.
LEMMA Under ==
    ASSUME OpType, Excluded, NEW w \in Ops, op[w].pc \in Owning,
           NEW pc \in WriterPc, Go(w, pc), line' = line
    PROVE  /\ OpType' /\ Excluded'
           /\ op'[w].pc = pc
           /\ \A v \in Ops \ {w} : op'[v] = op[v]
<1>1. OpType' /\ op'[w].pc = pc /\ \A v \in Ops \ {w} : op'[v] = op[v]
  BY Goes
<1>2. Excluded'
  BY <1>1, HeadStays
<1> QED
  BY <1>1, <1>2

\* The operation that has the lock ends.
LEMMA Ends ==
    ASSUME OpType, Excluded, line \in Seq(Who), NEW w \in Ops, op[w].pc \in Owning,
           NEW pc \in Outcomes, Go(w, pc), PassOn
    PROVE  /\ OpType' /\ Excluded' /\ line' \in Seq(Who)
           /\ op'[w].pc = pc
           /\ \A v \in Ops \ {w} : op'[v] = op[v]
<1>1. OpType' /\ op'[w].pc = pc /\ \A v \in Ops \ {w} : op'[v] = op[v]
  BY Goes DEF WriterPc
<1>2. Holds("op", w)
  BY DEF Excluded
<1>3. pc \notin Owning
  BY DEF Outcomes, Owning, Statements
<1>4. Excluded'
  BY <1>1, <1>2, <1>3, LetsGo
<1>5. line' \in Seq(Who)
  BY <1>2, LineFacts DEF Holds, PassOn
<1> QED
  BY <1>1, <1>4, <1>5

\* A fresh connection is nobody's yet.
LEMMA HealWriterStep ==
    ASSUME WInv, NEW w \in Ops, HealWriter(w)
    PROVE  WInv'
<1>1. OpType /\ op[w].pc = "heal" /\ op[w].pc \in Owning /\ line' = line
  BY DEF WInv, WriterTypeOK, OpType, WriterPc, HealWriter, Owning
<1>2. First(w) \in {"exec", "begin"} /\ First(w) \in WriterPc
  BY DEF First, WriterPc, Statements
<1>3. /\ OpType' /\ Excluded' /\ op'[w].pc = First(w)
      /\ \A v \in Ops \ {w} : op'[v] = op[v]
  BY <1>1, <1>2, Under DEF WInv, HealWriter
<1>4. /\ writersOpened \in Nat /\ writer \in Nat /\ writers \in SUBSET Nat
      /\ closing \in SUBSET Nat
      /\ FreshWriter = writersOpened + 1 /\ FreshWriter \in Nat
  BY DEF WInv, WriterTypeOK, FreshWriter
<1> HIDE DEF FreshWriter
<1>5. WriterTypeOK'
  BY <1>1, <1>3, <1>4 DEF WInv, WriterTypeOK, OpType, WriterPc, HealWriter, Clean
<1>6. Rows'
  <2>1. txn' = Clean /\ durable' = durable
    BY DEF HealWriter
  <2>2. \A v \in Ops \ {w} : op[v].pc # "commit"
    BY <1>1, OneHolder DEF WInv, Excluded, Owning, Statements
  <2> QED
    BY <1>1, <1>2, <1>3, <2>1, <2>2 DEF WInv, Rows, RowsOf, Clean
<1>7. Links'
  <2>1. /\ writer' = FreshWriter /\ writersOpened' = FreshWriter
        /\ writers' = writers \cup {FreshWriter} /\ writerHealthy' = TRUE
        /\ closing' = closing \cup ({writer} \ {NoWriter})
        /\ UNCHANGED <<abandoned, swapper>>
    BY DEF HealWriter
  <2>2. Numbered /\ FreshWriter \notin closing'
    BY <1>4, <2>1 DEF WInv, Links, Numbered
  <2>3. Numbered'
    BY <1>4, <2>1, <2>2 DEF Numbered, NoWriter
  <2>4. \A v \in Ops : ReplOf(v)'
    <3>1. SUFFICES ASSUME NEW v \in Ops PROVE ReplOf(v)'
      OBVIOUS
    <3>2. ReplOf(v)
      BY DEF WInv, Links
    <3>3. op'[v].pc # "lost" => op[v].pc # "lost"
      BY <1>1, <1>3
    <3> QED
      BY <1>4, <2>1, <2>2, <3>2, <3>3 DEF ReplOf, Numbered
  <2>5. Apart'
    BY <2>1 DEF WInv, Links, Apart
  <2>6. DeadWriterIsKnown'
    BY <2>1 DEF DeadWriterIsKnown, Alive
  <2>7. Owned'
    BY <1>4, <2>1, <2>2 DEF WInv, Links, Owned, Numbered, NoWriter
  <2> QED
    BY <2>3, <2>4, <2>5, <2>6, <2>7 DEF Links
<1> QED
  BY <1>3, <1>5, <1>6, <1>7 DEF WInv

\* An open that does not complete gives the pool nothing but a connection to count.
LEMMA LeavesOpen ==
    ASSUME WriterTypeOK, Links, LeaveOpen,
           UNCHANGED <<writer, writerHealthy, closing, swapper>>,
           \A v \in Ops : op[v].pc = "lost" => op'[v].pc = "lost"
    PROVE  /\ Links'
           /\ writers' \subseteq Nat /\ abandoned' \subseteq Nat /\ writersOpened' \in Nat
           /\ (Alive' <=> Alive)
<1>1. /\ writersOpened \in Nat /\ writers \subseteq Nat /\ closing \subseteq Nat
      /\ abandoned \subseteq Nat /\ writer \in Nat
      /\ FreshWriter = writersOpened + 1 /\ FreshWriter \in Nat
  BY DEF WriterTypeOK, FreshWriter
<1> HIDE DEF FreshWriter
<1>2. \/ UNCHANGED <<writers, writersOpened, abandoned>>
      \/ /\ writersOpened' = FreshWriter
         /\ writers' = writers \cup {FreshWriter} /\ abandoned' = abandoned \cup {FreshWriter}
  BY DEF LeaveOpen
<1>3. Numbered /\ (Alive' <=> Alive)
  BY <1>1, <1>2 DEF Links, Numbered, Alive
<1>4. Numbered'
  <2>1. /\ writer' = writer /\ closing' = closing
        /\ (writer \in closing => ~writerHealthy) /\ writerHealthy' = writerHealthy
    BY <1>3 DEF Numbered
  <2>2. writer' \in closing' => ~writerHealthy'
    BY <2>1
  <2>3. CASE UNCHANGED <<writers, writersOpened>>
    BY <1>3, <2>1, <2>2, <2>3 DEF Numbered
  <2>4. CASE writersOpened' = FreshWriter /\ writers' = writers \cup {FreshWriter}
    <3>1. \A c \in 0 .. writersOpened : c \in 0 .. FreshWriter
      BY <1>1
    <3>2. \A c \in 1 .. writersOpened : c \in 1 .. FreshWriter
      BY <1>1
    <3>3. FreshWriter \in 1 .. FreshWriter
      BY <1>1
    <3> QED
      BY <1>3, <2>1, <2>2, <2>4, <3>1, <3>2, <3>3 DEF Numbered
  <2> QED
    BY <1>2, <2>3, <2>4
<1>5. \A v \in Ops : ReplOf(v)'
  <2>1. SUFFICES ASSUME NEW v \in Ops PROVE ReplOf(v)'
    OBVIOUS
  <2>2. ReplOf(v) /\ Numbered
    BY DEF Links
  <2> QED
    BY <1>1, <1>2, <2>2 DEF ReplOf, Numbered
<1>6. Apart' /\ DeadWriterIsKnown'
  BY <1>3 DEF Links, Apart, DeadWriterIsKnown
<1>7. Owned'
  BY <1>2 DEF Links, Owned
<1>8. writers' \subseteq Nat /\ abandoned' \subseteq Nat /\ writersOpened' \in Nat
  BY <1>1, <1>2
<1> QED
  BY <1>3, <1>4, <1>5, <1>6, <1>7, <1>8 DEF Links

\* The open of a heal fails.
LEMMA HealWriterFailsStep ==
    ASSUME WInv, NEW w \in Ops, HealWriterFails(w)
    PROVE  WInv'
<1>1. OpType /\ line \in Seq(Who) /\ op[w].pc = "heal" /\ op[w].pc \in Owning
  BY DEF WInv, WriterTypeOK, OpType, WriterPc, HealWriterFails, Owning
<1>2. /\ OpType' /\ Excluded' /\ line' \in Seq(Who) /\ op'[w].pc = "error"
      /\ \A v \in Ops \ {w} : op'[v] = op[v]
  BY <1>1, Ends DEF WInv, HealWriterFails, Outcomes
<1>3. /\ UNCHANGED <<poolState, writer, writerHealthy, closing, writersRecent>>
      /\ UNCHANGED <<txn, swapper, durable, cancels>>
      /\ LeaveOpen /\ writerFaults' = writerFaults + 1
  BY DEF HealWriterFails, WriterFault
<1>4. /\ Links' /\ (Alive' <=> Alive)
      /\ writers' \subseteq Nat /\ abandoned' \subseteq Nat /\ writersOpened' \in Nat
  <2>1. \A v \in Ops : op[v].pc = "lost" => op'[v].pc = "lost"
    BY <1>1, <1>2
  <2> QED
    BY <1>3, <2>1, LeavesOpen DEF WInv
<1>5. WriterTypeOK'
  <2>1. writerFaults' \in Nat
    BY <1>3 DEF WInv, WriterTypeOK
  <2>2. WriterTypeOK
    BY DEF WInv
  <2> QED
    BY <1>2, <1>3, <1>4, <2>1, <2>2, SMTT(40) DEF WriterTypeOK, OpType, WriterPc
<1>6. Rows'
  BY <1>1, <1>2, <1>3, <1>4 DEF WInv, Rows, RowsOf
<1> QED
  BY <1>2, <1>4, <1>5, <1>6 DEF WInv

\* The steps under the lock that leave the connections alone: the open transaction
\* and the committed rows may change, and only the operation's own row may join them.
LEMMA OwnRows ==
    ASSUME WInv, NEW w \in Ops, op[w].pc \in Owning,
           \A v \in Ops \ {w} : op'[v] = op[v],
           txn'.rows \subseteq txn.rows \cup {w},
           durable \subseteq durable', durable' \subseteq durable \cup txn.rows \cup {w},
           UNCHANGED <<writer, writers>>,
           RowsOf(w)', ~Alive => txn'.rows = {}
    PROVE  Rows'
<1>1. \A v \in Ops \ {w} : op[v].pc \notin Owning
  BY OneHolder DEF WInv, Excluded
<1>2. \A v \in Ops \ {w} : RowsOf(v)'
  <2>1. SUFFICES ASSUME NEW v \in Ops \ {w} PROVE RowsOf(v)'
    OBVIOUS
  <2>2. RowsOf(v) /\ op'[v] = op[v] /\ op[v].pc # "commit"
    BY <1>1 DEF WInv, Rows, Owning, Statements
  <2> QED
    BY <2>2 DEF RowsOf
<1> QED
  BY <1>2 DEF Rows, Alive

LEMMA BeginStep ==
    ASSUME WInv, NEW w \in Ops, Begin(w)
    PROVE  WInv'
<1>1. /\ OpType /\ line \in Seq(Who) /\ op[w].pc = "begin" /\ op[w].pc \in Owning
      /\ RowsOf(w) /\ Alive
  BY DEF WInv, Rows, WriterTypeOK, OpType, WriterPc, Begin, Owning, Statements
<1>2. UNCHANGED <<conns, swapper, cancels, durable, writerFaults>>
  BY DEF Begin, Finish
<1>3. /\ OpType' /\ Excluded' /\ line' \in Seq(Who) /\ op'[w].pc \in {"error", "body"}
      /\ \A v \in Ops \ {w} : op'[v] = op[v]
  <2>1. CASE txn.active
    BY <1>1, <2>1, Ends DEF WInv, Begin, Finish, Outcomes
  <2>2. CASE ~txn.active
    BY <1>1, <2>2, Under DEF WInv, Begin, WriterPc, Statements
  <2> QED
    BY <2>1, <2>2
<1>4. txn' \in [active : BOOLEAN, rows : SUBSET Ops] /\ txn'.rows = txn.rows
  BY DEF WInv, WriterTypeOK, Begin
<1>5. WriterTypeOK'
  BY <1>2, <1>3, <1>4 DEF WInv, WriterTypeOK, OpType, WriterPc, conns
<1>6. Rows'
  <2>1. RowsOf(w)'
    BY <1>1, <1>2, <1>3, <1>4 DEF RowsOf
  <2> QED
    BY <1>1, <1>2, <1>3, <1>4, <2>1, OwnRows DEF conns
<1>7. Links'
  BY <1>1, <1>2, <1>3, LinksKeep DEF WInv
<1> QED
  BY <1>3, <1>5, <1>6, <1>7 DEF WInv

LEMMA WriteStep ==
    ASSUME WInv, NEW w \in Ops, Write(w)
    PROVE  WInv'
<1>1. /\ OpType /\ line \in Seq(Who) /\ op[w].pc \in {"exec", "body"} /\ op[w].pc \in Owning
      /\ RowsOf(w) /\ Alive
  BY DEF WInv, Rows, WriterTypeOK, OpType, WriterPc, Write, Owning, Statements
<1>2. UNCHANGED <<conns, line, swapper, cancels, durable, writerFaults>>
  BY DEF Write
<1>3. /\ OpType' /\ Excluded' /\ op'[w].pc = "commit"
      /\ \A v \in Ops \ {w} : op'[v] = op[v]
  BY <1>1, Under DEF WInv, Write, WriterPc, Statements
<1>4. /\ txn' \in [active : BOOLEAN, rows : SUBSET Ops]
      /\ txn'.rows = txn.rows \cup {w}
  BY DEF WInv, WriterTypeOK, Write
<1>5. WriterTypeOK'
  BY <1>2, <1>3, <1>4 DEF WInv, WriterTypeOK, OpType, WriterPc, conns
<1>6. Rows'
  <2>1. RowsOf(w)'
    BY <1>1, <1>2, <1>3, <1>4 DEF RowsOf
  <2> QED
    BY <1>1, <1>2, <1>3, <1>4, <2>1, OwnRows DEF conns
<1>7. Links'
  BY <1>1, <1>2, <1>3, LinksKeep DEF WInv
<1> QED
  BY <1>3, <1>5, <1>6, <1>7 DEF WInv

\* An operation ends: what it had written is committed, rolled back, or was never
\* written, and its answer says which.
LEMMA FinishStep ==
    ASSUME WInv, NEW w \in Ops, op[w].pc \in Owning,
           NEW outcome \in Outcomes, Go(w, outcome), PassOn,
           UNCHANGED <<conns, cancels>>,
           writerFaults' \in Nat,
           swapper' = swapper,
           txn' \in [active : BOOLEAN, rows : SUBSET Ops],
           txn'.rows \subseteq txn.rows, ~Alive => txn'.rows = {},
           durable' \in {durable, durable \cup txn.rows},
           outcome = "ok" => w \in durable',
           outcome = "error" => w \notin durable' \cup txn'.rows
    PROVE  WInv'
<1>1. OpType /\ line \in Seq(Who) /\ durable \subseteq Ops /\ txn.rows \subseteq Ops
  BY DEF WInv, WriterTypeOK, OpType, WriterPc
<1>2. /\ OpType' /\ Excluded' /\ line' \in Seq(Who) /\ op'[w].pc = outcome
      /\ \A v \in Ops \ {w} : op'[v] = op[v]
  BY <1>1, Ends DEF WInv
<1>3. WriterTypeOK'
  BY <1>1, <1>2 DEF WInv, WriterTypeOK, OpType, WriterPc, conns
<1>4. Rows'
  <2>1. RowsOf(w)'
    BY <1>2 DEF RowsOf, Outcomes
  <2> QED
    BY <1>1, <1>2, <2>1, OwnRows DEF conns
<1>5. Links'
  <2>1. \A v \in Ops : op[v].pc = "lost" => op'[v].pc = "lost"
    BY <1>2 DEF Owning, Statements
  <2> QED
    BY <2>1, LinksKeep DEF WInv
<1> QED
  BY <1>2, <1>3, <1>4, <1>5 DEF WInv

LEMMA BodyRaisesStep ==
    ASSUME WInv, NEW w \in Ops, BodyRaises(w)
    PROVE  WInv'
<1>1. op[w].pc \in Owning /\ RowsOf(w) /\ w \notin durable
  BY DEF WInv, Rows, RowsOf, BodyRaises, Owning, Statements
<1>2. txn' \in [active : BOOLEAN, rows : SUBSET Ops] /\ txn'.rows = {}
  BY DEF BodyRaises, Clean
<1>3. writerFaults' \in Nat
  BY DEF WInv, WriterTypeOK, BodyRaises
<1> QED
  BY <1>1, <1>2, <1>3, FinishStep DEF BodyRaises, Finish, Outcomes

LEMMA CommitStep ==
    ASSUME WInv, NEW w \in Ops, Commit(w)
    PROVE  WInv'
<1>1. op[w].pc \in Owning /\ RowsOf(w) /\ w \in txn.rows
  BY DEF WInv, Rows, RowsOf, Commit, Owning, Statements
<1>2. txn' \in [active : BOOLEAN, rows : SUBSET Ops] /\ txn'.rows = {}
  BY DEF Commit, Clean
<1>3. writerFaults' \in Nat
  BY DEF WInv, WriterTypeOK, Commit
<1> QED
  BY <1>1, <1>2, <1>3, FinishStep DEF Commit, Finish, Outcomes

LEMMA StatementFailsStep ==
    ASSUME WInv, NEW w \in Ops, StatementFails(w)
    PROVE  WInv'
<1>1. op[w].pc \in Owning /\ RowsOf(w) /\ w \notin durable /\ Alive
      /\ (op[w].pc = "begin" => w \notin txn.rows)
  BY DEF WInv, Rows, RowsOf, StatementFails, Owning, Statements
<1>2. /\ txn' \in [active : BOOLEAN, rows : SUBSET Ops] /\ txn'.rows \subseteq txn.rows
      /\ w \notin txn'.rows
  BY <1>1 DEF WInv, WriterTypeOK, StatementFails, Clean
<1>3. writerFaults' \in Nat
  BY DEF WInv, WriterTypeOK, StatementFails, WriterFault
<1> QED
  BY <1>1, <1>2, <1>3, FinishStep DEF StatementFails, Finish, Outcomes

LEMMA StatementOnClosedStep ==
    ASSUME WInv, NEW w \in Ops, StatementOnClosed(w)
    PROVE  WInv'
<1>1. op[w].pc \in Owning /\ RowsOf(w) /\ w \notin durable /\ txn.rows = {}
  BY DEF WInv, Rows, RowsOf, StatementOnClosed, Owning, Statements
<1>2. txn' = txn /\ txn \in [active : BOOLEAN, rows : SUBSET Ops]
  BY DEF WInv, WriterTypeOK, StatementOnClosed
<1>3. writerFaults' \in Nat
  BY DEF WInv, WriterTypeOK, StatementOnClosed
<1> QED
  BY <1>1, <1>2, <1>3, FinishStep DEF StatementOnClosed, Finish, Outcomes

\* The replacement a lost operation spawns is to replace the installed connection.
LEMMA LoseWriterStep ==
    ASSUME WInv, NEW w \in Ops, LoseWriter(w)
    PROVE  WInv'
<1>1. /\ OpType /\ line \in Seq(Who) /\ op[w].pc \in Statements /\ op[w].pc \in Owning
      /\ Alive /\ txn.rows \subseteq Ops /\ durable \subseteq Ops
      /\ txn \in [active : BOOLEAN, rows : SUBSET Ops]
  BY DEF WInv, WriterTypeOK, OpType, WriterPc, LoseWriter, Owning
<1>2. /\ OpType' /\ Excluded' /\ line' \in Seq(Who) /\ op'[w].pc = "lost"
      /\ \A v \in Ops \ {w} : op'[v] = op[v]
  BY <1>1, Ends DEF WInv, LoseWriter, Outcomes
<1>3. UNCHANGED <<conns, cancels>> /\ writerFaults' = writerFaults + 1
  BY DEF LoseWriter, WriterFault
<1>4. /\ txn' \in [active : BOOLEAN, rows : SUBSET Ops] /\ txn'.rows \subseteq txn.rows
      /\ durable' \in {durable, durable \cup txn.rows}
  <2>1. Clean \in [active : BOOLEAN, rows : SUBSET Ops] /\ Clean.rows = {}
    BY DEF Clean
  <2> HIDE DEF Clean
  <2>2. txn' = Clean \/ txn' = txn
    BY DEF LoseWriter
  <2>3. durable' = durable \/ durable' = durable \cup txn.rows
    BY DEF LoseWriter
  <2> QED
    BY <1>1, <2>1, <2>2, <2>3
<1>5. /\ writer \in Nat
      /\ swapper' = [swapper EXCEPT ![w] = [pc |-> "mark", old |-> writer, new |-> NoWriter]]
      /\ swapper \in [Ops -> [pc : {"none", "mark", "open", "swap"}, old : Nat, new : Nat]]
  BY DEF LoseWriter, WInv, WriterTypeOK
<1>6. /\ swapper' \in [Ops -> [pc : {"none", "mark", "open", "swap"}, old : Nat, new : Nat]]
      /\ swapper'[w] = [pc |-> "mark", old |-> writer, new |-> NoWriter]
      /\ \A v \in Ops \ {w} : swapper'[v] = swapper[v]
  BY <1>5 DEF NoWriter
<1>7. WriterTypeOK'
  BY <1>1, <1>2, <1>3, <1>4, <1>6 DEF WInv, WriterTypeOK, OpType, WriterPc, conns
<1>8. Rows'
  <2>1. RowsOf(w)'
    BY <1>2 DEF RowsOf
  <2> QED
    BY <1>1, <1>2, <1>3, <1>4, <2>1, OwnRows DEF conns
<1>9. Links'
  <2>1. swapper[w].pc = "none" /\ swapper[w].new = NoWriter
    BY <1>1 DEF WInv, Links, ReplOf, Statements
  <2>2. writer \in 1 .. writersOpened
    BY <1>1 DEF WInv, Links, Numbered, Alive
  <2>3. Numbered' /\ DeadWriterIsKnown'
    BY <1>3 DEF WInv, Links, Numbered, DeadWriterIsKnown, Alive, conns
  <2>4. \A v \in Ops : ReplOf(v)'
    <3>1. ReplOf(w)'
      BY <1>2, <1>3, <1>6, <2>2 DEF ReplOf, conns
    <3>2. \A v \in Ops \ {w} : ReplOf(v)'
      BY <1>2, <1>3, <1>6 DEF WInv, Links, ReplOf, conns
    <3> QED
      BY <3>1, <3>2
  <2>5. Apart'
    <3>1. SUFFICES ASSUME NEW v \in Ops, NEW u \in Ops, swapper'[u].pc = "swap"
                   PROVE  /\ swapper'[v].pc # "none" => swapper'[v].old # swapper'[u].new
                          /\ (swapper'[v].pc = "swap" /\ v # u) => swapper'[v].new # swapper'[u].new
      BY DEF Apart
    <3>2. u # w /\ swapper'[u] = swapper[u]
      BY <1>6, <3>1
    <3>3. CASE v = w
      BY <1>6, <3>1, <3>2, <3>3 DEF WInv, Links, ReplOf
    <3>4. CASE v # w
      BY <1>6, <3>1, <3>2, <3>4 DEF WInv, Links, Apart
    <3> QED
      BY <3>3, <3>4
  <2>6. Owned'
    <3>1. \A c \in writers : c # NoWriter
      BY DEF WInv, Links, Numbered, NoWriter
    <3>2. \A c \in writers : \A v \in Ops : swapper[v].new = c => swapper'[v].new = c
      BY <1>6, <2>1, <3>1
    <3> QED
      BY <1>3, <3>2 DEF WInv, Links, Owned, conns
  <2> QED
    BY <2>3, <2>4, <2>5, <2>6 DEF Links
<1> QED
  BY <1>2, <1>7, <1>8, <1>9 DEF WInv

\* A cancelled operation promises nothing about its row.
LEMMA CancelledRows ==
    ASSUME WInv, NEW w \in Ops, op[w].pc \in Owning,
           \A v \in Ops \ {w} : op'[v] = op[v], op'[w].pc = "cancelled",
           txn'.rows \subseteq txn.rows \cup {w},
           durable \subseteq durable', durable' \subseteq durable \cup txn.rows,
           UNCHANGED <<writer, writers>>, ~Alive => txn'.rows = {}
    PROVE  Rows'
<1>1. RowsOf(w)'
  BY DEF RowsOf
<1> QED
  BY <1>1, OwnRows

\* Whoever is cancelled has not lost its connection.
LEMMA CancelledLinks ==
    ASSUME WInv, NEW w \in Ops, op[w].pc # "lost",
           \A v \in Ops \ {w} : op'[v] = op[v], UNCHANGED <<conns, swapper>>
    PROVE  Links'
<1>1. \A v \in Ops : op[v].pc = "lost" => op'[v].pc = "lost"
  OBVIOUS
<1> QED
  BY <1>1, LinksKeep DEF WInv

LEMMA CancelWaitingStep ==
    ASSUME WInv, NEW w \in Ops, CancelWaiting(w)
    PROVE  WInv'
<1>1. OpType /\ line \in Seq(Who) /\ op[w].pc = "line"
  BY DEF WInv, WriterTypeOK, OpType, WriterPc, CancelWaiting
<1>2. /\ OpType' /\ Excluded' /\ line' \in Seq(Who) /\ op'[w].pc = "cancelled"
      /\ \A v \in Ops \ {w} : op'[v] = op[v]
  BY <1>1, LeavesLine DEF WInv, CancelWaiting
<1>3. UNCHANGED <<conns, txn, durable, swapper, writerFaults>> /\ cancels' = cancels + 1
  BY DEF CancelWaiting, Cancelled
<1>4. WriterTypeOK'
  BY <1>2, <1>3 DEF WInv, WriterTypeOK, OpType, WriterPc, conns
<1>5. Rows'
  BY <1>1, <1>2, <1>3 DEF WInv, Rows, RowsOf, Alive, conns
<1>6. Links'
  BY <1>1, <1>2, <1>3, CancelledLinks
<1> QED
  BY <1>2, <1>4, <1>5, <1>6 DEF WInv

LEMMA CancelHealStep ==
    ASSUME WInv, NEW w \in Ops, CancelHeal(w)
    PROVE  WInv'
<1>1. OpType /\ line \in Seq(Who) /\ op[w].pc = "heal" /\ op[w].pc \in Owning
  BY DEF WInv, WriterTypeOK, OpType, WriterPc, CancelHeal, Owning
<1>2. /\ OpType' /\ Excluded' /\ line' \in Seq(Who) /\ op'[w].pc = "cancelled"
      /\ \A v \in Ops \ {w} : op'[v] = op[v]
  BY <1>1, LeavesLine DEF WInv, CancelHeal
<1>3. /\ UNCHANGED <<poolState, writer, writerHealthy, closing, writersRecent, txn, durable>>
      /\ UNCHANGED <<swapper, writerFaults>> /\ LeaveOpen /\ cancels' = cancels + 1
  BY DEF CancelHeal, Cancelled
<1>4. /\ Links' /\ (Alive' <=> Alive)
      /\ writers' \subseteq Nat /\ abandoned' \subseteq Nat /\ writersOpened' \in Nat
  <2>1. \A v \in Ops : op[v].pc = "lost" => op'[v].pc = "lost"
    BY <1>1, <1>2
  <2> QED
    BY <1>3, <2>1, LeavesOpen DEF WInv
<1>5. WriterTypeOK'
  BY <1>2, <1>3, <1>4 DEF WInv, WriterTypeOK, OpType, WriterPc
<1>6. Rows'
  BY <1>1, <1>2, <1>3, <1>4 DEF WInv, Rows, RowsOf
<1> QED
  BY <1>2, <1>4, <1>5, <1>6 DEF WInv

\* What a cancelled statement did all the same, in either kind of write.
LEMMA CancelStatement ==
    ASSUME WInv, NEW w \in Ops, op[w].pc \in Statements, Cancelled(w), UNCHANGED conns,
           txn' \in [active : BOOLEAN, rows : SUBSET Ops],
           txn'.rows \subseteq txn.rows \cup {w}, ~Alive => txn'.rows = {},
           durable' \in {durable, durable \cup txn.rows}
    PROVE  WInv'
<1>1. /\ OpType /\ line \in Seq(Who) /\ op[w].pc \in Owning /\ op[w].pc # "lost"
      /\ txn.rows \subseteq Ops /\ durable \subseteq Ops
  BY DEF WInv, WriterTypeOK, OpType, WriterPc, Owning, Statements
<1>2. /\ OpType' /\ Excluded' /\ line' \in Seq(Who) /\ op'[w].pc = "cancelled"
      /\ \A v \in Ops \ {w} : op'[v] = op[v]
  BY <1>1, LeavesLine DEF WInv
<1>3. UNCHANGED <<swapper, writerFaults>> /\ cancels' = cancels + 1
  BY DEF Cancelled
<1>4. WriterTypeOK'
  BY <1>1, <1>2, <1>3 DEF WInv, WriterTypeOK, OpType, WriterPc, conns
<1>5. Rows'
  BY <1>1, <1>2, CancelledRows DEF conns
<1>6. Links'
  BY <1>1, <1>2, <1>3, CancelledLinks
<1> QED
  BY <1>2, <1>4, <1>5, <1>6 DEF WInv

LEMMA CancelSingleStep ==
    ASSUME WInv, NEW w \in Ops, CancelSingle(w)
    PROVE  WInv'
<1>1. txn \in [active : BOOLEAN, rows : SUBSET Ops] /\ (~Alive => txn.rows = {})
      /\ UNCHANGED conns /\ Cancelled(w)
  BY DEF WInv, WriterTypeOK, Rows, CancelSingle
<1>2. /\ op[w].pc \in Statements
      /\ txn' \in [active : BOOLEAN, rows : SUBSET Ops]
      /\ txn'.rows \subseteq txn.rows \cup {w} /\ (~Alive => txn'.rows = {})
      /\ durable' \in {durable, durable \cup txn.rows}
  <2>1. CASE /\ op[w].pc = "exec" /\ Alive /\ UNCHANGED durable
             /\ txn' = [active |-> TRUE, rows |-> txn.rows \cup {w}]
    BY <1>1, <2>1 DEF Statements
  <2>2. CASE /\ op[w].pc = "commit" /\ Alive
             /\ durable' = durable \cup txn.rows /\ txn' = Clean
    BY <2>2 DEF Statements, Clean
  <2>3. CASE op[w].pc \in {"exec", "commit"} /\ UNCHANGED <<txn, durable>>
    BY <1>1, <2>3 DEF Statements
  <2> QED
    BY <2>1, <2>2, <2>3 DEF CancelSingle
<1> QED
  BY <1>1, <1>2, CancelStatement

LEMMA CancelTransactionStep ==
    ASSUME WInv, NEW w \in Ops, CancelTransaction(w)
    PROVE  WInv'
<1>1. txn \in [active : BOOLEAN, rows : SUBSET Ops] /\ (~Alive => txn.rows = {})
      /\ UNCHANGED conns /\ Cancelled(w)
  BY DEF WInv, WriterTypeOK, Rows, CancelTransaction
<1>2. /\ op[w].pc \in Statements
      /\ txn' \in [active : BOOLEAN, rows : SUBSET Ops]
      /\ txn'.rows \subseteq txn.rows \cup {w} /\ (~Alive => txn'.rows = {})
      /\ durable' \in {durable, durable \cup txn.rows}
  <2>1. CASE /\ op[w].pc = "begin" /\ UNCHANGED durable
             /\ \/ UNCHANGED txn
                \/ Alive /\ txn' = [txn EXCEPT !.active = TRUE]
    BY <1>1, <2>1 DEF Statements
  <2>2. CASE op[w].pc \in {"body", "commit"} /\ txn' = Clean /\ UNCHANGED durable
    BY <2>2 DEF Statements, Clean
  <2>3. CASE /\ op[w].pc = "commit" /\ Alive
             /\ txn' = Clean /\ durable' = durable \cup txn.rows
    BY <2>3 DEF Statements, Clean
  <2> QED
    BY <2>1, <2>2, <2>3 DEF CancelTransaction
<1> QED
  BY <1>1, <1>2, CancelStatement

SwapperType ==
    swapper \in [Ops -> [pc : {"none", "mark", "open", "swap"}, old : Nat, new : Nat]]

\* The background steps: no operation moves, nothing new is written or committed.
LEMMA BackgroundTypes ==
    ASSUME WInv, SwapperType', line' \in Seq(Who), UNCHANGED <<op, durable, cancels>>,
           txn' = txn \/ txn' = Clean,
           poolState' \in {"ready", "closing", "closed"},
           writer' \in Nat, writerHealthy' \in BOOLEAN,
           writers' \subseteq Nat, closing' \subseteq Nat, abandoned' \subseteq Nat,
           writersRecent' \in Nat, writersOpened' \in Nat, writerFaults' \in Nat
    PROVE  WriterTypeOK'
<1>1. Clean \in [active : BOOLEAN, rows : SUBSET Ops]
  BY DEF Clean
<1> QED
  BY <1>1 DEF WInv, WriterTypeOK, SwapperType

\* A connection that is closed, or goes, takes what it had not committed with it.
LEMMA BackgroundRows ==
    ASSUME WInv, UNCHANGED <<op, durable>>,
           txn' = txn \/ txn' = Clean,
           Alive' => (Alive /\ txn' = txn) \/ \A w \in Ops : op[w].pc # "commit",
           ~Alive' => txn' = Clean \/ ~Alive
    PROVE  Rows'
<1>1. Clean.rows = {}
  BY DEF Clean
<1> HIDE DEF Clean
<1>2. txn'.rows \subseteq txn.rows /\ (~Alive' => txn'.rows = {})
  BY <1>1 DEF WInv, Rows
<1>3. ASSUME NEW w \in Ops PROVE RowsOf(w)'
  <2>1. RowsOf(w)
    BY DEF WInv, Rows
  <2> QED
    BY <1>2, <2>1 DEF RowsOf
<1> QED
  BY <1>2, <1>3 DEF Rows

\* Types of what a replacement works with.
LEMMA Facts ==
    ASSUME WInv
    PROVE  /\ OpType /\ SwapperType /\ line \in Seq(Who)
           /\ poolState \in {"ready", "closing", "closed"}
           /\ writer \in Nat /\ writerHealthy \in BOOLEAN
           /\ writers \subseteq Nat /\ closing \subseteq Nat /\ abandoned \subseteq Nat
           /\ writersRecent \in Nat /\ writersOpened \in Nat /\ writerFaults \in Nat
           /\ FreshWriter = writersOpened + 1 /\ FreshWriter \in Nat
    BY DEF WInv, WriterTypeOK, OpType, SwapperType, WriterPc, FreshWriter

\* The storm guard leaves the connection to the next checkout.
LEMMA MarkWriterStep ==
    ASSUME WInv, NEW w \in Ops, MarkWriter(w)
    PROVE  WInv'
<1>1. /\ writersRecent' = writersRecent + 1 /\ writerHealthy' = FALSE
      /\ UNCHANGED <<poolState, writer, writers, writersOpened, abandoned>>
      /\ UNCHANGED <<txn, line, op, durable, writerFaults, cancels>>
      /\ swapper[w].pc = "mark"
  BY DEF MarkWriter
<1>2. /\ \A v \in Ops \ {w} : swapper'[v] = swapper[v]
      /\ SwapperType'
      /\ \/ swapper'[w] = NoRepl /\ closing' = closing
         \/ /\ swapper'[w] = [swapper[w] EXCEPT !.pc = "open"]
            /\ closing' = closing \cup {swapper[w].old}
  <2>1. SwapperType /\ NoRepl \in [pc : {"none", "mark", "open", "swap"}, old : Nat, new : Nat]
    BY Facts DEF NoRepl, NoWriter
  <2>2. CASE swapper' = [swapper EXCEPT ![w] = NoRepl] /\ UNCHANGED closing
    BY <2>1, <2>2 DEF SwapperType
  <2>3. CASE swapper' = [swapper EXCEPT ![w].pc = "open"] /\ closing' = closing \cup {swapper[w].old}
    BY <2>1, <2>3 DEF SwapperType
  <2> QED
    BY <2>2, <2>3 DEF MarkWriter
<1>3. swapper[w].old \in 1 .. writersOpened /\ swapper[w].new = NoWriter
  BY <1>1 DEF WInv, Links, ReplOf
<1>4. closing' \subseteq closing \cup {swapper[w].old} /\ closing \subseteq closing'
  BY <1>2
<1>5. /\ swapper'[w].new = NoWriter /\ swapper'[w].old \in {NoWriter, swapper[w].old}
      /\ swapper'[w].pc \in {"none", "open"}
      /\ swapper'[w].pc = "open" =>
           swapper'[w].old = swapper[w].old /\ swapper[w].old \in closing'
  BY <1>2, <1>3, Facts DEF NoRepl, NoWriter, SwapperType
<1>6. WriterTypeOK'
  <2>1. closing' \subseteq Nat /\ writersRecent' \in Nat
    BY <1>1, <1>3, <1>4, Facts
  <2>2. writerHealthy' \in BOOLEAN
    BY <1>1, Zenon
  <2> QED
    BY <1>1, <1>2, <2>1, <2>2, Facts, BackgroundTypes
<1>7. Excluded' /\ Rows'
  BY <1>1, BackgroundRows DEF WInv, Excluded, Holds, Alive
<1>8. Links'
  <2>1. Numbered'
    BY <1>1, <1>3, <1>4 DEF WInv, Links, Numbered
  <2>2. ASSUME NEW v \in Ops \ {w} PROVE ReplOf(v)'
    <3>1. ReplOf(v) /\ (swapper[v].pc = "swap" => swapper[v].new # swapper[w].old)
      BY <1>1 DEF WInv, Links, Apart
    <3> QED
      BY <1>1, <1>2, <1>4, <3>1 DEF ReplOf
  <2>3. ReplOf(w)'
    <3>1. op[w].pc = "lost"
      BY <1>1 DEF WInv, Links, ReplOf
    <3> QED
      BY <1>1, <1>3, <1>5, <3>1 DEF ReplOf
  <2>4. Apart'
    <3>1. SUFFICES ASSUME NEW v \in Ops, NEW u \in Ops, swapper'[u].pc = "swap"
                   PROVE  /\ swapper'[v].pc # "none" => swapper'[v].old # swapper'[u].new
                          /\ (swapper'[v].pc = "swap" /\ v # u) => swapper'[v].new # swapper'[u].new
      BY DEF Apart
    <3>2. u # w /\ swapper'[u] = swapper[u]
      BY <1>2, <1>5, <3>1
    <3>3. CASE v = w
      BY <1>1, <1>5, <3>1, <3>2, <3>3 DEF WInv, Links, Apart
    <3>4. CASE v # w
      BY <1>2, <3>1, <3>2, <3>4 DEF WInv, Links, Apart
    <3> QED
      BY <3>3, <3>4
  <2>5. DeadWriterIsKnown'
    BY <1>1 DEF DeadWriterIsKnown
  <2>6. Owned'
    <3>1. \A c \in writers : c # NoWriter
      BY DEF WInv, Links, Numbered, NoWriter
    <3>2. \A c \in writers : \A v \in Ops : swapper[v].new = c => swapper'[v].new = c
      BY <1>2, <1>3, <3>1
    <3> QED
      BY <1>1, <1>4, <3>2 DEF WInv, Links, Owned
  <2> QED
    BY <2>1, <2>2, <2>3, <2>4, <2>5, <2>6 DEF Links
<1> QED
  BY <1>6, <1>7, <1>8 DEF WInv

\* The connection a replacement opens is its own until the swap.
LEMMA ReplOpenStep ==
    ASSUME WInv, NEW w \in Ops, ReplOpen(w)
    PROVE  WInv'
<1>1. /\ swapper[w].pc = "open"
      /\ writersOpened' = FreshWriter /\ writers' = writers \cup {FreshWriter}
      /\ UNCHANGED <<poolState, writer, writerHealthy, closing, writersRecent, abandoned>>
      /\ UNCHANGED <<txn, op, durable, writerFaults, cancels>>
  BY DEF ReplOpen
<1> HIDE DEF FreshWriter
<1>2. /\ \A v \in Ops \ {w} : swapper'[v] = swapper[v]
      /\ SwapperType'
      /\ swapper'[w].pc = "swap" /\ swapper'[w].new = FreshWriter
      /\ swapper'[w].old = swapper[w].old
  BY Facts DEF ReplOpen, SwapperType
<1>3. /\ swapper[w].old \in 1 .. writersOpened /\ swapper[w].new = NoWriter
      /\ op[w].pc = "lost"
      /\ (swapper[w].old \in writers => swapper[w].old \in closing \cup abandoned)
  BY <1>1 DEF WInv, Links, ReplOf
<1>4. Numbered /\ FreshWriter \notin writers \cup closing \cup {writer} \cup 0 .. writersOpened
  BY Facts DEF WInv, Links, Numbered
<1>5. <<"swap", w>> \in Who
  BY DEF Who
<1>6. line' \in Seq(Who) /\ (line # <<>> => line' # <<>> /\ Head(line') = Head(line))
  BY <1>5, Facts, Joins DEF ReplOpen
<1>7. WriterTypeOK'
  BY <1>1, <1>2, <1>6, Facts, BackgroundTypes
<1>8. Excluded' /\ Rows'
  <2>1. Excluded'
    BY <1>1, <1>6, HeadStays DEF WInv
  <2>2. Alive' <=> Alive
    BY <1>1, <1>4 DEF Alive
  <2> QED
    BY <1>1, <2>1, <2>2, BackgroundRows
<1>9. Links'
  <2>1. Numbered'
    <3>1. \A c \in 0 .. writersOpened : c \in 0 .. FreshWriter
      BY Facts
    <3>2. \A c \in 1 .. writersOpened : c \in 1 .. FreshWriter
      BY Facts
    <3>3. FreshWriter \in 1 .. FreshWriter
      BY Facts
    <3> QED
      BY <1>1, <1>4, <3>1, <3>2, <3>3 DEF Numbered
  <2>2. ASSUME NEW v \in Ops \ {w} PROVE ReplOf(v)'
    <3>1. ReplOf(v) /\ Numbered
      BY <1>4 DEF WInv, Links
    <3>2. \A c \in 1 .. writersOpened : c \in 1 .. FreshWriter /\ c # FreshWriter
      BY Facts
    <3> QED
      BY <1>1, <1>2, <3>1, <3>2 DEF ReplOf
  <2>3. ReplOf(w)'
    <3>1. \A c \in 1 .. writersOpened : c \in 1 .. FreshWriter /\ c # FreshWriter
      BY Facts
    <3> QED
      BY <1>1, <1>2, <1>3, <1>4, <3>1 DEF ReplOf
  <2>4. Apart'
    <3>1. SUFFICES ASSUME NEW v \in Ops, NEW u \in Ops, swapper'[u].pc = "swap"
                   PROVE  /\ swapper'[v].pc # "none" => swapper'[v].old # swapper'[u].new
                          /\ (swapper'[v].pc = "swap" /\ v # u) => swapper'[v].new # swapper'[u].new
      BY DEF Apart
    <3>2. /\ swapper'[v].pc # "none" => swapper'[v].old \in 1 .. writersOpened
          /\ swapper'[v].old = swapper[v].old /\ swapper'[u].old = swapper[u].old
      BY <1>2, <1>3 DEF WInv, Links, ReplOf
    <3>3. CASE u = w
      <4>1. swapper'[v].pc # "none" => swapper'[v].old # swapper'[u].new
        BY <1>2, <1>4, <3>2, <3>3
      <4>2. (swapper'[v].pc = "swap" /\ v # u) => swapper'[v].new # swapper'[u].new
        BY <1>2, <1>4, <3>3 DEF WInv, Links, ReplOf
      <4> QED
        BY <4>1, <4>2
    <3>4. CASE u # w
      <4>1. swapper'[u] = swapper[u] /\ swapper[u].new \in writers
        BY <1>2, <3>1, <3>4 DEF WInv, Links, ReplOf
      <4>2. CASE v = w
        BY <1>1, <1>2, <1>4, <3>1, <4>1, <4>2 DEF WInv, Links, Apart
      <4>3. CASE v # w
        BY <1>2, <3>1, <4>1, <4>3 DEF WInv, Links, Apart
      <4> QED
        BY <4>2, <4>3
    <3> QED
      BY <3>3, <3>4
  <2>5. DeadWriterIsKnown'
    BY <1>1, <1>4 DEF WInv, Links, DeadWriterIsKnown, Alive
  <2>6. Owned'
    <3>1. \A c \in writers : c # NoWriter
      BY <1>4 DEF Numbered, NoWriter
    <3>2. \A c \in writers : \A v \in Ops : swapper[v].new = c => swapper'[v].new = c
      BY <1>2, <1>3, <3>1
    <3> QED
      BY <1>1, <1>2, <3>2 DEF WInv, Links, Owned
  <2> QED
    BY <2>1, <2>2, <2>3, <2>4, <2>5, <2>6 DEF Links
<1> QED
  BY <1>7, <1>8, <1>9 DEF WInv

\* A replacement that is over takes nothing of the others with it.
LEMMA ReplEndsLinks ==
    ASSUME Links, SwapperType, NEW w \in Ops, swapper' = [swapper EXCEPT ![w] = NoRepl],
           \A v \in Ops : op'[v] = op[v],
           UNCHANGED <<abandoned, writersOpened, writers>>,
           closing \subseteq closing',
           \A v \in Ops \ {w} : swapper[v].pc = "swap" =>
               swapper[v].new \notin closing' \cup {writer'}
    PROVE  /\ \A v \in Ops : ReplOf(v)'
           /\ Apart'
           /\ \A v \in Ops \ {w} : swapper'[v] = swapper[v]
<1>1. /\ \A v \in Ops \ {w} : swapper'[v] = swapper[v]
      /\ swapper'[w] = NoRepl
  BY DEF SwapperType
<1>2. ReplOf(w)'
  BY <1>1 DEF ReplOf, NoRepl, NoWriter
<1>3. ASSUME NEW v \in Ops \ {w} PROVE ReplOf(v)'
  <2>1. ReplOf(v)
    BY DEF Links
  <2> QED
    BY <1>1, <2>1 DEF ReplOf
<1>4. Apart'
  BY <1>1 DEF Links, Apart, NoRepl
<1> QED
  BY <1>1, <1>2, <1>3, <1>4

\* The compare-and-set: the loser's connection is closed, the winner's installed.
LEMMA SwapStep ==
    ASSUME WInv, NEW w \in Ops, Swap(w)
    PROVE  WInv'
<1>1. /\ Holds("swap", w) /\ swapper[w].pc = "swap" /\ PassOn
      /\ swapper' = [swapper EXCEPT ![w] = NoRepl]
      /\ UNCHANGED <<poolState, writers, writersRecent, writersOpened, abandoned>>
      /\ UNCHANGED <<op, durable, writerFaults, cancels>>
  BY DEF Swap
<1>2. /\ swapper[w].new \in writers \ closing /\ swapper[w].new # writer
      /\ swapper[w].new \in 1 .. writersOpened /\ swapper[w].new # NoWriter
      /\ (swapper[w].old \in writers => swapper[w].old \in closing \cup abandoned)
  BY <1>1 DEF WInv, Links, ReplOf, Numbered, NoWriter
<1>3. \/ /\ writer = swapper[w].old /\ writer' = swapper[w].new /\ writerHealthy' = TRUE
         /\ txn' = Clean /\ closing' = closing
      \/ /\ closing' = closing \cup {swapper[w].new}
         /\ writer' = writer /\ writerHealthy' = writerHealthy /\ txn' = txn
  BY DEF Swap
<1>4. \A v \in Ops \ {w} : swapper[v].pc = "swap" => swapper[v].new \notin closing' \cup {writer'}
  <2>1. SUFFICES ASSUME NEW v \in Ops \ {w}, swapper[v].pc = "swap"
                 PROVE  swapper[v].new \notin closing' \cup {writer'}
    OBVIOUS
  <2>2. swapper[v].new # swapper[w].new
    BY <1>1, <2>1 DEF WInv, Links, Apart
  <2>3. swapper[v].new \notin closing /\ swapper[v].new # writer
    BY <2>1 DEF WInv, Links, ReplOf
  <2> QED
    BY <1>3, <2>2, <2>3
<1>5. /\ \A v \in Ops : ReplOf(v)'
      /\ Apart'
      /\ \A v \in Ops \ {w} : swapper'[v] = swapper[v]
  <2>1. closing \subseteq closing' /\ \A v \in Ops : op'[v] = op[v]
    BY <1>1, <1>3
  <2> QED
    BY <1>1, <1>4, <2>1, Facts, ReplEndsLinks DEF WInv
<1>6. SwapperType' /\ swapper'[w].new = NoWriter
  BY <1>1, Facts DEF SwapperType, NoRepl, NoWriter
<1>7. line' \in Seq(Who) /\ line # <<>>
  BY <1>1, Facts, LineFacts DEF Holds, PassOn
<1>8. WriterTypeOK'
  <2>1. writer' \in Nat /\ closing' \subseteq Nat /\ writerHealthy' \in BOOLEAN
    BY <1>2, <1>3, Facts
  <2> QED
    BY <1>1, <1>3, <1>6, <1>7, <2>1, Facts, BackgroundTypes
<1>9. \A v \in Ops : op[v].pc \notin Owning
  BY <1>1, OneHolder DEF WInv, Excluded
<1>10. Excluded'
  BY <1>1, <1>9 DEF Excluded
<1>11. Rows'
  <2>1. \A v \in Ops : op[v].pc # "commit"
    BY <1>9 DEF Owning, Statements
  <2>2. ~Alive' => txn' = Clean \/ ~Alive
    BY <1>1, <1>3 DEF Alive
  <2> QED
    BY <1>1, <1>3, <2>1, <2>2, BackgroundRows
<1>12. Links'
  <2>1. Numbered'
    <3>1. Numbered
      BY DEF WInv, Links
    <3>2. writers' \cup closing' \subseteq 1 .. writersOpened' /\ writer' \in 0 .. writersOpened'
      BY <1>1, <1>2, <1>3, <3>1, Facts DEF Numbered
    <3>3. writer' \in closing' => ~writerHealthy'
      BY <1>2, <1>3, <3>1 DEF Numbered
    <3> QED
      BY <3>2, <3>3 DEF Numbered
  <2>2. DeadWriterIsKnown'
    BY <1>1, <1>2, <1>3 DEF WInv, Links, DeadWriterIsKnown, Alive
  <2>3. Owned'
    <3>1. SUFFICES ASSUME NEW c \in writers
                   PROVE  \/ c \in {writer'} \cup closing' \cup abandoned
                          \/ \E v \in Ops : swapper'[v].new = c
      BY <1>1 DEF Owned
    <3>2. CASE c = swapper[w].new
      BY <1>3, <3>2
    <3>3. CASE c = writer
      BY <1>2, <1>3, <3>1, <3>3
    <3>4. CASE c \in closing \cup abandoned
      BY <1>3, <3>4
    <3>5. ASSUME NEW v \in Ops \ {w}, swapper[v].new = c
          PROVE  swapper'[v].new = c
      BY <1>5, <3>5
    <3> QED
      BY <3>1, <3>2, <3>3, <3>4, <3>5 DEF WInv, Links, Owned
  <2> QED
    BY <1>5, <2>1, <2>2, <2>3 DEF Links
<1> QED
  BY <1>8, <1>10, <1>11, <1>12 DEF WInv

\* The open of a replacement fails, and the next checkout heals.
LEMMA ReplWriterFailsStep ==
    ASSUME WInv, NEW w \in Ops, ReplWriterFails(w)
    PROVE  WInv'
<1>1. /\ swapper[w].pc = "open" /\ LeaveOpen
      /\ swapper' = [swapper EXCEPT ![w] = NoRepl]
      /\ UNCHANGED <<poolState, writer, writerHealthy, closing, writersRecent>>
      /\ UNCHANGED <<txn, line, op, durable, cancels>>
      /\ writerFaults' = writerFaults + 1
  BY DEF ReplWriterFails, WriterFault
<1>2. /\ FreshWriter \notin writers \cup closing \cup {writer} \cup 0 .. writersOpened
      /\ Numbered
  BY Facts DEF WInv, Links, Numbered
<1> HIDE DEF FreshWriter
<1>3. \/ UNCHANGED <<writers, writersOpened, abandoned>>
      \/ /\ writersOpened' = FreshWriter
         /\ writers' = writers \cup {FreshWriter} /\ abandoned' = abandoned \cup {FreshWriter}
  BY <1>1 DEF LeaveOpen
<1>4. /\ swapper'[w] = NoRepl /\ SwapperType'
      /\ \A v \in Ops \ {w} : swapper'[v] = swapper[v]
  BY <1>1, Facts DEF SwapperType, NoRepl, NoWriter
<1>5. swapper[w].new = NoWriter
  BY <1>1 DEF WInv, Links, ReplOf
<1>6. writers' \subseteq Nat /\ abandoned' \subseteq Nat /\ writersOpened' \in Nat
  BY <1>3, Facts
<1>7. Alive' <=> Alive
  BY <1>1, <1>2, <1>3 DEF Alive
<1>8. WriterTypeOK'
  BY <1>1, <1>4, <1>6, Facts, BackgroundTypes
<1>9. Excluded' /\ Rows'
  BY <1>1, <1>7, BackgroundRows DEF WInv, Excluded, Holds
<1>10. Links'
  <2>1. writersOpened' \in {writersOpened, FreshWriter} /\ writers \subseteq writers'
        /\ abandoned \subseteq abandoned' /\ writers' \subseteq writers \cup {FreshWriter}
        /\ \A c \in writers' \ writers : c \in abandoned'
    BY <1>3
  <2>2. /\ \A c \in 0 .. writersOpened : c \in 0 .. writersOpened'
        /\ \A c \in 1 .. writersOpened : c \in 1 .. writersOpened' /\ c # FreshWriter
        /\ \A c \in writers' : c \in 1 .. writersOpened'
    <3>1. CASE UNCHANGED <<writers, writersOpened>>
      BY <1>2, <3>1, Facts DEF Numbered
    <3>2. CASE writersOpened' = FreshWriter /\ writers' = writers \cup {FreshWriter}
      BY <1>2, <3>2, Facts DEF Numbered
    <3> QED
      BY <1>3, <3>1, <3>2
  <2>3. Numbered'
    BY <1>1, <1>2, <2>2 DEF Numbered
  <2>4. ASSUME NEW v \in Ops \ {w} PROVE ReplOf(v)'
    <3>1. ReplOf(v)
      BY DEF WInv, Links
    <3> QED
      BY <1>1, <1>4, <2>1, <2>2, <3>1 DEF ReplOf
  <2>5. ReplOf(w)'
    BY <1>4 DEF ReplOf, NoRepl, NoWriter
  <2>6. Apart'
    BY <1>4 DEF WInv, Links, Apart, NoRepl
  <2>7. DeadWriterIsKnown'
    BY <1>1, <1>7 DEF WInv, Links, DeadWriterIsKnown
  <2>8. Owned'
    <3>1. \A c \in writers : c # NoWriter
      BY <1>2 DEF Numbered, NoWriter
    <3>2. \A c \in writers : \A v \in Ops : swapper[v].new = c => swapper'[v].new = c
      BY <1>4, <1>5, <3>1
    <3> QED
      BY <1>1, <2>1, <3>2 DEF WInv, Links, Owned
  <2> QED
    BY <2>3, <2>4, <2>5, <2>6, <2>7, <2>8 DEF Links
<1> QED
  BY <1>8, <1>9, <1>10 DEF WInv

\* What a close changes: one connection goes, and it is nobody's replacement.
LEMMA ConnectionGoes ==
    ASSUME WInv, NEW c \in closing,
           writers' = writers \ {c}, closing' = closing \ {c},
           UNCHANGED <<writer, writerHealthy, abandoned, writersOpened, swapper, op>>
    PROVE  Links'
<1>1. ASSUME NEW v \in Ops PROVE ReplOf(v)'
  <2>1. ReplOf(v)
    BY DEF WInv, Links
  <2> QED
    BY <2>1 DEF ReplOf
<1>2. Numbered'
  BY DEF WInv, Links, Numbered
<1>3. Apart'
  BY DEF WInv, Links, Apart
<1>4. DeadWriterIsKnown'
  BY DEF WInv, Links, Numbered, DeadWriterIsKnown, Alive
<1>5. Owned'
  BY DEF WInv, Links, Owned
<1> QED
  BY <1>1, <1>2, <1>3, <1>4, <1>5 DEF Links

LEMMA SafeCloseStep ==
    ASSUME WInv, NEW c \in closing, SafeClose(c)
    PROVE  WInv'
<1>1. /\ closing' = closing \ {c} /\ writers' = writers \ {c}
      /\ txn' = IF c = writer THEN Clean ELSE txn
      /\ UNCHANGED <<poolState, writer, writerHealthy, writersRecent, writersOpened, abandoned>>
      /\ UNCHANGED <<line, op, swapper, durable, writerFaults, cancels>>
  BY DEF SafeClose
<1>2. WriterTypeOK'
  <2>1. SwapperType' /\ (txn' = txn \/ txn' = Clean)
    BY <1>1, Facts DEF SwapperType
  <2> QED
    BY <1>1, <2>1, Facts, BackgroundTypes DEF SwapperType
<1>3. Excluded'
  BY <1>1 DEF WInv, Excluded, Holds
<1>4. Rows'
  BY <1>1, BackgroundRows DEF Alive
<1>5. Links'
  BY <1>1, ConnectionGoes
<1> QED
  BY <1>2, <1>3, <1>4, <1>5 DEF WInv

LEMMA TeardownStep ==
    ASSUME WInv, Teardown
    PROVE  WInv'
<1>1. /\ poolState' = "closed" /\ writer' = NoWriter /\ writers' = writers \ {writer}
      /\ txn' = Clean
      /\ UNCHANGED <<writerHealthy, closing, writersRecent, writersOpened, abandoned>>
      /\ UNCHANGED <<line, op, swapper, durable, writerFaults, cancels>>
  BY DEF Teardown
<1>2. WriterTypeOK'
  <2>1. SwapperType' /\ writers' \subseteq Nat /\ writer' \in Nat
    BY <1>1, Facts DEF SwapperType, NoWriter
  <2> QED
    BY <1>1, <2>1, Facts, BackgroundTypes
<1>3. Excluded'
  BY <1>1 DEF WInv, Excluded, Holds
<1>4. NoWriter \notin writers
  BY DEF WInv, Links, Numbered, NoWriter
<1>5. Rows'
  BY <1>1, <1>4, BackgroundRows DEF Alive
<1>6. Links'
  <2>1. ASSUME NEW v \in Ops PROVE ReplOf(v)'
    <3>1. ReplOf(v)
      BY DEF WInv, Links
    <3>2. swapper[v].pc = "swap" => swapper[v].new # NoWriter
      BY <1>4, <3>1 DEF ReplOf
    <3> QED
      BY <1>1, <3>1, <3>2 DEF ReplOf
  <2>2. Numbered'
    <3>1. NoWriter \notin closing /\ NoWriter \in 0 .. writersOpened
      BY Facts DEF WInv, Links, Numbered, NoWriter
    <3> QED
      BY <1>1, <3>1 DEF WInv, Links, Numbered
  <2>3. Apart' /\ DeadWriterIsKnown'
    BY <1>1 DEF WInv, Links, Apart, DeadWriterIsKnown
  <2>4. Owned'
    BY <1>1 DEF WInv, Links, Owned
  <2> QED
    BY <2>1, <2>2, <2>3, <2>4 DEF Links
<1> QED
  BY <1>2, <1>3, <1>5, <1>6 DEF WInv

\* A close that fails leaves the connection to nobody.
LEMMA SafeCloseFailsStep ==
    ASSUME WInv, NEW c \in closing, SafeCloseFails(c)
    PROVE  WInv'
<1>1. /\ closing' = closing \ {c} /\ abandoned' = abandoned \cup {c}
      /\ writerFaults' = writerFaults + 1
      /\ UNCHANGED <<poolState, writer, writerHealthy, writers, writersRecent, writersOpened>>
      /\ UNCHANGED <<txn, line, op, swapper, durable, cancels>>
  BY DEF SafeCloseFails, WriterFault
<1>2. WriterTypeOK'
  <2>1. SwapperType' /\ closing' \subseteq Nat /\ abandoned' \subseteq Nat
    BY <1>1, Facts DEF SwapperType
  <2> QED
    BY <1>1, <2>1, Facts, BackgroundTypes
<1>3. Excluded' /\ Rows'
  BY <1>1, BackgroundRows DEF WInv, Excluded, Holds, Alive
<1>4. Links'
  <2>1. ASSUME NEW v \in Ops PROVE ReplOf(v)'
    BY <1>1 DEF WInv, Links, ReplOf
  <2>2. Numbered' /\ Apart' /\ DeadWriterIsKnown' /\ Owned'
    BY <1>1 DEF WInv, Links, Numbered, Apart, DeadWriterIsKnown, Alive, Owned
  <2> QED
    BY <2>1, <2>2 DEF Links
<1> QED
  BY <1>2, <1>3, <1>4 DEF WInv

\* The window moves on, or the pool starts to close.
LEMMA WriterQuietStep ==
    ASSUME WInv, WriterExpire \/ ClosePool
    PROVE  WInv'
<1>1. /\ UNCHANGED <<writer, writerHealthy, writers, closing, writersOpened, abandoned>>
      /\ UNCHANGED <<txn, line, op, swapper, durable, writerFaults, cancels>>
      /\ writersRecent' \in Nat /\ poolState' \in {"ready", "closing", "closed"}
  BY Facts DEF WriterExpire, ClosePool
<1>2. WriterTypeOK'
  <2>1. SwapperType'
    BY <1>1, Facts DEF SwapperType
  <2> QED
    BY <1>1, <2>1, Facts, BackgroundTypes
<1>3. Excluded' /\ Rows'
  BY <1>1, BackgroundRows DEF WInv, Excluded, Holds, Alive
<1>4. Links'
  BY <1>1 DEF WInv, Links, Numbered, ReplOf, Apart, DeadWriterIsKnown, Alive, Owned
<1> QED
  BY <1>2, <1>3, <1>4 DEF WInv

-----------------------------------------------------------------------------
(* The theorems of the writer.                                             *)

LEMMA WriterInitInv == WriterInit => WInv
<1> SUFFICES ASSUME WriterInit PROVE WInv
  OBVIOUS
<1>1. WriterTypeOK
  BY DEF WriterInit, WriterTypeOK, Clean, NoRepl, NoWriter
<1>2. Excluded /\ Rows
  BY DEF WriterInit, Excluded, Rows, RowsOf, Owning, Statements, Clean
<1>3. Links
  BY DEF WriterInit, Links, Numbered, ReplOf, Apart, DeadWriterIsKnown, Alive, Owned,
         NoRepl, NoWriter
<1> QED
  BY <1>1, <1>2, <1>3 DEF WInv

LEMMA WriterNextInv == WInv /\ [WriterNext]_writerVars => WInv'
<1> SUFFICES ASSUME WInv, [WriterNext]_writerVars PROVE WInv'
  OBVIOUS
<1>1. CASE UNCHANGED writerVars
  <2>1. UNCHANGED <<conns, txn, line, op, swapper, durable, writerFaults, cancels>>
    BY <1>1 DEF writerVars
  <2>2. WriterTypeOK'
    BY <2>1 DEF WInv, WriterTypeOK, conns
  <2>3. Excluded' /\ Rows'
    BY <2>1 DEF WInv, Excluded, Holds, Rows, RowsOf, Alive, conns
  <2>4. Links'
    BY <2>1, LinksKeep DEF WInv
  <2> QED
    BY <2>2, <2>3, <2>4 DEF WInv
<1>2. ASSUME NEW w \in Ops, NEW kind \in {"single", "tx"}, Arrive(w, kind) PROVE WInv'
  BY <1>2, ArriveStep
<1>3. ASSUME NEW w \in Ops, OpStep(w) PROVE WInv'
  BY <1>3, EnterStep, HealWriterStep, HealWriterFailsStep, BeginStep, WriteStep,
     BodyRaisesStep, CommitStep, StatementFailsStep, StatementOnClosedStep, LoseWriterStep
     DEF OpStep
<1>4. ASSUME NEW w \in Ops, Cancel(w) PROVE WInv'
  BY <1>4, CancelWaitingStep, CancelHealStep, CancelSingleStep, CancelTransactionStep
     DEF Cancel
<1>5. ASSUME NEW w \in Ops, ReplaceWriter(w) PROVE WInv'
  BY <1>5, MarkWriterStep, ReplOpenStep, ReplWriterFailsStep, SwapStep DEF ReplaceWriter
<1>6. ASSUME NEW c \in closing, SafeClose(c) \/ SafeCloseFails(c) PROVE WInv'
  BY <1>6, SafeCloseStep, SafeCloseFailsStep
<1>7. CASE WriterExpire \/ ClosePool \/ Teardown
  BY <1>7, WriterQuietStep, TeardownStep
<1> QED
  BY <1>1, <1>2, <1>3, <1>4, <1>5, <1>6, <1>7 DEF WriterNext

\* db/pool.py: who holds the writer lock, which connections are open and whose
\* they are, and which rows are committed hang together at every step.
THEOREM WriterInductive == WriterSpec => []WInv
<1>1. WriterInit => WInv
  BY WriterInitInv
<1>2. WInv /\ [WriterNext]_writerVars => WInv'
  BY WriterNextInv
<1> QED
  BY <1>1, <1>2, PTL DEF WriterSpec

\* A write that was answered is committed, and one that raised is not and has
\* left nothing for a later commit, whatever is cancelled and whichever
\* connection breaks (pool.py:1173-1267).
THEOREM AnswersHonestCorrect == WriterSpec => []AnswersHonest
<1>1. WInv => AnswersHonest
  BY DEF WInv, Rows, RowsOf, AnswersHonest
<1> QED
  BY <1>1, WriterInductive, PTL

\* A dead writer connection is known to be dead or under replacement, and none
\* leaks but those the code gives up (pool.py:970-1065).
THEOREM WriterTrackedCorrect == WriterSpec => []WriterTracked
<1>1. ASSUME WInv PROVE WriterTracked
  <2>1. DeadWriterIsKnown /\ Owned
    BY <1>1 DEF WInv, Links
  <2>2. NoOtherLeak
    BY <2>1 DEF Owned, NoOtherLeak
  <2> QED
    BY <2>1, <2>2 DEF WriterTracked
<1> QED
  BY <1>1, WriterInductive, PTL

-----------------------------------------------------------------------------
(* The line of the writer's lock.                                          *)

Waiting == {"line"} \cup Owning

Once(l) == \A i, j \in DOMAIN l : l[i] = l[j] => i = j

In(l, e) == \E i \in DOMAIN l : l[i] = e

\* In the line is, once, who waits or works under the lock.
Lined ==
    /\ Once(line)
    /\ \A w \in Ops : /\ In(line, <<"op", w>>) <=> op[w].pc \in Waiting
                      /\ In(line, <<"swap", w>>) <=> swapper[w].pc = "swap"

\* Who was not in a line joins it.
LEMMA AppendOnce ==
    ASSUME NEW l \in Seq(Who), NEW e \in Who, Once(l), ~In(l, e)
    PROVE  Once(Append(l, e)) /\ \A d : In(Append(l, e), d) <=> In(l, d) \/ d = e
<1> DEFINE m == Append(l, e)
<1>1. /\ m \in Seq(Who) /\ Len(m) = Len(l) + 1 /\ Len(l) \in Nat
      /\ \A i \in 1 .. Len(l) : m[i] = l[i]
      /\ m[Len(l) + 1] = e
  BY AppendProperties, LenProperties
<1>2. DOMAIN l = 1 .. Len(l) /\ DOMAIN m = 1 .. (Len(l) + 1)
  BY <1>1, LenProperties
<1> HIDE DEF m
<1>3. \A i \in DOMAIN m : (i \in DOMAIN l /\ m[i] = l[i]) \/ (i = Len(l) + 1 /\ m[i] = e)
  BY <1>1, <1>2
<1>4. \A i \in DOMAIN l : i \in DOMAIN m /\ m[i] = l[i]
  BY <1>1, <1>2
<1>5. Len(l) + 1 \in DOMAIN m /\ m[Len(l) + 1] = e
  BY <1>1, <1>2
<1>6. Once(m)
  BY <1>3, <1>5, Zenon DEF Once, In
<1>7. \A d : In(m, d) <=> In(l, d) \/ d = e
  BY <1>3, <1>4, <1>5, Zenon DEF In
<1> QED
  BY <1>6, <1>7 DEF m

\* Who stands at some place of a line leaves it.
LEMMA WithoutOnce ==
    ASSUME NEW l \in Seq(Who), NEW i \in DOMAIN l, Once(l), NEW m,
           DOMAIN m = 1 .. Len(l) - 1,
           \A j \in 1 .. Len(l) - 1 : m[j] = l[IF j < i THEN j ELSE j + 1]
    PROVE  Once(m) /\ \A d : In(m, d) <=> In(l, d) /\ d # l[i]
<1>1. DOMAIN l = 1 .. Len(l) /\ Len(l) \in Nat /\ DOMAIN m = 1 .. Len(l) - 1
  BY LenProperties
<1> DEFINE of == [j \in 1 .. Len(l) - 1 |-> IF j < i THEN j ELSE j + 1]
<1>2. \A j \in DOMAIN m : of[j] \in DOMAIN l /\ of[j] # i /\ m[j] = l[of[j]]
  BY <1>1
<1>3. \A j, k \in DOMAIN m : of[j] = of[k] => j = k
  BY <1>1
<1>4. \A k \in DOMAIN l : k # i => \E j \in DOMAIN m : of[j] = k
  <2> SUFFICES ASSUME NEW k \in DOMAIN l, k # i
               PROVE  \E j \in DOMAIN m : of[j] = k
    OBVIOUS
  <2>1. CASE k < i
    BY <1>1, <2>1
  <2>2. CASE k > i
    <3>1. k - 1 \in DOMAIN m /\ of[k - 1] = k
      BY <1>1, <2>2
    <3> QED
      BY <3>1
  <2> QED
    BY <1>1, <2>1, <2>2
<1> HIDE DEF of
<1>5. Once(m)
  <2> SUFFICES ASSUME NEW j \in DOMAIN m, NEW k \in DOMAIN m, m[j] = m[k]
               PROVE  j = k
    BY DEF Once
  <2>1. of[j] = of[k]
    BY <1>2 DEF Once
  <2> QED
    BY <1>3, <2>1
<1>6. ASSUME NEW d PROVE In(m, d) <=> In(l, d) /\ d # l[i]
  <2>1. ASSUME In(m, d) PROVE In(l, d) /\ d # l[i]
    <3>1. PICK j \in DOMAIN m : m[j] = d
      BY <2>1 DEF In
    <3>2. of[j] \in DOMAIN l /\ l[of[j]] = d /\ of[j] # i
      BY <1>2, <3>1
    <3> QED
      BY <3>2 DEF In, Once
  <2>2. ASSUME In(l, d), d # l[i] PROVE In(m, d)
    <3>1. PICK k \in DOMAIN l : l[k] = d
      BY <2>2 DEF In
    <3>2. PICK j \in DOMAIN m : of[j] = k
      BY <1>4, <2>2, <3>1
    <3> QED
      BY <1>2, <3>1, <3>2 DEF In
  <2> QED
    BY <2>1, <2>2
<1> QED
  BY <1>5, <1>6

\* Who has the lock leaves the line.
LEMMA TailOnce ==
    ASSUME line \in Seq(Who), Once(line), NEW who, NEW w, Holds(who, w), PassOn
    PROVE  Once(line') /\ \A d : In(line', d) <=> In(line, d) /\ d # <<who, w>>
<1>1. line # <<>> /\ Head(line) = <<who, w>> /\ line' = Tail(line)
  BY DEF Holds, PassOn
<1>2. /\ line[1] = <<who, w>> /\ Len(line) \in Nat \ {0}
      /\ DOMAIN line = 1 .. Len(line)
  BY <1>1, LineFacts
<1>3. line' = [j \in 1 .. Len(line) - 1 |-> line[j + 1]]
  <2> DEFINE t == Tail(line)
  <2>1. /\ t \in Seq(Who) /\ Len(t) = Len(line) - 1
        /\ \A j \in 1 .. Len(t) : t[j] = line[j + 1]
    BY <1>1, HeadTailProperties
  <2>2. t \in [1 .. Len(line) - 1 -> Who]
    BY <2>1, SeqDef, LenProperties
  <2> HIDE DEF t
  <2>3. t = [j \in 1 .. Len(line) - 1 |-> line[j + 1]]
    BY <2>1, <2>2
  <2> QED
    BY <1>1, <2>3 DEF t
<1>4. line' = [j \in 1 .. Len(line) - 1 |-> line[IF j < 1 THEN j ELSE j + 1]]
  BY <1>2, <1>3
<1>5. 1 \in DOMAIN line
  BY <1>2
<1> QED
  <2>1. /\ DOMAIN line' = 1 .. Len(line) - 1
        /\ \A j \in 1 .. Len(line) - 1 : line'[j] = line[IF j < 1 THEN j ELSE j + 1]
    BY <1>4
  <2>2. Once(line') /\ \A d : In(line', d) <=> In(line, d) /\ d # line[1]
    BY <1>5, <2>1, WithoutOnce, Zenon
  <2> QED
    BY <1>2, <2>2

\* Nobody joins or leaves.
LEMMA LineStays ==
    ASSUME Lined, UNCHANGED line,
           \A v \in Ops : /\ op'[v].pc \in Waiting <=> op[v].pc \in Waiting
                          /\ swapper'[v].pc = "swap" <=> swapper[v].pc = "swap"
    PROVE  Lined'
  BY DEF Lined

\* An operation leaves.
LEMMA OpLeaves ==
    ASSUME Lined, NEW w \in Ops, Once(line'),
           \A d : In(line', d) <=> In(line, d) /\ d # <<"op", w>>,
           op'[w].pc \notin Waiting, \A v \in Ops \ {w} : op'[v] = op[v],
           \A v \in Ops : swapper'[v].pc = "swap" <=> swapper[v].pc = "swap"
    PROVE  Lined'
<1>1. \A v \in Ops : /\ In(line', <<"op", v>>) <=> op'[v].pc \in Waiting
                     /\ In(line', <<"swap", v>>) <=> swapper'[v].pc = "swap"
  <2> TAKE v \in Ops
  <2>1. <<"swap", v>> # <<"op", w>> /\ (<<"op", v>> = <<"op", w>> <=> v = w)
    OBVIOUS
  <2>2. /\ In(line, <<"op", v>>) <=> op[v].pc \in Waiting
        /\ In(line, <<"swap", v>>) <=> swapper[v].pc = "swap"
    BY DEF Lined
  <2> QED
    BY <2>1, <2>2
<1> QED
  BY <1>1 DEF Lined

\* An operation that has the lock ends, and passes it on.
LEMMA OpEnds ==
    ASSUME Lined, line \in Seq(Who), OpType, Excluded, NEW w \in Ops, op[w].pc \in Waiting,
           Holds("op", w), NEW outcome \in Outcomes, Go(w, outcome), PassOn,
           \A v \in Ops : swapper'[v].pc = "swap" <=> swapper[v].pc = "swap"
    PROVE  Lined'
<1>1. op'[w].pc = outcome /\ \A v \in Ops \ {w} : op'[v] = op[v]
  BY Goes DEF WriterPc
<1>2. outcome \notin Waiting
  BY DEF Outcomes, Waiting, Owning, Statements
<1>3. Once(line') /\ \A d : In(line', d) <=> In(line, d) /\ d # <<"op", w>>
  BY TailOnce DEF Lined
<1> QED
  BY <1>1, <1>2, <1>3, OpLeaves

\* An operation goes on under the lock.
LEMMA OpGoesOn ==
    ASSUME Lined, OpType, NEW w \in Ops, op[w].pc \in Waiting, NEW pc \in Owning, Go(w, pc),
           UNCHANGED <<line, swapper>>
    PROVE  Lined'
<1>1. op'[w].pc = pc /\ \A v \in Ops \ {w} : op'[v] = op[v]
  BY Goes DEF WriterPc, Owning
<1> QED
  BY <1>1, LineStays DEF Waiting

\* Whoever arrives was in no line.
LEMMA ArriveLine ==
    ASSUME Lined, line \in Seq(Who), OpType, NEW w \in Ops, NEW kind \in {"single", "tx"},
           Arrive(w, kind)
    PROVE  Lined'
<1>1. /\ op[w].pc = "idle" /\ line' = Append(line, <<"op", w>>) /\ swapper' = swapper
      /\ op'[w].pc = "line" /\ \A v \in Ops \ {w} : op'[v] = op[v]
  BY DEF Arrive, OpType
<1>2. <<"op", w>> \in Who /\ ~In(line, <<"op", w>>)
  BY <1>1 DEF Who, Lined, Waiting, Owning, Statements
<1>3. Once(line') /\ \A d : In(line', d) <=> In(line, d) \/ d = <<"op", w>>
  BY <1>1, <1>2, AppendOnce DEF Lined
<1>4. \A v \in Ops : /\ In(line', <<"op", v>>) <=> op'[v].pc \in Waiting
                     /\ In(line', <<"swap", v>>) <=> swapper'[v].pc = "swap"
  <2> TAKE v \in Ops
  <2>1. <<"swap", v>> # <<"op", w>> /\ (<<"op", v>> = <<"op", w>> <=> v = w)
    OBVIOUS
  <2>2. /\ In(line, <<"op", v>>) <=> op[v].pc \in Waiting
        /\ In(line, <<"swap", v>>) <=> swapper[v].pc = "swap"
    BY DEF Lined
  <2> QED
    BY <1>1, <1>3, <2>1, <2>2 DEF Waiting
<1> QED
  BY <1>3, <1>4 DEF Lined

\* Every step of an operation.
LEMMA OpLine ==
    ASSUME Lined, WInv, NEW w \in Ops, OpStep(w)
    PROVE  Lined'
<1>1. line \in Seq(Who) /\ OpType /\ Excluded /\ Links
  BY DEF WInv, WriterTypeOK, OpType, WriterPc
<1>2. op[w].pc \in Owning => Holds("op", w) /\ op[w].pc \in Waiting
  BY <1>1 DEF Excluded, Waiting
<1>3. ASSUME NEW outcome \in Outcomes, op[w].pc \in Owning, Go(w, outcome), PassOn,
             UNCHANGED swapper
      PROVE  Lined'
  BY <1>1, <1>2, <1>3, OpEnds
<1>4. CASE Enter(w)
  <2>1. Holds("op", w) /\ op[w].pc \in Waiting /\ swapper' = swapper
    BY <1>4 DEF Enter, Waiting
  <2>2. CASE Go(w, "error") /\ PassOn
    BY <1>1, <2>1, <2>2, OpEnds DEF Outcomes
  <2>3. CASE Go(w, IF writerHealthy THEN First(w) ELSE "heal") /\ UNCHANGED line
    <3>1. (IF writerHealthy THEN First(w) ELSE "heal") \in Owning
      BY DEF First, Owning, Statements
    <3> QED
      BY <1>1, <2>1, <2>3, <3>1, OpGoesOn
  <2> QED
    BY <1>4, <2>2, <2>3 DEF Enter
<1>5. CASE HealWriter(w)
  <2>1. First(w) \in Owning /\ op[w].pc \in Waiting
    BY <1>5 DEF First, Owning, Statements, Waiting, HealWriter
  <2> QED
    BY <1>1, <1>5, <2>1, OpGoesOn DEF HealWriter
<1>6. CASE HealWriterFails(w)
  BY <1>3, <1>6 DEF HealWriterFails, Owning, Outcomes
<1>7. CASE Begin(w)
  <2>1. op[w].pc \in Owning /\ swapper' = swapper
    BY <1>7 DEF Begin, Owning, Statements, Finish
  <2>2. CASE Go(w, "error") /\ PassOn
    BY <1>3, <2>1, <2>2 DEF Outcomes
  <2>3. CASE Go(w, "body") /\ UNCHANGED line
    BY <1>1, <1>2, <2>1, <2>3, OpGoesOn DEF Owning, Statements
  <2> QED
    BY <1>7, <2>2, <2>3 DEF Begin, Finish
<1>8. CASE Write(w)
  <2>1. op[w].pc \in Waiting /\ "commit" \in Owning
    BY <1>8 DEF Write, Waiting, Owning, Statements
  <2> QED
    BY <1>1, <1>8, <2>1, OpGoesOn DEF Write
<1>9. CASE BodyRaises(w)
  BY <1>3, <1>9 DEF BodyRaises, Finish, Owning, Statements, Outcomes
<1>10. CASE Commit(w)
  BY <1>3, <1>10 DEF Commit, Finish, Owning, Statements, Outcomes
<1>11. CASE StatementFails(w) \/ StatementOnClosed(w)
  BY <1>3, <1>11 DEF StatementFails, StatementOnClosed, Finish, Owning, Outcomes
<1>12. CASE LoseWriter(w)
  <2>1. op[w].pc \in Owning /\ op[w].pc # "lost" /\ Go(w, "lost") /\ PassOn
    BY <1>12 DEF LoseWriter, Owning, Statements
  <2>2. swapper' = [swapper EXCEPT ![w] = [pc |-> "mark", old |-> writer, new |-> NoWriter]]
    BY <1>12 DEF LoseWriter
  <2>3. swapper[w].pc = "none"
    BY <1>1, <2>1 DEF Links, ReplOf
  <2>4. \A v \in Ops : swapper'[v].pc = "swap" <=> swapper[v].pc = "swap"
    BY <2>2, <2>3 DEF WInv, WriterTypeOK
  <2> QED
    BY <1>1, <1>2, <2>1, <2>4, OpEnds DEF Outcomes
<1> QED
  BY <1>4, <1>5, <1>6, <1>7, <1>8, <1>9, <1>10, <1>11, <1>12 DEF OpStep

\* A cancelled operation leaves the line wherever it stands.
LEMMA CancelLine ==
    ASSUME Lined, WInv, NEW w \in Ops, Cancel(w)
    PROVE  Lined'
<1>1. line \in Seq(Who) /\ OpType
  BY DEF WInv, WriterTypeOK, OpType, WriterPc
<1>2. Cancelled(w)
  BY DEF Cancel, CancelWaiting, CancelHeal, CancelSingle, CancelTransaction
<1>3. op'[w].pc = "cancelled" /\ \A v \in Ops \ {w} : op'[v] = op[v]
  BY <1>1, <1>2, Goes DEF Cancelled, WriterPc, Outcomes
<1>4. PICK i \in DOMAIN line :
        /\ line[i] = <<"op", w>>
        /\ line' = [j \in 1 .. Len(line) - 1 |-> line[IF j < i THEN j ELSE j + 1]]
  BY <1>2 DEF Cancelled
<1>5. Once(line') /\ \A d : In(line', d) <=> In(line, d) /\ d # <<"op", w>>
  <2>1. /\ DOMAIN line' = 1 .. Len(line) - 1
        /\ \A j \in 1 .. Len(line) - 1 : line'[j] = line[IF j < i THEN j ELSE j + 1]
    BY <1>4
  <2>2. Once(line') /\ \A d : In(line', d) <=> In(line, d) /\ d # line[i]
    BY <1>1, <2>1, WithoutOnce, Zenon DEF Lined
  <2> QED
    BY <1>4, <2>2
<1>6. op'[w].pc \notin Waiting /\ swapper' = swapper
  BY <1>2, <1>3 DEF Waiting, Owning, Statements, Cancelled
<1> QED
  BY <1>3, <1>5, <1>6, OpLeaves

\* A replacement joins the line to swap, once, and leaves it when it has.
LEMMA ReplaceLine ==
    ASSUME Lined, WInv, NEW w \in Ops, ReplaceWriter(w)
    PROVE  Lined'
<1>1. line \in Seq(Who) /\ op' = op /\ SwapperType
  BY DEF WInv, WriterTypeOK, SwapperType, ReplaceWriter, MarkWriter, ReplOpen, ReplWriterFails, Swap
<1>2. CASE MarkWriter(w) \/ ReplWriterFails(w)
  <2>1. UNCHANGED line /\ swapper[w].pc # "swap"
    BY <1>2 DEF MarkWriter, ReplWriterFails
  <2>2. swapper' = [swapper EXCEPT ![w] = NoRepl] \/ swapper' = [swapper EXCEPT ![w].pc = "open"]
    BY <1>2 DEF MarkWriter, ReplWriterFails
  <2>3. swapper'[w].pc # "swap" /\ \A v \in Ops \ {w} : swapper'[v] = swapper[v]
    <3>1. CASE swapper' = [swapper EXCEPT ![w] = NoRepl]
      BY <1>1, <3>1 DEF SwapperType, NoRepl
    <3>2. CASE swapper' = [swapper EXCEPT ![w].pc = "open"]
      BY <1>1, <3>2 DEF SwapperType
    <3> QED
      BY <2>2, <3>1, <3>2
  <2>4. \A v \in Ops : swapper'[v].pc = "swap" <=> swapper[v].pc = "swap"
    BY <2>1, <2>3
  <2> QED
    BY <1>1, <2>1, <2>4, LineStays
<1>3. CASE ReplOpen(w)
  <2>1. /\ swapper[w].pc = "open" /\ line' = Append(line, <<"swap", w>>)
        /\ swapper'[w].pc = "swap" /\ \A v \in Ops \ {w} : swapper'[v] = swapper[v]
    BY <1>1, <1>3 DEF ReplOpen, SwapperType
  <2>2. <<"swap", w>> \in Who /\ ~In(line, <<"swap", w>>)
    BY <2>1 DEF Who, Lined
  <2>3. Once(line') /\ \A d : In(line', d) <=> In(line, d) \/ d = <<"swap", w>>
    BY <1>1, <2>1, <2>2, AppendOnce DEF Lined
  <2>4. \A v \in Ops : /\ In(line', <<"op", v>>) <=> op'[v].pc \in Waiting
                       /\ In(line', <<"swap", v>>) <=> swapper'[v].pc = "swap"
    <3> TAKE v \in Ops
    <3>1. <<"op", v>> # <<"swap", w>> /\ (<<"swap", v>> = <<"swap", w>> <=> v = w)
      OBVIOUS
    <3>2. /\ In(line, <<"op", v>>) <=> op[v].pc \in Waiting
          /\ In(line, <<"swap", v>>) <=> swapper[v].pc = "swap"
      BY DEF Lined
    <3> QED
      BY <1>1, <2>1, <2>3, <3>1, <3>2
  <2> QED
    BY <2>3, <2>4 DEF Lined
<1>4. CASE Swap(w)
  <2>1. /\ Holds("swap", w) /\ PassOn
        /\ swapper' = [swapper EXCEPT ![w] = NoRepl]
    BY <1>4 DEF Swap
  <2>2. swapper'[w].pc # "swap" /\ \A v \in Ops \ {w} : swapper'[v] = swapper[v]
    BY <1>1, <2>1 DEF SwapperType, NoRepl
  <2>3. Once(line') /\ \A d : In(line', d) <=> In(line, d) /\ d # <<"swap", w>>
    BY <1>1, <2>1, TailOnce DEF Lined
  <2>4. \A v \in Ops : /\ In(line', <<"op", v>>) <=> op'[v].pc \in Waiting
                       /\ In(line', <<"swap", v>>) <=> swapper'[v].pc = "swap"
    <3> TAKE v \in Ops
    <3>1. <<"op", v>> # <<"swap", w>> /\ (<<"swap", v>> = <<"swap", w>> <=> v = w)
      OBVIOUS
    <3>2. /\ In(line, <<"op", v>>) <=> op[v].pc \in Waiting
          /\ In(line, <<"swap", v>>) <=> swapper[v].pc = "swap"
      BY DEF Lined
    <3> QED
      BY <1>1, <2>2, <2>3, <3>1, <3>2
  <2> QED
    BY <2>3, <2>4 DEF Lined
<1> QED
  BY <1>2, <1>3, <1>4 DEF ReplaceWriter

\* Every step of the writer.
LEMMA LineMoves ==
    ASSUME Lined, WInv, [WriterNext]_writerVars
    PROVE  Lined'
<1>1. line \in Seq(Who) /\ OpType
  BY DEF WInv, WriterTypeOK, OpType, WriterPc
<1>2. CASE UNCHANGED <<line, op, swapper>>
  BY <1>2, LineStays
<1>3. CASE \E c \in closing : SafeClose(c) \/ SafeCloseFails(c)
  BY <1>2, <1>3 DEF SafeClose, SafeCloseFails
<1>4. CASE WriterExpire \/ ClosePool \/ Teardown \/ UNCHANGED writerVars
  BY <1>2, <1>4 DEF WriterExpire, ClosePool, Teardown, writerVars
<1> QED
  BY <1>1, <1>3, <1>4, ArriveLine, OpLine, CancelLine, ReplaceLine DEF WriterNext

\* The writer's lock serves whom it should, however many operations there are and
\* however they fail, are cancelled or lose their connection (pool.py:927-965).
THEOREM LineServesCorrect == WriterSpec => []LineServes
<1>1. WriterInit => Lined
  <2> SUFFICES ASSUME WriterInit PROVE Lined
    OBVIOUS
  <2>1. DOMAIN line = {}
    BY DEF WriterInit
  <2> QED
    BY <2>1 DEF WriterInit, Lined, Once, In, Waiting, Owning, Statements, NoRepl
<1>2. Lined /\ WInv /\ [WriterNext]_writerVars => Lined'
  BY LineMoves
<1>3. Lined /\ WInv => LineServes
  BY DEF Lined, WInv, Excluded, LineServes, Once, In, Queued, Waiting, Owning
<1> QED
  BY <1>1, <1>2, <1>3, WriterInductive, PTL DEF WriterSpec

-----------------------------------------------------------------------------
(* The pool: its readers and its writer take their steps side by side.     *)

\* Every behaviour of the pool is one of its readers and one of its writer.
LEMMA PoolIsBoth == PoolSpec => Spec /\ WriterSpec
<1>1. PoolInit => Init /\ WriterInit
  BY DEF PoolInit
<1>2. [PoolNext]_poolVars => [Next]_vars /\ [WriterNext]_writerVars
  BY DEF PoolNext, Reads, Writes, poolVars
<1> QED
  BY <1>1, <1>2, PTL DEF PoolSpec, Spec, WriterSpec

\* db/pool.py: the pool's own state is well typed, its readers' and its writer's.
THEOREM PoolTypeCorrect == PoolSpec => []PoolTypeOK
<1>1. WInv => WriterTypeOK
  BY DEF WInv
<1>2. TypeOK /\ WriterTypeOK => PoolTypeOK
  BY DEF PoolTypeOK
<1> QED
  BY <1>1, <1>2, PoolIsBoth, TypeCorrect, WriterInductive, PTL
=============================================================================
