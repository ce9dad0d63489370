--------------------------- MODULE BlockSync_proofs ---------------------------
(***************************************************************************)
(* Theorems of BlockSync, for any number of confirmations, heads and       *)
(* executions and any bound on the faults and restarts.                    *)
(***************************************************************************)
EXTENDS BlockSync, TLAPS

\* A head whose job may be asked for: it was mined, its block has a positive number,
\* and before the first cursor it is one the watcher heard or read itself.
Askable(n) == n \in (Conf + 1)..head /\ (cursor = NoBlock => n >= FirstHead)

\* The cursor is the block of a head that was mined.
CursorMined == cursor = NoBlock \/ cursor \in (Conf + 1)..(head - Conf)

\* The heads the watcher is about to add: those it heard and those of its loop.
Watched ==
  /\ pending \subseteq FirstHead..head
  /\ to <= head
  /\ boot \in {"cursor", "loop"} => to >= FirstHead
  /\ boot = "loop" => next \in (Conf + 1)..head /\ (cursor = NoBlock => FirstHead <= next)

JobsAskable == \A n \in 1..MaxHead : job[n] # "none" => Askable(n)

\* A handler that is past the logs has its block reached, and one about to write the
\* cursor has a block that is none of the first Conf.
Handled ==
  \A e \in Execution :
    /\ pc[e] # "idle" => Askable(at[e])
    /\ pc[e] = "set" => at[e] >= FirstHead
    /\ pc[e] \in {"get", "set", "return", "throw"} => Reached(BlockOf(e))

\* The heads nobody heard are out of what the watcher's loop has passed.
Passed ==
  /\ boot \in {"loop", "done"} => \A n \in unheard : n < from \/ n >= next \/ n >= to
  /\ boot = "done" => next >= to

IInv ==
  /\ TypeOK /\ CursorMined /\ Watched /\ JobsAskable /\ Handled
  /\ OnlyConfirmed /\ HolesExplained /\ Passed

USE DEF link, range, watcher, queue, handlers, transfers, workers, bounds, NoHead, NoBlock

LEMMA Bounds ==
  /\ Conf \in Nat /\ MaxHead \in Nat /\ MaxFaults \in Nat /\ MaxRestart \in Nat
  /\ FirstHead = 2 * Conf + 1 /\ FirstHead < MaxHead
  BY BoundAssumption DEF FirstHead

-----------------------------------------------------------------------------
(* The initial states.                                                     *)

LEMMA InitInv == Init => IInv
  <1> SUFFICES ASSUME Init PROVE IInv
    OBVIOUS
  <1>1. head = FirstHead /\ head \in Head /\ head \in Nat
    BY Bounds DEF Init, Head
  <1>2. TypeOK
    <2>1. /\ {from, to, next} \subseteq 0..MaxHead /\ cursor \in 0..(MaxHead - Conf)
          /\ at \in [Execution -> 0..MaxHead] /\ known \in [Execution -> 0..(MaxHead - Conf)]
          /\ faults \in 0..MaxFaults /\ restarts \in 0..MaxRestart
      BY Bounds DEF Init
    <2>2. saving \cup saved \cup lost \subseteq Block /\ saving \cap saved = {}
      BY DEF Init
    <2> QED
      BY <1>1, <2>1, <2>2 DEF Init, TypeOK
  <1>3. CursorMined /\ OnlyConfirmed /\ JobsAskable /\ Handled /\ Passed
    BY DEF Init, CursorMined, OnlyConfirmed, JobsAskable, Handled, Passed
  <1>4. Watched
    BY <1>1 DEF Init, Watched
  <1>5. HolesExplained
    BY <1>1 DEF Init, HolesExplained
  <1> QED
    BY <1>2, <1>3, <1>4, <1>5 DEF IInv

-----------------------------------------------------------------------------
(* What a step that leaves some variables alone keeps.                     *)

\* A head may still be asked for when the chain grows and the cursor is not lost.
LEMMA AskableStays ==
  ASSUME IInv, head' \in Nat, head' >= head, cursor # NoBlock => cursor' # NoBlock
  PROVE  \A n : Askable(n) => Askable(n)'
  BY Bounds DEF IInv, TypeOK, Head, Askable

\* What was reached stays reached: blocks only move from saving to saved or lost.
Grows == saving \cup saved \cup lost \subseteq saving' \cup saved' \cup lost'

LEMMA HandledStays ==
  ASSUME IInv, head' \in Nat, head' >= head, cursor # NoBlock => cursor' # NoBlock,
         Grows, UNCHANGED <<at, pc>>
  PROVE  Handled'
  <1>1. \A n : Askable(n) => Askable(n)'
    BY AskableStays
  <1>2. \A e \in Execution : BlockOf(e)' = BlockOf(e) /\ (Reached(BlockOf(e)) => Reached(BlockOf(e))')
    BY DEF Grows, Reached, BlockOf
  <1>3. at' = at /\ pc' = pc
    OBVIOUS
  <1> QED
    BY <1>1, <1>2, <1>3 DEF IInv, Handled

LEMMA JobsStay ==
  ASSUME IInv, head' \in Nat, head' >= head, cursor # NoBlock => cursor' # NoBlock,
         \A n \in 1..MaxHead : job'[n] # "none" => job[n] # "none" \/ Askable(n)
  PROVE  JobsAskable'
  <1>1. \A n : Askable(n) => Askable(n)'
    BY AskableStays
  <1> QED
    BY <1>1 DEF IInv, JobsAskable

\* A head that is accounted for stays so when its job ends only with its block reached
\* and it leaves the heads heard and unheard only for a job or a reached block.
LEMMA HolesStay ==
  ASSUME IInv, head' = head, Grows,
         \A n \in 1..MaxHead : job[n] # "none" =>
           job'[n] # "none" \/ n - Conf \in saving' \cup saved' \cup lost',
         \A n \in pending \cup unheard :
           \/ n \in pending' \cup unheard' \/ job'[n] # "none"
           \/ n - Conf \in saving' \cup saved' \cup lost'
  PROVE  HolesExplained'
  <1> SUFFICES ASSUME NEW n \in (FirstHead + 1)..head
               PROVE  \/ n - Conf \in saving' \cup saved' \cup lost' \/ job'[n] # "none"
                      \/ n \in pending' \cup unheard'
    BY DEF HolesExplained, Reached
  <1>1. n \in 1..MaxHead
    BY Bounds DEF IInv, TypeOK, Head
  <1>2. n - Conf \in saved \cup saving \cup lost \/ job[n] # "none" \/ n \in pending \cup unheard
    BY DEF IInv, HolesExplained, Reached
  <1> QED
    BY <1>1, <1>2 DEF Grows

\* A step of the watcher alone: its variables, with the workers and the chain left.
LEMMA WatcherStep ==
  ASSUME IInv, UNCHANGED <<head, workers>>,
         TypeOK', Watched', Passed', pending \cup unheard \subseteq pending' \cup unheard'
  PROVE  IInv'
  <1>1. head \in Nat /\ head' = head /\ cursor' = cursor /\ job' = job /\ at' = at /\ pc' = pc
        /\ saving' = saving /\ saved' = saved /\ lost' = lost
    BY Bounds DEF IInv, TypeOK, Head
  <1>2. Grows
    BY <1>1 DEF Grows
  <1>3. Handled' /\ JobsAskable'
    BY <1>1, <1>2, HandledStays, JobsStay
  <1>4. HolesExplained'
    BY <1>1, <1>2, HolesStay
  <1>5. CursorMined' /\ OnlyConfirmed'
    BY <1>1 DEF IInv, CursorMined, OnlyConfirmed
  <1> QED
    BY <1>3, <1>4, <1>5 DEF IInv

-----------------------------------------------------------------------------
(* The chain and the watcher.                                              *)

LEMMA MineStep == IInv /\ Mine => IInv'
  <1> SUFFICES ASSUME IInv, Mine PROVE IInv'
    OBVIOUS
  <1> USE DEF IInv
  <1>1. /\ head \in Nat /\ head < MaxHead /\ head' = head + 1 /\ FirstHead <= head
        /\ UNCHANGED <<link, boot, range, workers, bounds>>
    BY Bounds DEF Mine, TypeOK, Head
  <1>2. head' \in Nat /\ head' >= head /\ head' \in Head
    BY <1>1, Bounds DEF Head
  <1>3. \/ pending' = pending \cup {head + 1} /\ unheard' = unheard
        \/ unheard' = unheard \cup {head + 1} /\ pending' = pending
    BY DEF Mine
  <1>4. TypeOK'
    <2>1. pending' \subseteq Head /\ unheard' \subseteq Head
      BY <1>1, <1>2, <1>3 DEF TypeOK
    <2> QED
      BY <1>1, <1>2, <2>1 DEF TypeOK
  <1>5. Handled' /\ JobsAskable'
    <2>1. Grows /\ cursor' = cursor /\ job' = job /\ at' = at /\ pc' = pc
      BY <1>1 DEF Grows
    <2> QED
      BY <2>1, <1>2, HandledStays, JobsStay
  <1>6. CursorMined'
    BY <1>1, Bounds DEF CursorMined
  <1>7. Watched'
    <2>1. pending' \subseteq FirstHead..head'
      <3>1. FirstHead \in Int
        BY Bounds
      <3>2. pending \subseteq FirstHead..(head + 1)
        BY <1>1, <3>1 DEF Watched
      <3>3. head + 1 \in FirstHead..(head + 1)
        BY <1>1, <3>1
      <3> QED
        BY <1>1, <1>3, <3>2, <3>3
    <2>2. to' <= head'
      BY <1>1 DEF Watched, TypeOK
    <2> QED
      BY <1>1, <2>1, <2>2 DEF Watched
  <1>8. OnlyConfirmed'
    <2> SUFFICES ASSUME NEW b \in saving \cup saved PROVE b + Conf <= head + 1
      BY <1>1 DEF OnlyConfirmed
    <2>1. b \in Int /\ b + Conf <= head
      BY DEF OnlyConfirmed, TypeOK, Block
    <2> QED
      BY <2>1, <1>1, Bounds
  <1>9. HolesExplained'
    <2> SUFFICES ASSUME NEW n \in (FirstHead + 1)..(head + 1)
                 PROVE  \/ n - Conf \in saved \cup saving \cup lost \/ job[n] # "none"
                        \/ n \in pending' \cup unheard'
      BY <1>1 DEF HolesExplained, Reached
    <2>1. CASE n = head + 1
      BY <2>1, <1>3
    <2>2. CASE n # head + 1
      <3>1. n \in (FirstHead + 1)..head
        BY <2>2, <1>1, Bounds
      <3> QED
        BY <3>1, <1>3 DEF HolesExplained, Reached
    <2> QED
      BY <2>1, <2>2
  <1>10. Passed'
    <2>1. \A n \in unheard' : n \in unheard \/ n >= to
      BY <1>1, <1>3 DEF Watched, TypeOK
    <2> QED
      BY <2>1, <1>1 DEF Passed
  <1> QED
    BY <1>4, <1>5, <1>6, <1>7, <1>8, <1>9, <1>10

\* The same with the heads left too, the types of what changes given one by one.
LEMMA StartStep ==
  ASSUME IInv, UNCHANGED <<head, pending, unheard, workers>>,
         {from', to', next'} \subseteq 0..MaxHead,
         socket' \in {"none", "open", "closed"}, {subscribed', listening'} \subseteq BOOLEAN,
         boot' \in {"down", "subscribe", "height", "cursor", "loop", "done", "stuck"},
         faults' \in 0..MaxFaults, restarts' \in 0..MaxRestart,
         Watched', Passed'
  PROVE  IInv'
  <1>1. /\ head' = head /\ pending' = pending /\ unheard' = unheard /\ job' = job /\ holder' = holder
        /\ at' = at /\ pc' = pc /\ known' = known /\ cursor' = cursor
        /\ saving' = saving /\ saved' = saved /\ lost' = lost
    OBVIOUS
  <1>2. TypeOK'
    BY <1>1 DEF IInv, TypeOK
  <1> QED
    BY <1>1, <1>2, WatcherStep

LEMMA FaultTyped == IInv /\ Fault => faults' \in 0..MaxFaults /\ restarts' \in 0..MaxRestart
  BY Bounds DEF Fault, IInv, TypeOK

LEMMA CloseSocketStep == IInv /\ CloseSocket => IInv'
  <1> SUFFICES ASSUME IInv, CloseSocket PROVE IInv'
    OBVIOUS
  <1>1. faults' \in 0..MaxFaults /\ restarts' \in 0..MaxRestart
    BY FaultTyped DEF CloseSocket
  <1>2. /\ UNCHANGED <<head, pending, unheard, workers>> /\ socket' = "closed"
        /\ UNCHANGED <<subscribed, listening, boot, from, to, next>>
    BY DEF CloseSocket
  <1>3. Watched' /\ Passed'
    BY <1>2 DEF IInv, Watched, Passed
  <1> QED
    BY <1>1, <1>2, <1>3, StartStep DEF IInv, TypeOK

LEMMA SubscribeStep == IInv /\ Subscribe => IInv'
  <1> SUFFICES ASSUME IInv, Subscribe PROVE IInv'
    OBVIOUS
  <1>1. /\ UNCHANGED <<head, pending, unheard, workers, from, to, next, faults, restarts>>
        /\ boot' = "height" /\ subscribed' = TRUE
    BY DEF Subscribe, Boots
  <1>2. socket' \in {"none", "open", "closed"} /\ listening' \in BOOLEAN
    BY DEF Subscribe, IInv, TypeOK
  <1>3. Watched' /\ Passed'
    BY <1>1 DEF IInv, Watched, Passed
  <1> QED
    BY <1>1, <1>2, <1>3, StartStep DEF IInv, TypeOK

LEMMA GetBlockNumberStep == IInv /\ GetBlockNumber => IInv'
  <1> SUFFICES ASSUME IInv, GetBlockNumber PROVE IInv'
    OBVIOUS
  <1>1. /\ UNCHANGED <<head, pending, unheard, workers, link, from, next, faults, restarts>>
        /\ boot' = "cursor" /\ to' = head
    BY DEF GetBlockNumber, Boots
  <1>2. head \in 0..MaxHead /\ FirstHead <= head /\ head <= head
    BY Bounds DEF IInv, TypeOK, Head
  <1>3. Watched' /\ Passed'
    BY <1>1, <1>2 DEF IInv, Watched, Passed
  <1> QED
    BY <1>1, <1>2, <1>3, StartStep DEF IInv, TypeOK

LEMMA GetLatestStep == IInv /\ GetLatestBlockNumberSync => IInv'
  <1> SUFFICES ASSUME IInv, GetLatestBlockNumberSync PROVE IInv'
    OBVIOUS
  <1>1. /\ UNCHANGED <<head, pending, unheard, workers, link, to, faults, restarts>>
        /\ boot = "cursor" /\ boot' = "loop" /\ next' = from'
        /\ from' = IF cursor = NoBlock THEN to ELSE cursor
    BY DEF GetLatestBlockNumberSync, Boots
  <1>2. /\ to \in 0..MaxHead /\ FirstHead <= to /\ to <= head /\ cursor \in 0..(MaxHead - Conf)
        /\ unheard \subseteq Head /\ head \in Nat
    BY <1>1, Bounds DEF IInv, TypeOK, Watched, Head
  <1>3. from' \in 0..MaxHead /\ from' \in (Conf + 1)..head /\ (cursor = NoBlock => FirstHead <= from')
    BY <1>1, <1>2, Bounds DEF IInv, CursorMined
  <1>4. Watched'
    BY <1>1, <1>2, <1>3 DEF IInv, Watched
  <1>5. Passed'
    BY <1>1, <1>2, <1>3 DEF Passed, Head, FirstHead
  <1> QED
    BY <1>1, <1>2, <1>3, <1>4, <1>5, StartStep DEF IInv, TypeOK

LEMMA BootFailsStep == IInv /\ BootFails => IInv'
  <1> SUFFICES ASSUME IInv, BootFails PROVE IInv'
    OBVIOUS
  <1>1. faults' \in 0..MaxFaults /\ restarts' \in 0..MaxRestart
    BY FaultTyped DEF BootFails
  <1>2. UNCHANGED <<head, pending, unheard, workers, link, from, to, next>> /\ boot' = "stuck"
    BY DEF BootFails
  <1>3. Watched' /\ Passed'
    BY <1>2 DEF IInv, Watched, Passed
  <1> QED
    BY <1>1, <1>2, <1>3, StartStep DEF IInv, TypeOK

LEMMA SyncBlockDoneStep == IInv /\ SyncBlockDone => IInv'
  <1> SUFFICES ASSUME IInv, SyncBlockDone PROVE IInv'
    OBVIOUS
  <1>1. /\ UNCHANGED <<head, pending, unheard, workers, link, from, to, next, faults, restarts>>
        /\ boot = "loop" /\ boot' = "done" /\ next = to
    BY DEF SyncBlockDone, Boots, InRange
  <1>2. next >= to
    BY <1>1 DEF IInv, TypeOK
  <1>3. Watched' /\ Passed'
    BY <1>1, <1>2 DEF IInv, Watched, Passed
  <1> QED
    BY <1>1, <1>3, StartStep DEF IInv, TypeOK

LEMMA CheckSocketStep == IInv /\ CheckSocket => IInv'
  <1> SUFFICES ASSUME IInv, CheckSocket PROVE IInv'
    OBVIOUS
  <1>1. /\ UNCHANGED <<head, pending, unheard, workers, boot, from, to, next, faults, restarts>>
        /\ socket' = "open"
    BY DEF CheckSocket
  <1>2. {subscribed', listening'} \subseteq BOOLEAN
    BY DEF CheckSocket, IInv, TypeOK
  <1>3. Watched' /\ Passed'
    BY <1>1 DEF IInv, Watched, Passed
  <1> QED
    BY <1>1, <1>2, <1>3, StartStep DEF IInv, TypeOK

LEMMA StartWatcherStep == IInv /\ StartWatcher => IInv'
  <1> SUFFICES ASSUME IInv, StartWatcher PROVE IInv'
    OBVIOUS
  <1>1. /\ UNCHANGED <<head, pending, unheard, workers, link, from, to, next, faults, restarts>>
        /\ boot' = "subscribe"
    BY DEF StartWatcher, Boots
  <1>2. Watched' /\ Passed'
    BY <1>1 DEF IInv, Watched, Passed
  <1> QED
    BY <1>1, <1>2, StartStep DEF IInv, TypeOK

LEMMA CrashWatcherStep == IInv /\ CrashWatcher => IInv'
  <1> SUFFICES ASSUME IInv, CrashWatcher PROVE IInv'
    OBVIOUS
  <1>1. /\ head' = head /\ job' = job /\ holder' = holder /\ at' = at /\ pc' = pc /\ known' = known
        /\ cursor' = cursor /\ saving' = saving /\ saved' = saved /\ lost' = lost /\ faults' = faults
        /\ socket' = "none" /\ subscribed' = FALSE /\ listening' = FALSE /\ boot' = "down"
        /\ from' = 0 /\ to' = 0 /\ next' = 0 /\ pending' = {} /\ unheard' = unheard \cup pending
    BY DEF CrashWatcher
  <1>2. restarts' \in 0..MaxRestart
    BY Bounds DEF CrashWatcher, IInv, TypeOK
  <1>3. head \in Nat /\ MaxHead \in Nat
    BY Bounds DEF IInv, TypeOK, Head
  <1>4. TypeOK'
    <2>1. {from', to', next'} \subseteq 0..MaxHead
      BY <1>1, <1>3
    <2> QED
      BY <1>1, <1>2, <2>1 DEF IInv, TypeOK
  <1>5. Watched' /\ Passed'
    BY <1>1, <1>3 DEF Watched, Passed
  <1> QED
    BY <1>1, <1>4, <1>5, WatcherStep

-----------------------------------------------------------------------------
(* Adding the job of a head.                                               *)

\* A head gets its job, or is forgotten with its block given up: the job is for a head
\* the watcher heard or has in its loop.
LEMMA AddStep ==
  ASSUME IInv, NEW n \in 1..MaxHead, Askable(n),
         UNCHANGED <<head, socket, subscribed, listening, boot, from, to, holder, at, pc, known, cursor, saving, saved>>,
         \/ UNCHANGED pending /\ boot = "loop" /\ next = n /\ InRange /\ next' = Following
         \/ n \in pending /\ pending' = pending \ {n} /\ UNCHANGED next,
         unheard' = unheard \ {n},
         \/ job' = [job EXCEPT ![n] = IF @ = "none" THEN "wait" ELSE @] /\ lost' = lost
         \/ job' = job /\ lost' = lost \cup {n - Conf},
         faults' \in 0..MaxFaults, restarts' \in 0..MaxRestart
  PROVE  IInv'
  <1> USE DEF IInv
  <1>1. head \in Nat /\ head <= MaxHead /\ next \in 0..MaxHead /\ to \in 0..MaxHead
    BY Bounds DEF TypeOK, Head
  <1>0. ASSUME boot = "loop", InRange
        PROVE  /\ Following \in 0..MaxHead /\ Following \in (Conf + 1)..head
               /\ cursor = NoBlock => FirstHead <= Following
    <2>1. /\ FirstHead <= to /\ to <= head /\ next \in (Conf + 1)..head /\ next # to
          /\ cursor = NoBlock => FirstHead <= next
      BY <1>0 DEF Watched, InRange
    <2> QED
      BY <1>1, <2>1, Bounds DEF Following
  <1>2. n - Conf \in Block /\ n >= Conf + 1 /\ (cursor = NoBlock => n >= FirstHead)
    BY <1>1, Bounds DEF Askable, Block
  <1>3. \A m \in 1..MaxHead : m # n => job'[m] = job[m]
    BY DEF TypeOK
  <1>4. job'[n] # "none" \/ n - Conf \in lost'
    BY DEF TypeOK
  <1>5. job[n] # "none" => job'[n] # "none"
    BY DEF TypeOK
  <1>6. Grows
    BY DEF Grows
  <1>7. TypeOK'
    <2>1. job' \in [1..MaxHead -> {"none", "wait", "active"}]
      BY DEF TypeOK
    <2>2. lost' \subseteq Block
      BY <1>2 DEF TypeOK
    <2>3. next' \in 0..MaxHead /\ pending' \subseteq Head /\ unheard' \subseteq Head
      <3>1. next' \in 0..MaxHead
        BY <1>0, <1>1
      <3> QED
        BY <3>1 DEF TypeOK
    <2> QED
      BY <2>1, <2>2, <2>3 DEF TypeOK
  <1>8. JobsAskable' /\ Handled'
    BY <1>1, <1>3, <1>6, HandledStays, JobsStay
  <1>9. HolesExplained'
    <2>1. \A m \in 1..MaxHead : job[m] # "none" =>
            job'[m] # "none" \/ m - Conf \in saving' \cup saved' \cup lost'
      BY <1>3, <1>5
    <2>2. \A m \in pending \cup unheard :
            \/ m \in pending' \cup unheard' \/ job'[m] # "none"
            \/ m - Conf \in saving' \cup saved' \cup lost'
      BY <1>4
    <2> QED
      BY <1>6, <2>1, <2>2, HolesStay
  <1>10. Watched'
    <2>1. pending' \subseteq FirstHead..head
      BY DEF Watched
    <2>2. boot = "loop" => next' \in (Conf + 1)..head /\ (cursor = NoBlock => FirstHead <= next')
      BY <1>0 DEF Watched
    <2> QED
      BY <2>1, <2>2 DEF Watched
  <1>11. Passed'
    <2>1. unheard \subseteq Head /\ \A m \in Head : m \in Int
      BY Bounds DEF TypeOK, Head
    <2>2. CASE next' = next
      BY <2>2 DEF Passed
    <2>3. CASE boot = "loop" /\ next = n /\ InRange /\ next' = Following
      BY <2>1, <2>3, <1>1 DEF Passed, InRange, Following
    <2> QED
      BY <2>2, <2>3
  <1>12. CursorMined' /\ OnlyConfirmed'
    BY DEF CursorMined, OnlyConfirmed
  <1> QED
    BY <1>7, <1>8, <1>9, <1>10, <1>11, <1>12

\* What the watcher heard and what its loop has come to may be asked for.
LEMMA WatchedAskable ==
  ASSUME IInv
  PROVE  /\ \A n \in pending : n \in 1..MaxHead /\ Askable(n)
         /\ boot = "loop" => next \in 1..MaxHead /\ Askable(next)
  BY Bounds DEF IInv, TypeOK, Head, Watched, Askable

LEMMA SyncBlockStep == IInv /\ SyncBlock => IInv'
  <1> SUFFICES ASSUME IInv, SyncBlock PROVE IInv'
    OBVIOUS
  <1>1. boot = "loop" /\ InRange /\ next' = Following /\ EnqueueBlockSync(next)
        /\ UNCHANGED <<head, link, boot, from, to, pending, holder, handlers, cursor, transfers, lost, bounds>>
    BY DEF SyncBlock
  <1>2. next \in 1..MaxHead /\ Askable(next)
    BY <1>1, WatchedAskable
  <1>3. PICK n \in 1..MaxHead : n = next
    BY <1>2
  <1>4. Askable(n) /\ next = n /\ unheard' = unheard \ {n}
        /\ job' = [job EXCEPT ![n] = IF @ = "none" THEN "wait" ELSE @]
    BY <1>1, <1>2, <1>3 DEF EnqueueBlockSync
  <1> QED
    BY <1>1, <1>4, AddStep DEF IInv, TypeOK

LEMMA OnBlockStep == ASSUME IInv, NEW n \in 1..MaxHead, OnBlock(n) PROVE IInv'
  <1>1. n \in pending /\ pending' = pending \ {n} /\ EnqueueBlockSync(n)
        /\ UNCHANGED <<head, link, boot, range, holder, handlers, cursor, transfers, lost, bounds>>
    BY DEF OnBlock
  <1>2. Askable(n)
    BY <1>1, WatchedAskable
  <1>3. unheard' = unheard \ {n} /\ job' = [job EXCEPT ![n] = IF @ = "none" THEN "wait" ELSE @]
    BY <1>1 DEF EnqueueBlockSync
  <1> QED
    BY <1>1, <1>2, <1>3, AddStep DEF IInv, TypeOK

LEMMA AddFailsStep == ASSUME IInv, NEW n \in 1..MaxHead, AddFails(n) PROVE IInv'
  <1>1. \/ n \in pending /\ pending' = pending \ {n} /\ UNCHANGED next
        \/ boot = "loop" /\ InRange /\ n = next /\ next' = Following /\ UNCHANGED pending
    BY DEF AddFails
  <1>2. Askable(n)
    BY <1>1, WatchedAskable
  <1>3. faults' \in 0..MaxFaults /\ restarts' \in 0..MaxRestart
    BY FaultTyped DEF AddFails
  <1>4. unheard' = unheard \ {n} /\ lost' = lost \cup {n - Conf}
        /\ UNCHANGED <<head, link, boot, from, to, queue, handlers, cursor, transfers>>
    BY DEF AddFails
  <1> QED
    BY <1>1, <1>2, <1>3, <1>4, AddStep

-----------------------------------------------------------------------------
(* The queue and its handlers.                                             *)

\* A step of the workers: the chain, the watcher and the heads nobody heard are left.
LEMMA WorkerStep ==
  ASSUME IInv, UNCHANGED <<head, watcher, unheard>>,
         TypeOK', Handled', CursorMined', OnlyConfirmed', Grows,
         cursor # NoBlock => cursor' # NoBlock,
         \A n \in 1..MaxHead : job'[n] # "none" => job[n] # "none" \/ Askable(n),
         \A n \in 1..MaxHead : job[n] # "none" =>
           job'[n] # "none" \/ n - Conf \in saving' \cup saved' \cup lost'
  PROVE  IInv'
  <1>1. /\ head' = head /\ boot' = boot /\ from' = from /\ to' = to /\ next' = next
        /\ pending' = pending /\ unheard' = unheard /\ head \in Nat
    BY Bounds DEF IInv, TypeOK, Head
  <1>2. JobsAskable'
    BY <1>1, JobsStay
  <1>3. HolesExplained'
    BY <1>1, HolesStay
  <1>4. Watched' /\ Passed'
    BY <1>1 DEF IInv, Watched, Passed
  <1> QED
    BY <1>2, <1>3, <1>4 DEF IInv

\* Handled is kept when one handler moves as it may and the others stay.
LEMMA OneHandler ==
  ASSUME IInv, NEW e \in Execution, head' = head, Grows,
         cursor # NoBlock => cursor' # NoBlock,
         \A f \in Execution \ {e} : at'[f] = at[f] /\ pc'[f] = pc[f],
         pc'[e] # "idle" =>
           at'[e] \in (Conf + 1)..head /\ (cursor' = NoBlock => at'[e] >= FirstHead),
         pc'[e] = "set" => at'[e] >= FirstHead,
         pc'[e] \in {"get", "set", "return", "throw"} =>
           at'[e] - Conf \in saved' \cup saving' \cup lost'
  PROVE  Handled'
  <1>1. head \in Nat
    BY Bounds DEF IInv, TypeOK, Head
  <1> SUFFICES ASSUME NEW f \in Execution
               PROVE  /\ pc'[f] # "idle" =>
                           at'[f] \in (Conf + 1)..head /\ (cursor' = NoBlock => at'[f] >= FirstHead)
                      /\ pc'[f] = "set" => at'[f] >= FirstHead
                      /\ pc'[f] \in {"get", "set", "return", "throw"} =>
                           at'[f] - Conf \in saved' \cup saving' \cup lost'
    BY DEF Handled, Askable, Reached, BlockOf
  <1>2. CASE f = e
    BY <1>2
  <1>3. CASE f # e
    <2>1. /\ pc[f] # "idle" => at[f] \in (Conf + 1)..head /\ (cursor = NoBlock => at[f] >= FirstHead)
          /\ pc[f] = "set" => at[f] >= FirstHead
          /\ pc[f] \in {"get", "set", "return", "throw"} => at[f] - Conf \in saved \cup saving \cup lost
      BY DEF IInv, Handled, Askable, Reached, BlockOf
    <2> QED
      BY <1>3, <2>1 DEF Grows
  <1> QED
    BY <1>2, <1>3

\* The block of a handler at work has a positive number and all its confirmations.
LEMMA BlockOfHandler ==
  ASSUME IInv, NEW e \in Execution, pc[e] # "idle"
  PROVE  /\ at[e] \in 1..MaxHead /\ at[e] \in (Conf + 1)..head
         /\ cursor = NoBlock => at[e] >= FirstHead
         /\ BlockOf(e) \in Block /\ BlockOf(e) + Conf <= head
         /\ pc[e] = "set" => at[e] >= FirstHead
         /\ pc[e] \in {"get", "set", "return", "throw"} => BlockOf(e) \in saved \cup saving \cup lost
  <1>1. head \in Nat /\ head <= MaxHead /\ at[e] \in 0..MaxHead
    BY Bounds DEF IInv, TypeOK, Head
  <1>2. at[e] \in (Conf + 1)..head /\ (cursor = NoBlock => at[e] >= FirstHead)
    BY DEF IInv, Handled, Askable
  <1>3. BlockOf(e) \in Block /\ BlockOf(e) + Conf <= head
    BY <1>1, <1>2, Bounds DEF BlockOf, Block
  <1> QED
    BY <1>1, <1>2, <1>3, Bounds DEF IInv, Handled, Reached

LEMMA StartHandlerStep ==
  ASSUME IInv, NEW e \in Execution, NEW n \in 1..MaxHead, StartHandler(e, n)
  PROVE  IInv'
  <1> USE DEF IInv
  <1>1. /\ job[n] = "wait" /\ pc[e] = "idle"
        /\ job' = [job EXCEPT ![n] = "active"] /\ holder' = [holder EXCEPT ![n] = e]
        /\ at' = [at EXCEPT ![e] = n] /\ pc' = [pc EXCEPT ![e] = "logs"]
        /\ UNCHANGED <<head, watcher, known, cursor, transfers, lost, unheard, bounds>>
    BY DEF StartHandler, Goto
  <1>2. Askable(n)
    BY <1>1 DEF JobsAskable
  <1>3. TypeOK'
    <2>1. /\ job' \in [1..MaxHead -> {"none", "wait", "active"}]
          /\ holder' \in [1..MaxHead -> Execution \cup {Nobody}]
      BY <1>1 DEF TypeOK
    <2>2. /\ at' \in [Execution -> 0..MaxHead]
          /\ pc' \in [Execution -> {"idle", "logs", "get", "set", "return", "throw"}]
      BY <1>1, Bounds DEF TypeOK
    <2> QED
      BY <1>1, <2>1, <2>2 DEF TypeOK
  <1>4. Grows
    BY <1>1 DEF Grows
  <1>5. Handled'
    <2>1. at'[e] = n /\ pc'[e] = "logs" /\ \A f \in Execution \ {e} : at'[f] = at[f] /\ pc'[f] = pc[f]
      BY <1>1 DEF TypeOK
    <2> QED
      BY <1>1, <1>2, <1>4, <2>1, OneHandler DEF Askable
  <1>6. CursorMined' /\ OnlyConfirmed'
    BY <1>1 DEF CursorMined, OnlyConfirmed
  <1>7. \A m \in 1..MaxHead : job'[m] # "none" <=> job[m] # "none"
    BY <1>1 DEF TypeOK
  <1> QED
    BY <1>1, <1>3, <1>4, <1>5, <1>6, <1>7, WorkerStep

\* The ways the logs of a block end: its transfers start to be saved, or it is given up.
LEMMA LogsStep ==
  ASSUME IInv, NEW e \in Execution, pc[e] = "logs",
         UNCHANGED <<head, watcher, queue, at, known, cursor, saved, unheard>>,
         \/ saving' = saving \cup ({BlockOf(e)} \ saved) /\ UNCHANGED lost
         \/ lost' = lost \cup {BlockOf(e)} /\ UNCHANGED saving,
         NEW p \in {"get", "throw"}, Goto(e, p),
         faults' \in 0..MaxFaults, restarts' \in 0..MaxRestart
  PROVE  IInv'
  <1> USE DEF IInv
  <1>1. /\ at[e] \in (Conf + 1)..head /\ (cursor = NoBlock => at[e] >= FirstHead)
        /\ BlockOf(e) \in Block /\ BlockOf(e) + Conf <= head
    BY BlockOfHandler
  <1>2. pc' = [pc EXCEPT ![e] = p]
    BY DEF Goto
  <1>3. TypeOK'
    <2>1. pc' \in [Execution -> {"idle", "logs", "get", "set", "return", "throw"}]
      BY <1>2 DEF TypeOK
    <2>2. saving' \cup saved' \cup lost' \subseteq Block /\ saving' \cap saved' = {}
      BY <1>1 DEF TypeOK
    <2> QED
      BY <2>1, <2>2 DEF TypeOK
  <1>4. Grows /\ BlockOf(e) \in saved' \cup saving' \cup lost'
    BY DEF Grows
  <1>5. Handled'
    <2>1. pc'[e] = p /\ at' = at /\ \A f \in Execution \ {e} : pc'[f] = pc[f]
      BY <1>2 DEF TypeOK
    <2>2. at[e] - Conf \in saved' \cup saving' \cup lost'
      BY <1>4 DEF BlockOf
    <2> QED
      BY <1>1, <1>4, <2>1, <2>2, OneHandler
  <1>6. CursorMined' /\ OnlyConfirmed'
    BY <1>1 DEF CursorMined, OnlyConfirmed
  <1> QED
    BY <1>3, <1>4, <1>5, <1>6, WorkerStep

LEMMA EachLogsStep ==
  ASSUME IInv, NEW e \in Execution, GetLogs(e) \/ GetLogsBehind(e) \/ GetLogsFails(e)
  PROVE  IInv'
  <1>1. CASE GetLogs(e)
    BY <1>1, LogsStep DEF GetLogs, IInv, TypeOK
  <1>2. CASE GetLogsBehind(e)
    <2>1. faults' \in 0..MaxFaults /\ restarts' \in 0..MaxRestart
      BY <1>2, FaultTyped DEF GetLogsBehind
    <2> QED
      BY <1>2, <2>1, LogsStep DEF GetLogsBehind
  <1>3. CASE GetLogsFails(e)
    <2>1. faults' \in 0..MaxFaults /\ restarts' \in 0..MaxRestart
      BY <1>3, FaultTyped DEF GetLogsFails
    <2> QED
      BY <1>3, <2>1, LogsStep DEF GetLogsFails
  <1> QED
    BY <1>1, <1>2, <1>3

\* A block that is compared with the first cursors is none of the first Conf: either
\* there was no cursor, and only heads the watcher heard have jobs, or it is above one.
LEMMA GetCursorStep == ASSUME IInv, NEW e \in Execution, GetCursor(e) PROVE IInv'
  <1> USE DEF IInv
  <1> DEFINE p == IF cursor = NoBlock \/ cursor < BlockOf(e) THEN "set" ELSE "return"
  <1>1. /\ pc[e] = "get" /\ known' = [known EXCEPT ![e] = cursor] /\ pc' = [pc EXCEPT ![e] = p]
        /\ UNCHANGED <<head, watcher, queue, at, cursor, transfers, lost, unheard, bounds>>
    BY DEF GetCursor, Goto
  <1>2. /\ at[e] \in (Conf + 1)..head /\ (cursor = NoBlock => at[e] >= FirstHead)
        /\ at[e] - Conf \in saved \cup saving \cup lost
    BY <1>1, BlockOfHandler DEF BlockOf
  <1>3. p = "set" => at[e] >= FirstHead
    BY <1>2, Bounds DEF BlockOf, CursorMined
  <1>4. p \in {"set", "return"}
    OBVIOUS
  <1> HIDE DEF p
  <1>5. TypeOK'
    <2>1. /\ pc' \in [Execution -> {"idle", "logs", "get", "set", "return", "throw"}]
          /\ known' \in [Execution -> 0..(MaxHead - Conf)]
      BY <1>1, <1>4 DEF TypeOK
    <2> QED
      BY <1>1, <2>1 DEF TypeOK
  <1>6. Grows
    BY <1>1 DEF Grows
  <1>7. Handled'
    <2>1. pc'[e] = p /\ at' = at /\ \A f \in Execution \ {e} : pc'[f] = pc[f]
      BY <1>1 DEF TypeOK
    <2>2. at[e] - Conf \in saved' \cup saving' \cup lost' /\ cursor' = cursor /\ head' = head
      BY <1>1, <1>2
    <2> QED
      BY <1>2, <1>3, <1>4, <1>6, <2>1, <2>2, OneHandler
  <1>8. CursorMined' /\ OnlyConfirmed'
    BY <1>1 DEF CursorMined, OnlyConfirmed
  <1> QED
    BY <1>1, <1>5, <1>6, <1>7, <1>8, WorkerStep

LEMMA SetCursorStep == ASSUME IInv, NEW e \in Execution, SetCursor(e) PROVE IInv'
  <1> USE DEF IInv
  <1>1. /\ pc[e] = "set" /\ cursor' = BlockOf(e) /\ pc' = [pc EXCEPT ![e] = "return"]
        /\ UNCHANGED <<head, watcher, queue, at, known, transfers, lost, unheard, bounds>>
    BY DEF SetCursor, Goto
  <1>2. /\ at[e] \in (Conf + 1)..head /\ at[e] >= FirstHead /\ BlockOf(e) \in Block
        /\ at[e] - Conf \in saved \cup saving \cup lost
    BY <1>1, BlockOfHandler DEF BlockOf
  <1>3. cursor' \in (Conf + 1)..(head - Conf) /\ cursor' \in 0..(MaxHead - Conf) /\ cursor' # NoBlock
    <2>1. head \in Nat
      BY Bounds DEF TypeOK, Head
    <2> QED
      BY <1>1, <1>2, <2>1, Bounds DEF BlockOf, Block
  <1>4. TypeOK'
    <2>1. pc' \in [Execution -> {"idle", "logs", "get", "set", "return", "throw"}]
      BY <1>1 DEF TypeOK
    <2> QED
      BY <1>1, <1>3, <2>1 DEF TypeOK
  <1>5. Grows
    BY <1>1 DEF Grows
  <1>6. Handled'
    <2>1. pc'[e] = "return" /\ at' = at /\ \A f \in Execution \ {e} : pc'[f] = pc[f]
      BY <1>1 DEF TypeOK
    <2>2. at[e] - Conf \in saved' \cup saving' \cup lost' /\ head' = head
      BY <1>1, <1>2
    <2> QED
      BY <1>2, <1>3, <1>5, <2>1, <2>2, OneHandler
  <1>7. CursorMined' /\ OnlyConfirmed'
    BY <1>1, <1>3 DEF CursorMined, OnlyConfirmed
  <1> QED
    BY <1>1, <1>3, <1>4, <1>5, <1>6, <1>7, WorkerStep

\* The job that ends with its handler is one whose block is reached.
LEMMA FinishStep == ASSUME IInv, NEW e \in Execution, Finish(e) PROVE IInv'
  <1> USE DEF IInv
  <1>1. /\ pc[e] \in {"return", "throw"} /\ at' = [at EXCEPT ![e] = 0]
        /\ known' = [known EXCEPT ![e] = 0] /\ pc' = [pc EXCEPT ![e] = "idle"]
        /\ UNCHANGED <<head, watcher, cursor, transfers, lost, unheard, bounds>>
    BY DEF Finish, Goto
  <1>2. at[e] \in 1..MaxHead /\ at[e] - Conf \in saved \cup saving \cup lost
    BY <1>1, BlockOfHandler DEF BlockOf
  <1>3. \/ job' = job /\ holder' = holder
        \/ /\ job' = [job EXCEPT ![at[e]] = "none"]
           /\ holder' = [holder EXCEPT ![at[e]] = Nobody]
    BY DEF Finish
  <1>4. TypeOK'
    <2>1. /\ at' \in [Execution -> 0..MaxHead] /\ known' \in [Execution -> 0..(MaxHead - Conf)]
          /\ pc' \in [Execution -> {"idle", "logs", "get", "set", "return", "throw"}]
      BY <1>1, Bounds DEF TypeOK
    <2>2. /\ job' \in [1..MaxHead -> {"none", "wait", "active"}]
          /\ holder' \in [1..MaxHead -> Execution \cup {Nobody}]
      BY <1>3 DEF TypeOK
    <2> QED
      BY <1>1, <2>1, <2>2 DEF TypeOK
  <1>5. Grows
    BY <1>1 DEF Grows
  <1>6. Handled'
    <2>1. pc'[e] = "idle" /\ \A f \in Execution \ {e} : pc'[f] = pc[f] /\ at'[f] = at[f]
      BY <1>1 DEF TypeOK
    <2> QED
      BY <1>1, <1>5, <2>1, OneHandler
  <1>7. CursorMined' /\ OnlyConfirmed'
    BY <1>1 DEF CursorMined, OnlyConfirmed
  <1>8. \A n \in 1..MaxHead : /\ job'[n] # "none" => job[n] # "none"
                              /\ n # at[e] => job'[n] = job[n]
    BY <1>3 DEF TypeOK
  <1>9. \A n \in 1..MaxHead : job[n] # "none" =>
           job'[n] # "none" \/ n - Conf \in saving' \cup saved' \cup lost'
    BY <1>1, <1>2, <1>8
  <1> QED
    BY <1>1, <1>4, <1>5, <1>6, <1>7, <1>8, <1>9, WorkerStep

\* A save that ends, or fails, moves its block on.
LEMMA SaveStep ==
  ASSUME IInv, NEW b \in Block, SaveHistory(b) \/ SaveHistoryFails(b)
  PROVE  IInv'
  <1> USE DEF IInv
  <1>1. /\ b \in saving /\ saving' = saving \ {b}
        /\ UNCHANGED <<head, watcher, queue, handlers, cursor, unheard>>
        /\ \/ saved' = saved \cup {b} /\ lost' = lost
           \/ saved' = saved /\ lost' = lost \cup {b}
    BY DEF SaveHistory, SaveHistoryFails
  <1>2. faults' \in 0..MaxFaults /\ restarts' \in 0..MaxRestart
    BY FaultTyped DEF SaveHistory, SaveHistoryFails, TypeOK
  <1>3. TypeOK'
    <2>1. saving' \cup saved' \cup lost' \subseteq Block /\ saving' \cap saved' = {}
      BY <1>1 DEF TypeOK
    <2> QED
      BY <1>1, <1>2, <2>1 DEF TypeOK
  <1>4. Grows
    BY <1>1 DEF Grows
  <1>5. Handled'
    <2>1. head \in Nat /\ head' = head /\ cursor' = cursor /\ at' = at /\ pc' = pc
      BY <1>1, Bounds DEF TypeOK, Head
    <2> QED
      BY <1>4, <2>1, HandledStays
  <1>6. CursorMined' /\ OnlyConfirmed'
    BY <1>1 DEF CursorMined, OnlyConfirmed
  <1> QED
    BY <1>1, <1>3, <1>4, <1>5, <1>6, WorkerStep

LEMMA CrashWorkerStep == IInv /\ CrashWorker => IInv'
  <1> SUFFICES ASSUME IInv, CrashWorker PROVE IInv'
    OBVIOUS
  <1> USE DEF IInv
  <1>1. PICK E \in SUBSET Execution, B \in SUBSET saving :
          /\ at' = [e \in Execution |-> IF e \in E THEN 0 ELSE at[e]]
          /\ pc' = [e \in Execution |-> IF e \in E THEN "idle" ELSE pc[e]]
          /\ known' = [e \in Execution |-> IF e \in E THEN 0 ELSE known[e]]
          /\ holder' = [n \in 1..MaxHead |-> IF holder[n] \in E THEN Nobody ELSE holder[n]]
          /\ saving' = saving \ B
          /\ lost' = lost \cup B
    BY DEF CrashWorker
  <1>2. UNCHANGED <<head, watcher, job, cursor, saved, unheard>>
    BY DEF CrashWorker
  <1>3. faults' \in 0..MaxFaults /\ restarts' \in 0..MaxRestart
    BY FaultTyped DEF CrashWorker
  <1>4. TypeOK'
    <2>1. /\ at' \in [Execution -> 0..MaxHead] /\ known' \in [Execution -> 0..(MaxHead - Conf)]
          /\ pc' \in [Execution -> {"idle", "logs", "get", "set", "return", "throw"}]
          /\ holder' \in [1..MaxHead -> Execution \cup {Nobody}]
      BY <1>1, Bounds DEF TypeOK
    <2>2. saving' \cup saved' \cup lost' \subseteq Block /\ saving' \cap saved' = {}
      BY <1>1, <1>2 DEF TypeOK
    <2> QED
      BY <1>2, <1>3, <2>1, <2>2 DEF TypeOK
  <1>5. Grows
    BY <1>1, <1>2 DEF Grows
  <1>6. Handled'
    <2>1. head \in Nat /\ head' = head /\ cursor' = cursor
      BY <1>2, Bounds DEF TypeOK, Head
    <2>2. ASSUME NEW e \in Execution, pc'[e] # "idle"
          PROVE  /\ at'[e] \in (Conf + 1)..head' /\ (cursor' = NoBlock => at'[e] >= FirstHead)
                 /\ pc'[e] = "set" => at'[e] >= FirstHead
                 /\ pc'[e] \in {"get", "set", "return", "throw"} =>
                      at'[e] - Conf \in saved' \cup saving' \cup lost'
      <3>1. at'[e] = at[e] /\ pc'[e] = pc[e] /\ pc[e] # "idle"
        BY <1>1, <2>2
      <3>2. /\ at[e] \in (Conf + 1)..head /\ (cursor = NoBlock => at[e] >= FirstHead)
            /\ pc[e] = "set" => at[e] >= FirstHead
            /\ pc[e] \in {"get", "set", "return", "throw"} => at[e] - Conf \in saved \cup saving \cup lost
        BY <3>1, BlockOfHandler DEF BlockOf
      <3> QED
        BY <2>1, <3>1, <3>2, <1>5 DEF Grows
    <2> QED
      BY <2>2 DEF Handled, Askable, Reached, BlockOf
  <1>7. CursorMined' /\ OnlyConfirmed'
    BY <1>1, <1>2 DEF CursorMined, OnlyConfirmed
  <1> QED
    BY <1>2, <1>4, <1>5, <1>6, <1>7, WorkerStep

\* A job whose handler Bull no longer waits for is left as it is, goes back to wait, or
\* fails and gives its block up.
LEMMA QueueStep ==
  ASSUME IInv, NEW n \in 1..MaxHead, Outlive(n) \/ RecoverStalled(n)
  PROVE  IInv'
  <1> USE DEF IInv
  <1>1. /\ job[n] = "active"
        /\ UNCHANGED <<head, watcher, handlers, cursor, transfers, unheard>>
        /\ \/ job' = [job EXCEPT ![n] = "none"] /\ lost' = lost \cup {n - Conf}
           \/ job' = [job EXCEPT ![n] = "wait"] /\ lost' = lost
           \/ job' = job /\ lost' = lost
    BY DEF Outlive, RecoverStalled
  <1>2. faults' \in 0..MaxFaults /\ restarts' \in 0..MaxRestart
    BY FaultTyped DEF Outlive, RecoverStalled, TypeOK
  <1>3. holder' \in [1..MaxHead -> Execution \cup {Nobody}]
    BY DEF Outlive, RecoverStalled, TypeOK
  <1>4. n - Conf \in Block
    <2>1. Askable(n) /\ head \in Nat /\ head <= MaxHead
      BY <1>1, Bounds DEF JobsAskable, TypeOK, Head
    <2> QED
      BY <2>1, Bounds DEF Askable, Block
  <1>5. TypeOK'
    <2>1. lost' \subseteq Block
      BY <1>1, <1>4 DEF TypeOK
    <2>2. job' \in [1..MaxHead -> {"none", "wait", "active"}]
      BY <1>1 DEF TypeOK
    <2> QED
      BY <1>1, <1>2, <1>3, <2>1, <2>2 DEF TypeOK
  <1>6. Grows
    BY <1>1 DEF Grows
  <1>7. Handled'
    <2>1. head \in Nat /\ head' = head /\ cursor' = cursor /\ at' = at /\ pc' = pc
      BY <1>1, Bounds DEF TypeOK, Head
    <2> QED
      BY <1>6, <2>1, HandledStays
  <1>8. CursorMined' /\ OnlyConfirmed'
    BY <1>1 DEF CursorMined, OnlyConfirmed
  <1>9. \A m \in 1..MaxHead : /\ job'[m] # "none" => job[m] # "none"
                              /\ m # n => job'[m] = job[m]
    BY <1>1 DEF TypeOK
  <1>10. \A m \in 1..MaxHead : job[m] # "none" =>
           job'[m] # "none" \/ m - Conf \in saving' \cup saved' \cup lost'
    BY <1>1, <1>9 DEF TypeOK
  <1> QED
    BY <1>1, <1>5, <1>6, <1>7, <1>8, <1>9, <1>10, WorkerStep

-----------------------------------------------------------------------------
(* The theorems.                                                           *)

LEMMA NextInv == IInv /\ [Next]_vars => IInv'
  <1> SUFFICES ASSUME IInv, [Next]_vars PROVE IInv'
    OBVIOUS
  <1>1. CASE Mine \/ CloseSocket \/ CheckSocket \/ CrashWatcher \/ BootFails
    BY <1>1, MineStep, CloseSocketStep, CheckSocketStep, CrashWatcherStep, BootFailsStep
  <1>2. CASE Watcher
    BY <1>2, SubscribeStep, GetBlockNumberStep, GetLatestStep, SyncBlockStep, SyncBlockDoneStep,
       StartWatcherStep DEF Watcher
  <1>3. ASSUME NEW n \in 1..MaxHead,
               OnBlock(n) \/ AddFails(n) \/ Outlive(n) \/ RecoverStalled(n)
        PROVE  IInv'
    BY <1>3, OnBlockStep, AddFailsStep, QueueStep
  <1>4. ASSUME NEW n \in 1..MaxHead, NEW e \in Execution, StartHandler(e, n) PROVE IInv'
    BY <1>4, StartHandlerStep
  <1>5. ASSUME NEW e \in Execution, Handler(e) \/ GetLogsFails(e) \/ GetLogsBehind(e) PROVE IInv'
    BY <1>5, EachLogsStep, GetCursorStep, SetCursorStep, FinishStep DEF Handler
  <1>6. ASSUME NEW b \in Block, SaveHistory(b) \/ SaveHistoryFails(b) PROVE IInv'
    BY <1>6, SaveStep
  <1>7. CASE CrashWorker
    BY <1>7, CrashWorkerStep
  <1>8. CASE UNCHANGED vars
    <2>1. /\ UNCHANGED <<head, pending, unheard, workers, link, from, to, next, boot, faults, restarts>>
      BY <1>8 DEF vars
    <2>2. Watched' /\ Passed'
      BY <2>1 DEF IInv, Watched, Passed
    <2> QED
      BY <2>1, <2>2, StartStep DEF IInv, TypeOK
  <1> QED
    BY <1>1, <1>2, <1>3, <1>4, <1>5, <1>6, <1>7, <1>8 DEF Next

LEMMA Invariance == Spec => []IInv
  BY InitInv, NextInv, PTL DEF Spec

\* Every variable of BlockSync keeps its type: whatever order the jobs run in, no job
\* asks for a block below the first, though the start takes the cursor, which is a
\* block, for a head.
THEOREM TypeCorrect == Spec => []TypeOK
  BY Invariance, PTL DEF IInv

\* Transfers are taken only from blocks with all their confirmations.
THEOREM OnlyConfirmedAlways == Spec => []OnlyConfirmed
  BY Invariance, PTL DEF IInv

\* A block whose transfers are not saved has its job, was given up by a step that
\* failed, or had a head nobody heard, for any number of handlers and of faults.
THEOREM HolesAlwaysExplained == Spec => []HolesExplained
  BY Invariance, PTL DEF IInv

\* A start that is over has added every head nobody heard from the cursor on, save the
\* last one of its range.
THEOREM RestartAlwaysCatchesUp == Spec => []RestartCatchesUp
  <1>1. IInv => RestartCatchesUp
    <2> SUFFICES ASSUME IInv, boot = "done", NEW n \in unheard PROVE n < from \/ n >= to
      BY DEF RestartCatchesUp
    <2>1. {n, next, to} \subseteq Int /\ next >= to /\ (n < from \/ n >= next \/ n >= to)
      BY DEF IInv, TypeOK, Passed, Head
    <2> QED
      BY <2>1
  <1> QED
    BY <1>1, Invariance, PTL

-----------------------------------------------------------------------------
(* The cursor.                                                             *)

\* A handler that is about to write the cursor read one below its own block.
Compared == \A e \in Execution : pc[e] = "set" => known[e] < BlockOf(e)

\* A step that starts no comparison keeps Compared: every handler about to write was
\* about to write before, for the same head and with the same cursor in hand.
LEMMA ComparedStays ==
  ASSUME IInv, Compared,
         \A e \in Execution : pc'[e] = "set" => pc[e] = "set" /\ at'[e] = at[e] /\ known'[e] = known[e]
  PROVE  Compared'
  BY DEF Compared, BlockOf

LEMMA ComparedNext == IInv /\ Compared /\ [Next]_vars => Compared'
  <1> SUFFICES ASSUME IInv, Compared, [Next]_vars PROVE Compared'
    OBVIOUS
  <1> USE DEF IInv
  <1>1. CASE UNCHANGED handlers
    BY <1>1, ComparedStays
  <1>2. ASSUME NEW e \in Execution, NEW n \in 1..MaxHead, StartHandler(e, n) PROVE Compared'
    <2>1. /\ at' = [at EXCEPT ![e] = n] /\ pc' = [pc EXCEPT ![e] = "logs"] /\ known' = known
      BY <1>2 DEF StartHandler, Goto
    <2>2. \A f \in Execution : pc'[f] = "set" => pc[f] = "set" /\ at'[f] = at[f] /\ known'[f] = known[f]
      BY <2>1 DEF TypeOK
    <2> QED
      BY <2>2, ComparedStays
  <1>3. ASSUME NEW e \in Execution, GetLogs(e) \/ GetLogsBehind(e) \/ GetLogsFails(e) \/ SetCursor(e)
        PROVE  Compared'
    <2>1. PICK p \in {"get", "throw", "return"} : pc' = [pc EXCEPT ![e] = p]
      BY <1>3 DEF GetLogs, GetLogsBehind, GetLogsFails, SetCursor, Goto
    <2>2. at' = at /\ known' = known
      BY <1>3 DEF GetLogs, GetLogsBehind, GetLogsFails, SetCursor
    <2>3. \A f \in Execution : pc'[f] = "set" => pc[f] = "set" /\ at'[f] = at[f] /\ known'[f] = known[f]
      BY <2>1, <2>2 DEF TypeOK
    <2> QED
      BY <2>3, ComparedStays
  <1>4. ASSUME NEW e \in Execution, GetCursor(e) PROVE Compared'
    <2>1. /\ pc[e] = "get" /\ known' = [known EXCEPT ![e] = cursor] /\ at' = at
          /\ pc' = [pc EXCEPT ![e] = IF cursor = NoBlock \/ cursor < BlockOf(e) THEN "set" ELSE "return"]
      BY <1>4 DEF GetCursor, Goto
    <2>2. BlockOf(e) \in Block
      BY <2>1, BlockOfHandler
    <2>3. pc'[e] = "set" => known'[e] < BlockOf(e)
      BY <2>1, <2>2 DEF TypeOK, Block
    <2>4. \A f \in Execution \ {e} : pc'[f] = pc[f] /\ known'[f] = known[f]
      BY <2>1 DEF TypeOK
    <2>5. \A f \in Execution : pc'[f] = "set" => known'[f] < at[f] - Conf
      BY <2>3, <2>4 DEF Compared, BlockOf
    <2> QED
      BY <2>1, <2>5 DEF Compared, BlockOf
  <1>5. ASSUME NEW e \in Execution, Finish(e) PROVE Compared'
    <2>1. /\ at' = [at EXCEPT ![e] = 0] /\ known' = [known EXCEPT ![e] = 0] /\ pc' = [pc EXCEPT ![e] = "idle"]
      BY <1>5 DEF Finish, Goto
    <2>2. \A f \in Execution : pc'[f] = "set" => pc[f] = "set" /\ at'[f] = at[f] /\ known'[f] = known[f]
      BY <2>1 DEF TypeOK
    <2> QED
      BY <2>2, ComparedStays
  <1>6. CASE CrashWorker
    <2>1. PICK E \in SUBSET Execution :
            /\ at' = [e \in Execution |-> IF e \in E THEN 0 ELSE at[e]]
            /\ pc' = [e \in Execution |-> IF e \in E THEN "idle" ELSE pc[e]]
            /\ known' = [e \in Execution |-> IF e \in E THEN 0 ELSE known[e]]
      BY <1>6 DEF CrashWorker
    <2>2. \A f \in Execution : pc'[f] = "set" => pc[f] = "set" /\ at'[f] = at[f] /\ known'[f] = known[f]
      BY <2>1
    <2> QED
      BY <2>2, ComparedStays
  <1>7. \/ UNCHANGED handlers
        \/ \E e \in Execution : \/ \E n \in 1..MaxHead : StartHandler(e, n)
                                \/ GetLogs(e) \/ GetLogsBehind(e) \/ GetLogsFails(e)
                                \/ GetCursor(e) \/ SetCursor(e) \/ Finish(e)
        \/ CrashWorker
    <2>1. CASE Mine \/ CloseSocket \/ Watcher \/ BootFails \/ CheckSocket \/ CrashWatcher
      BY <2>1 DEF Mine, CloseSocket, Watcher, Subscribe, GetBlockNumber, GetLatestBlockNumberSync,
                  SyncBlock, SyncBlockDone, StartWatcher, BootFails, CheckSocket, CrashWatcher
    <2>2. CASE \E n \in 1..MaxHead : OnBlock(n) \/ AddFails(n) \/ Outlive(n) \/ RecoverStalled(n)
      BY <2>2 DEF OnBlock, AddFails, Outlive, RecoverStalled
    <2>3. CASE \E b \in Block : SaveHistory(b) \/ SaveHistoryFails(b)
      BY <2>3 DEF SaveHistory, SaveHistoryFails
    <2>4. CASE UNCHANGED vars
      BY <2>4 DEF vars
    <2> QED
      BY <2>1, <2>2, <2>3, <2>4 DEF Next, Handler
  <1> QED
    BY <1>1, <1>2, <1>3, <1>4, <1>5, <1>6, <1>7

\* Only the write of a handler that compared its block moves the cursor, and it moves it
\* back only past a write it did not see.
LEMMA CursorMoves ==
  ASSUME IInv, Compared, [Next]_vars, cursor' < cursor
  PROVE  \E e \in Execution : pc[e] = "set" /\ known[e] # cursor
  <1>1. cursor \in Nat
    BY Bounds DEF IInv, TypeOK
  <1>2. \E e \in Execution : SetCursor(e)
    <2> SUFFICES ASSUME ~(\E e \in Execution : SetCursor(e)) PROVE cursor' = cursor
      BY <1>1
    <2>1. CASE Mine \/ CloseSocket \/ Watcher \/ BootFails \/ CheckSocket \/ CrashWatcher
      BY <2>1 DEF Mine, CloseSocket, Watcher, Subscribe, GetBlockNumber, GetLatestBlockNumberSync,
                  SyncBlock, SyncBlockDone, StartWatcher, BootFails, CheckSocket, CrashWatcher
    <2>2. CASE \E n \in 1..MaxHead : \/ OnBlock(n) \/ AddFails(n) \/ Outlive(n) \/ RecoverStalled(n)
                                     \/ \E e \in Execution : StartHandler(e, n)
      BY <2>2 DEF OnBlock, AddFails, Outlive, RecoverStalled, StartHandler
    <2>3. CASE \E e \in Execution : Handler(e) \/ GetLogsFails(e) \/ GetLogsBehind(e)
      BY <2>3 DEF Handler, GetLogs, GetCursor, Finish, GetLogsFails, GetLogsBehind
    <2>4. CASE \E b \in Block : SaveHistory(b) \/ SaveHistoryFails(b)
      BY <2>4 DEF SaveHistory, SaveHistoryFails
    <2>5. CASE CrashWorker
      BY <2>5 DEF CrashWorker
    <2>6. CASE UNCHANGED vars
      BY <2>6 DEF vars
    <2> QED
      BY <2>1, <2>2, <2>3, <2>4, <2>5, <2>6 DEF Next
  <1>3. PICK e \in Execution : SetCursor(e)
    BY <1>2
  <1>4. pc[e] = "set" /\ cursor' = BlockOf(e)
    BY <1>3 DEF SetCursor
  <1>5. known[e] < BlockOf(e)
    BY <1>4 DEF Compared
  <1>6. BlockOf(e) \in Nat /\ cursor' < cursor
    BY <1>4, BlockOfHandler DEF Block
  <1>7. known[e] # cursor
    BY <1>1, <1>4, <1>5, <1>6
  <1> QED
    BY <1>4, <1>7

\* The cursor goes back only when a handler writes it that did not see the last write.
THEOREM CursorAlwaysForwardUnlessStale == Spec => CursorRegressesOnlyWhenStale
  <1>1. Init => Compared
    BY DEF Init, Compared
  <1>2. Spec => []Compared
    BY <1>1, ComparedNext, Invariance, PTL DEF Spec
  <1>3. IInv /\ Compared /\ [Next]_vars =>
          [cursor' < cursor => \E e \in Execution : pc[e] = "set" /\ known[e] # cursor]_vars
    BY CursorMoves
  <1> QED
    BY <1>2, <1>3, Invariance, PTL DEF Spec, CursorRegressesOnlyWhenStale
=============================================================================
