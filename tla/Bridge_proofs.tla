---------------------------- MODULE Bridge_proofs ----------------------------
(***************************************************************************)
(* Proofs about a bridge process: the queue that its messages go through   *)
(* (PendingQueue, for any scopes and messages), its entry in the registry  *)
(* and its connection (Host, for any processes and profiles), and which    *)
(* chat continues which session (Bindings, for any sessions and chats).    *)
(* The queue: conservation, no lost wakeup, one batch at a time, the       *)
(* order of runs and the refinement of SerialBatcher.  The host: every     *)
(* step of it is one of the registry's or leaves the registry alone, so    *)
(* that what holds of locked edits holds of the list (ListInv); and a      *)
(* client is connected only under its profile's lock (ConnectionInv).      *)
(***************************************************************************)
EXTENDS PendingQueue, Host, Bindings, SequenceTheorems, TLAPS

\* The fields and histories keep their types, and no batch is ever empty: fire
\* hands flush only what it found in a non-empty buffer.
THEOREM QueueTypeCorrect == QueueSpec => []QueueTypeOK
<1>1. QueueInit => QueueTypeOK
  BY DEF QueueInit, QueueTypeOK, EmptyQueues
<1>2. QueueTypeOK /\ [QueueNext]_queueVars => QueueTypeOK'
  <2> SUFFICES ASSUME QueueTypeOK, [QueueNext]_queueVars PROVE QueueTypeOK'
    OBVIOUS
  <2> USE DEF QueueTypeOK, Batches
  <2>1. ASSUME NEW s \in Scopes, NEW m \in Messages, Push(s, m) PROVE QueueTypeOK'
    BY <2>1 DEF Push, ArmLocked
  <2>2. ASSUME NEW s \in Scopes, Expire(s) PROVE QueueTypeOK'
    <3>1. orphans' \in [Scopes -> Nat] /\ timer' \in [Scopes -> BOOLEAN]
      <4>1. CASE timer' = [timer EXCEPT ![s] = FALSE] /\ UNCHANGED orphans
        BY <4>1
      <4>2. CASE /\ orphans[s] > 0
                 /\ orphans' = [orphans EXCEPT ![s] = @ - 1]
                 /\ UNCHANGED timer
        <5>1. orphans[s] - 1 \in Nat
          BY <4>2
        <5>2. QED
          BY <4>2, <5>1
      <4>3. QED
        BY <2>2, <4>1, <4>2 DEF Expire
    <3>2. firing' \in [Scopes -> Nat]
      BY <2>2 DEF Expire
    <3>3. QED
      BY <2>2, <3>1, <3>2 DEF Expire, history
  <2>3. ASSUME NEW s \in Scopes, FireNothing(s) PROVE QueueTypeOK'
    BY <2>3 DEF FireNothing, history
  <2>4. ASSUME NEW s \in Scopes, FireBatch(s) PROVE QueueTypeOK'
    <3>1. buffer[s] \in Seq(Messages) \ {<<>>}
      BY <2>4 DEF FireBatch
    <3>2. taken' \in [Scopes -> SUBSET Batches] /\ buffer' \in [Scopes -> Seq(Messages)]
      BY <2>4, <3>1 DEF FireBatch
    <3>3. flushed' \in [Scopes -> Seq(Messages)]
      BY <2>4, <3>1 DEF FireBatch
    <3>4. firing' \in [Scopes -> Nat] /\ orphans' \in [Scopes -> Nat]
      <4>1. firing[s] - 1 \in Nat
        BY <2>4 DEF FireBatch
      <4>2. QED
        BY <2>4, <4>1 DEF FireBatch
    <3>5. timer' \in [Scopes -> BOOLEAN]
      BY <2>4 DEF FireBatch
    <3>6. QED
      BY <2>4, <3>2, <3>3, <3>4, <3>5 DEF FireBatch
  <2>5. ASSUME NEW s \in Scopes, BlockSome(s) PROVE QueueTypeOK'
    BY <2>5 DEF BlockSome, Block
  <2>6. ASSUME NEW s \in Scopes, UnblockSome(s) PROVE QueueTypeOK'
    BY <2>6 DEF UnblockSome, Unblock, history
  <2>7. CASE UNCHANGED queueVars
    BY <2>7 DEF queueVars, history
  <2>8. QED
    BY <2>1, <2>2, <2>3, <2>4, <2>5, <2>6, <2>7 DEF QueueNext, Fire
<1>3. QED
  BY <1>1, <1>2, PTL DEF QueueSpec

-----------------------------------------------------------------------------
\* Appending to the second of two concatenated sequences.
LEMMA AppendToSuffix ==
  ASSUME NEW S, NEW u \in Seq(S), NEW v \in Seq(S), NEW e \in S
  PROVE  u \o Append(v, e) = Append(u \o v, e)
<1>1. Append(v, e) = v \o <<e>>
  BY AppendIsConcat
<1>2. u \o v \in Seq(S)
  BY ConcatProperties
<1>3. Append(u \o v, e) = (u \o v) \o <<e>>
  BY <1>2, AppendIsConcat
<1>4. <<e>> \in Seq(S)
  OBVIOUS
<1>5. QED
  BY <1>1, <1>3, <1>4, ConcatAssociative

\* Whatever is pushed is in exactly one place and in its order: the messages
\* fire took, followed by the buffer, are the messages Push appended.
THEOREM ConservationHolds == QueueSpec => []Conservation
<1>1. QueueInit => Conservation
  BY ConcatEmptySeq, EmptySeq DEF QueueInit, Conservation, EmptyQueues
<1>2. QueueTypeOK /\ Conservation /\ [QueueNext]_queueVars => Conservation'
  <2> SUFFICES ASSUME QueueTypeOK, Conservation, [QueueNext]_queueVars, NEW t \in Scopes
               PROVE  (flushed[t] \o buffer[t] = pushed[t])'
    BY DEF Conservation
  <2>0. /\ flushed[t] \in Seq(Messages) /\ buffer[t] \in Seq(Messages)
        /\ flushed[t] \o buffer[t] = pushed[t]
    BY DEF QueueTypeOK, Conservation
  <2>1. ASSUME NEW s \in Scopes, NEW m \in Messages, Push(s, m)
        PROVE  (flushed[t] \o buffer[t] = pushed[t])'
    <3>1. flushed[t] \o Append(buffer[t], m) = Append(flushed[t] \o buffer[t], m)
      <4>1. \A u, v \in Seq(Messages), e \in Messages :
              u \o Append(v, e) = Append(u \o v, e)
        BY AppendToSuffix
      <4>2. QED
        BY <2>0, <4>1
    <3>2. QED
      BY <2>0, <2>1, <3>1 DEF Push, QueueTypeOK
  <2>2. ASSUME NEW s \in Scopes, FireBatch(s)
        PROVE  (flushed[t] \o buffer[t] = pushed[t])'
    <3>1. pushed[t] \in Seq(Messages) /\ pushed[t] \o <<>> = pushed[t]
      BY ConcatEmptySeq DEF QueueTypeOK
    <3>2. QED
      BY <2>0, <2>2, <3>1 DEF FireBatch, QueueTypeOK
  <2>3. ASSUME NEW s \in Scopes, \/ Expire(s) \/ FireNothing(s)
                                 \/ BlockSome(s) \/ UnblockSome(s)
        PROVE  (flushed[t] \o buffer[t] = pushed[t])'
    BY <2>0, <2>3 DEF Expire, FireNothing, BlockSome, Block, UnblockSome, Unblock, history
  <2>4. CASE UNCHANGED queueVars
    BY <2>0, <2>4 DEF queueVars, history
  <2>5. QED
    BY <2>1, <2>2, <2>3, <2>4 DEF QueueNext, Fire
<1>3. QED
  BY <1>1, <1>2, QueueTypeCorrect, PTL DEF QueueSpec

\* A waiting message of an open scope always has a timer or a fire goroutine
\* coming for it, and a blocked scope always has a run that will unblock it:
\* together they exclude a message that nothing will ever flush.
Wakeup == NoLostWakeup /\ BlockedHasRun

\* The facts behind both wakeup properties hold in every reachable state.
LEMMA WakeupInvariant == QueueSpec => []Wakeup
<1>1. QueueInit => Wakeup
  BY DEF QueueInit, Wakeup, NoLostWakeup, BlockedHasRun, EmptyQueues
<1>2. QueueTypeOK /\ Wakeup /\ [QueueNext]_queueVars => Wakeup'
  <2> SUFFICES ASSUME QueueTypeOK, Wakeup, [QueueNext]_queueVars PROVE Wakeup'
    OBVIOUS
  <2> USE DEF QueueTypeOK, Wakeup, NoLostWakeup, BlockedHasRun
  <2>1. ASSUME NEW s \in Scopes, NEW m \in Messages, Push(s, m) PROVE Wakeup'
    <3>1. UNCHANGED <<blocked, firing, running>>
      BY <2>1 DEF Push
    <3>2. \A t \in Scopes : timer[t] \/ (t = s /\ ~blocked[s]) => timer'[t]
      BY <2>1 DEF Push, ArmLocked
    <3>3. \A t \in Scopes : t # s => buffer'[t] = buffer[t]
      BY <2>1 DEF Push
    <3>4. BlockedHasRun'
      BY <3>1
    <3>5. NoLostWakeup'
      BY <3>1, <3>2, <3>3
    <3>6. QED
      BY <3>4, <3>5
  <2>2. ASSUME NEW s \in Scopes, Expire(s) PROVE Wakeup'
    BY <2>2, SMTT(30) DEF Expire, history
  <2>3. ASSUME NEW s \in Scopes, FireNothing(s) PROVE Wakeup'
    BY <2>3 DEF FireNothing, history
  <2>4. ASSUME NEW s \in Scopes, FireBatch(s) PROVE Wakeup'
    BY <2>4 DEF FireBatch
  <2>5. ASSUME NEW s \in Scopes, BlockSome(s) PROVE Wakeup'
    <3>1. PICK batch \in taken[s] : Block(s, batch)
      BY <2>5 DEF BlockSome
    <3>2. NoLostWakeup'
      BY <3>1 DEF Block
    <3>3. ASSUME NEW t \in Scopes PROVE blocked'[t] => running'[t] # {}
      BY <3>1 DEF Block
    <3>4. QED
      BY <3>2, <3>3
  <2>6. ASSUME NEW s \in Scopes, UnblockSome(s) PROVE Wakeup'
    BY <2>6 DEF UnblockSome, Unblock, history
  <2>7. CASE UNCHANGED queueVars
    BY <2>7 DEF queueVars, history
  <2>8. QED
    BY <2>1, <2>2, <2>3, <2>4, <2>5, <2>6, <2>7 DEF QueueNext, Fire
<1>3. QED
  BY <1>1, <1>2, QueueTypeCorrect, PTL DEF QueueSpec

\* No lost wakeup, for any number of scopes and messages.
THEOREM NoLostWakeupHolds == QueueSpec => []NoLostWakeup
BY WakeupInvariant, PTL DEF Wakeup

\* A scope is never left blocked with no run to unblock it.
THEOREM BlockedHasRunHolds == QueueSpec => []BlockedHasRun
BY WakeupInvariant, PTL DEF Wakeup

-----------------------------------------------------------------------------
(* The prompt handoff.  OneBatchAtATime is not inductive by itself: a fire   *)
(* goroutine on its way must find neither a taken nor a running batch.       *)
SerialAt(s) ==
  /\ firing[s] <= 1
  /\ firing[s] > 0 => taken[s] = {}
  /\ taken[s] # {} => running[s] = {}
  /\ \A b, c \in taken[s] : b = c
  /\ \A b, c \in running[s] : b = c
  /\ blocked[s] <=> running[s] # {}

SerialInv == \A s \in Scopes : SerialAt(s)

\* Each scope is serial in every reachable state of a prompt scheduler.
LEMMA SerialInvariant == ASSUME PromptHandoff PROVE QueueSpec => []SerialInv
<1>1. QueueInit => SerialInv
  BY DEF QueueInit, SerialInv, SerialAt, EmptyQueues
<1>2. QueueTypeOK /\ SerialInv /\ [QueueNext]_queueVars => SerialInv'
  <2> SUFFICES ASSUME QueueTypeOK, SerialInv, [QueueNext]_queueVars, NEW t \in Scopes
               PROVE  SerialAt(t)'
    BY DEF SerialInv
  <2>0. CASE UNCHANGED <<firing[t], taken[t], running[t], blocked[t]>>
    BY <2>0 DEF SerialInv, SerialAt
  <2> USE <2>0 DEF QueueTypeOK
  <2>1. ASSUME NEW s \in Scopes, NEW m \in Messages, Push(s, m) PROVE SerialAt(t)'
    BY <2>1 DEF Push
  <2>2. ASSUME NEW s \in Scopes, Expire(s) PROVE SerialAt(t)'
    <3>1. CASE s # t
      BY <2>2, <3>1 DEF Expire
    <3>2. CASE s = t
      <4>1. firing[t] = 0 /\ taken[t] = {}
        BY <2>2, <3>2, PromptHandoff DEF Expire, HandoffDone
      <4>2. firing'[t] = 1 /\ UNCHANGED <<taken, running, blocked>>
        BY <2>2, <3>2, <4>1 DEF Expire
      <4>3. QED
        BY <4>1, <4>2 DEF SerialInv, SerialAt
    <3>3. QED
      BY <3>1, <3>2
  <2>3. ASSUME NEW s \in Scopes, FireNothing(s) PROVE SerialAt(t)'
    <3>1. firing[s] > 0 /\ UNCHANGED <<taken, running, blocked>>
      BY <2>3 DEF FireNothing
    <3>2. firing'[t] = IF s = t THEN firing[t] - 1 ELSE firing[t]
      BY <2>3 DEF FireNothing
    <3>3. QED
      BY <3>1, <3>2 DEF SerialInv, SerialAt
  <2>4. ASSUME NEW s \in Scopes, FireBatch(s) PROVE SerialAt(t)'
    <3>1. CASE s # t
      BY <2>4, <3>1 DEF FireBatch
    <3>2. CASE s = t
      <4>1. ~blocked[t] /\ running[t] = {} /\ taken[t] = {} /\ firing[t] = 1
        BY <2>4, <3>2 DEF FireBatch, SerialInv, SerialAt
      <4>2. /\ firing'[t] = 0 /\ taken'[t] = {buffer[t]}
            /\ running'[t] = {} /\ ~blocked'[t]
        BY <2>4, <3>2, <4>1 DEF FireBatch
      <4>3. QED
        BY <4>2 DEF SerialAt
    <3>3. QED
      BY <3>1, <3>2
  <2>5. ASSUME NEW s \in Scopes, BlockSome(s) PROVE SerialAt(t)'
    <3>1. PICK batch \in taken[s] : Block(s, batch)
      BY <2>5 DEF BlockSome
    <3>2. CASE s # t
      BY <3>1, <3>2 DEF Block
    <3>3. CASE s = t
      <4>1. taken[t] = {batch} /\ running[t] = {} /\ firing[t] = 0
        <5>1. SerialAt(t) /\ batch \in taken[t] /\ firing[t] \in Nat
          BY <3>3 DEF SerialInv
        <5>2. taken[t] = {batch}
          BY <5>1 DEF SerialAt
        <5>3. running[t] = {} /\ firing[t] = 0
          BY <5>1 DEF SerialAt
        <5>4. QED
          BY <5>2, <5>3
      <4>2. /\ firing'[t] = 0 /\ taken'[t] = {}
            /\ running'[t] = {batch} /\ blocked'[t]
        BY <3>1, <3>3, <4>1 DEF Block
      <4>3. QED
        BY <4>2 DEF SerialAt
    <3>4. QED
      BY <3>2, <3>3
  <2>6. ASSUME NEW s \in Scopes, UnblockSome(s) PROVE SerialAt(t)'
    <3>1. PICK batch \in running[s] : Unblock(s, batch)
      BY <2>6 DEF UnblockSome
    <3>2. CASE s # t
      BY <3>1, <3>2 DEF Unblock
    <3>3. CASE s = t
      <4>1. running[t] = {batch}
        BY <3>1, <3>3 DEF SerialInv, SerialAt
      <4>2. running'[t] = {} /\ ~blocked'[t] /\ UNCHANGED <<firing, taken>>
        BY <3>1, <3>3, <4>1 DEF Unblock
      <4>3. QED
        BY <4>2 DEF SerialInv, SerialAt
    <3>4. QED
      BY <3>2, <3>3
  <2>7. CASE UNCHANGED queueVars
    BY <2>7 DEF queueVars
  <2>8. QED
    BY <2>1, <2>2, <2>3, <2>4, <2>5, <2>6, <2>7 DEF QueueNext, Fire
<1>3. QED
  BY <1>1, <1>2, QueueTypeCorrect, PTL DEF QueueSpec

\* "One batch per scope at a time" holds whenever goroutines are scheduled
\* within the debounce window; the run queue_overlap shows it needs that.
THEOREM OneBatchHolds == ASSUME PromptHandoff PROVE QueueSpec => []OneBatchAtATime
<1>1. SerialInv => OneBatchAtATime
  BY DEF SerialInv, SerialAt, OneBatchAtATime
<1>2. QED
  BY <1>1, SerialInvariant, PTL

-----------------------------------------------------------------------------
\* OneOf picks the element of a singleton ...
LEMMA OneOfSingleton == \A b : OneOf({b}) = b
BY DEF OneOf

\* ... and the empty batch if there is none.
LEMMA OneOfEmpty == OneOf({}) = <<>>
BY DEF OneOf

\* The taken batch is what fire flushed and no run started yet.
OrderInv == \A s \in Scopes : started[s] \o OneOf(taken[s]) = flushed[s]

\* Started, taken and buffered messages make up the pushed ones, in order.
LEMMA OrderInvariant == ASSUME PromptHandoff PROVE QueueSpec => []OrderInv
<1>1. QueueInit => OrderInv
  BY OneOfEmpty, ConcatEmptySeq, EmptySeq DEF QueueInit, OrderInv, EmptyQueues
<1>2. QueueTypeOK /\ SerialInv /\ OrderInv /\ [QueueNext]_queueVars => OrderInv'
  <2> SUFFICES ASSUME QueueTypeOK, SerialInv, OrderInv, [QueueNext]_queueVars, NEW t \in Scopes
               PROVE  (started[t] \o OneOf(taken[t]) = flushed[t])'
    BY DEF OrderInv
  <2>0. CASE UNCHANGED <<started[t], taken[t], flushed[t]>>
    BY <2>0 DEF OrderInv
  <2> USE <2>0 DEF QueueTypeOK
  <2>1. ASSUME NEW s \in Scopes, NEW m \in Messages, Push(s, m)
        PROVE  (started[t] \o OneOf(taken[t]) = flushed[t])'
    BY <2>1 DEF Push
  <2>2. ASSUME NEW s \in Scopes, FireBatch(s)
        PROVE  (started[t] \o OneOf(taken[t]) = flushed[t])'
    <3>1. CASE s # t
      BY <2>2, <3>1 DEF FireBatch
    <3>2. CASE s = t
      <4>1. taken[t] = {}
        BY <2>2, <3>2 DEF FireBatch, SerialInv, SerialAt
      <4>2. taken'[t] = {buffer[t]}
        BY <2>2, <3>2, <4>1 DEF FireBatch
      <4>3. started[t] = flushed[t]
        <5>1. started[t] \in Seq(Messages) /\ started[t] \o OneOf(taken[t]) = flushed[t]
          BY DEF OrderInv
        <5>2. started[t] \o <<>> = started[t]
          BY <5>1, ConcatEmptySeq
        <5>3. QED
          BY <4>1, <5>1, <5>2, OneOfEmpty
      <4>4. started'[t] = started[t] /\ flushed'[t] = flushed[t] \o buffer[t]
        BY <2>2, <3>2 DEF FireBatch
      <4>5. QED
        BY <4>2, <4>3, <4>4, OneOfSingleton
    <3>3. QED
      BY <3>1, <3>2
  <2>3. ASSUME NEW s \in Scopes, BlockSome(s)
        PROVE  (started[t] \o OneOf(taken[t]) = flushed[t])'
    <3>1. PICK batch \in taken[s] : Block(s, batch)
      BY <2>3 DEF BlockSome
    <3>2. CASE s # t
      BY <3>1, <3>2 DEF Block
    <3>3. CASE s = t
      <4>1. taken[t] = {batch}
        BY <3>1, <3>3 DEF SerialInv, SerialAt
      <4>2. started[t] \o batch = flushed[t]
        BY <4>1, OneOfSingleton DEF OrderInv
      <4>3. started'[t] = flushed[t] /\ taken'[t] = {} /\ flushed'[t] = flushed[t]
        BY <3>1, <3>3, <4>1, <4>2 DEF Block
      <4>4. QED
        BY <4>3, OneOfEmpty, ConcatEmptySeq
    <3>4. QED
      BY <3>2, <3>3
  <2>4. ASSUME NEW s \in Scopes, Expire(s) \/ FireNothing(s) \/ UnblockSome(s)
        PROVE  (started[t] \o OneOf(taken[t]) = flushed[t])'
    BY <2>4 DEF Expire, FireNothing, UnblockSome, Unblock, history
  <2>5. CASE UNCHANGED queueVars
    BY <2>5 DEF queueVars, history
  <2>6. QED
    BY <2>1, <2>2, <2>3, <2>4, <2>5 DEF QueueNext, Fire
<1>3. QED
  BY <1>1, <1>2, QueueTypeCorrect, SerialInvariant, PTL DEF QueueSpec

\* A sequence is a prefix of every extension of it.
LEMMA PrefixOfConcat ==
  ASSUME NEW S, NEW u \in Seq(S), NEW v \in Seq(S)
  PROVE  IsPrefix(u, u \o v)
<1>1. Len(u) <= Len(u \o v)
  BY ConcatProperties, LenProperties
<1>2. SubSeq(u \o v, 1, Len(u)) = SubSeq(u, 1, Len(u))
  <2>1. CASE u = <<>>
    <3>1. Len(u) = 0
      BY <2>1
    <3>2. QED
      BY <3>1, SubSeqEmpty
  <2>2. CASE u # <<>>
    <3>1. 1 \in 1 .. Len(u) /\ Len(u) \in 1 .. Len(u)
      BY <2>2, LenProperties, EmptySeq
    <3>2. \A m, n \in 1 .. Len(u) : SubSeq(u \o v, m, n) = SubSeq(u, m, n)
      BY SubSeqOfConcat1
    <3>3. QED
      BY <3>1, <3>2
  <2>3. QED
    BY <2>1, <2>2
<1>3. QED
  BY <1>1, <1>2 DEF IsPrefix

\* Runs receive the messages of a scope in the order they were sent.
THEOREM RunsInOrderHolds == ASSUME PromptHandoff PROVE QueueSpec => []RunsInOrder
<1>1. QueueTypeOK /\ SerialInv /\ OrderInv /\ Conservation => RunsInOrder
  <2> SUFFICES ASSUME QueueTypeOK, SerialInv, OrderInv, Conservation, NEW s \in Scopes
               PROVE  IsPrefix(started[s], pushed[s])
    BY DEF RunsInOrder
  <2> DEFINE b == OneOf(taken[s])
  <2>1. b \in Seq(Messages)
    <3>1. CASE taken[s] = {}
      BY <3>1, OneOfEmpty, EmptySeq
    <3>2. CASE taken[s] # {}
      BY <3>2 DEF OneOf, QueueTypeOK, Batches
    <3>3. QED
      BY <3>1, <3>2
  <2>2. started[s] \in Seq(Messages) /\ buffer[s] \in Seq(Messages)
    BY DEF QueueTypeOK
  <2>3. pushed[s] = started[s] \o (b \o buffer[s])
    <3>1. (started[s] \o b) \o buffer[s] = pushed[s]
      BY DEF OrderInv, Conservation
    <3>2. \A u, v, w \in Seq(Messages) : (u \o v) \o w = u \o (v \o w)
      BY ConcatAssociative
    <3> HIDE DEF b
    <3>3. QED
      BY <2>1, <2>2, <3>1, <3>2
  <2> HIDE DEF b
  <2>4. b \o buffer[s] \in Seq(Messages)
    BY <2>1, <2>2, ConcatProperties
  <2>5. QED
    BY <2>2, <2>3, <2>4, PrefixOfConcat
<1>2. QED
  BY <1>1, QueueTypeCorrect, SerialInvariant, OrderInvariant, ConservationHolds, PTL

-----------------------------------------------------------------------------
\* Taking a non-empty prefix u off a sequence leaves what followed it.
LEMMA SplitConcat ==
  ASSUME NEW S, NEW u \in Seq(S), NEW v \in Seq(S), u # <<>>
  PROVE  /\ Len(u) \in DOMAIN (u \o v)
         /\ SubSeq(u \o v, 1, Len(u)) = u
         /\ SubSeq(u \o v, Len(u) + 1, Len(u \o v)) = v
<1> DEFINE w == u \o v
<1>1. /\ w \in Seq(S) /\ Len(w) = Len(u) + Len(v)
      /\ \A i \in 1 .. Len(u) + Len(v) :
            w[i] = IF i <= Len(u) THEN u[i] ELSE v[i - Len(u)]
  BY ConcatProperties
<1>2. Len(u) \in Nat /\ Len(v) \in Nat /\ Len(u) >= 1
  BY LenProperties, EmptySeq
<1>3. DOMAIN w = 1 .. Len(w) /\ \A i \in 1 .. Len(w) : w[i] \in S
  BY <1>1, LenProperties, ElementOfSeq
<1> HIDE DEF w
<1>4. Len(u) \in DOMAIN w
  BY <1>1, <1>2, <1>3
<1>5. SubSeq(w, 1, Len(u)) = u
  <2>1. \A m, n \in Int : (\A i \in m .. n : w[i] \in S) =>
          /\ SubSeq(w, m, n) \in Seq(S)
          /\ Len(SubSeq(w, m, n)) = IF m <= n THEN n - m + 1 ELSE 0
          /\ \A i \in 1 .. n - m + 1 : SubSeq(w, m, n)[i] = w[m + i - 1]
    BY SubSeqProperties
  <2>2. /\ SubSeq(w, 1, Len(u)) \in Seq(S)
        /\ Len(SubSeq(w, 1, Len(u))) = Len(u)
        /\ \A i \in 1 .. Len(u) : SubSeq(w, 1, Len(u))[i] = u[i]
    BY <1>1, <1>2, <1>3, <2>1
  <2>3. \A a, b \in Seq(S) :
          Len(a) = Len(b) /\ (\A i \in 1 .. Len(a) : a[i] = b[i]) => a = b
    BY SeqEqual
  <2>4. QED
    BY <2>2, <2>3
<1>6. SubSeq(w, Len(u) + 1, Len(w)) = v
  <2>1. \A m, n \in Int : (\A i \in m .. n : w[i] \in S) =>
          /\ SubSeq(w, m, n) \in Seq(S)
          /\ Len(SubSeq(w, m, n)) = IF m <= n THEN n - m + 1 ELSE 0
          /\ \A i \in 1 .. n - m + 1 : SubSeq(w, m, n)[i] = w[m + i - 1]
    BY SubSeqProperties
  <2>2. /\ SubSeq(w, Len(u) + 1, Len(w)) \in Seq(S)
        /\ Len(SubSeq(w, Len(u) + 1, Len(w))) = Len(v)
        /\ \A i \in 1 .. Len(v) : SubSeq(w, Len(u) + 1, Len(w))[i] = v[i]
    <3> DEFINE k == Len(u) + 1
    <3>1. k \in Int /\ Len(w) \in Int /\ Len(w) - k + 1 = Len(v)
      BY <1>1, <1>2
    <3>2. \A i \in k .. Len(w) : w[i] \in S
      BY <1>2, <1>3
    <3>3. /\ SubSeq(w, k, Len(w)) \in Seq(S)
          /\ Len(SubSeq(w, k, Len(w))) = IF k <= Len(w) THEN Len(w) - k + 1 ELSE 0
          /\ \A i \in 1 .. Len(v) : SubSeq(w, k, Len(w))[i] = w[k + i - 1]
      <4> HIDE DEF k
      <4>1. QED
        BY <2>1, <3>1, <3>2
    <3>4. Len(SubSeq(w, k, Len(w))) = Len(v)
      BY <1>1, <1>2, <3>3
    <3>5. ASSUME NEW i \in 1 .. Len(v) PROVE w[k + i - 1] = v[i]
      <4>1. /\ k + i - 1 = Len(u) + i /\ (Len(u) + i) - Len(u) = i
            /\ Len(u) + i \in 1 .. Len(u) + Len(v) /\ ~(Len(u) + i <= Len(u))
        BY <1>2
      <4>2. w[Len(u) + i] = v[(Len(u) + i) - Len(u)]
        BY <1>1, <4>1
      <4>3. QED
        BY <4>1, <4>2
    <3>6. QED
      BY <3>3, <3>4, <3>5
  <2>3. \A a, b \in Seq(S) :
          Len(a) = Len(b) /\ (\A i \in 1 .. Len(a) : a[i] = b[i]) => a = b
    BY SeqEqual
  <2>4. QED
    BY <2>2, <2>3
<1>7. QED
  BY <1>4, <1>5, <1>6 DEF w

\* With a prompt handoff PendingQueue implements SerialBatcher: Push is Accept,
\* Block is Start, Unblock is Finish, and every other step is invisible.
THEOREM Refinement == ASSUME PromptHandoff PROVE QueueSpec => ImplementsSerialBatcher
<1>1. QueueInit => Serial!Init
  BY OneOfEmpty, ConcatEmptySeq, EmptySeq
     DEF QueueInit, EmptyQueues, Serial!Init, Waiting, Current
<1>2. QueueTypeOK /\ SerialInv /\ [QueueNext]_queueVars => [Serial!Next]_(Serial!vars)
  <2> SUFFICES ASSUME QueueTypeOK, SerialInv, [QueueNext]_queueVars
               PROVE  Serial!Next \/ UNCHANGED <<Waiting, Current>>
    BY DEF Serial!vars
  <2>0. \A t \in Scopes : /\ buffer[t] \in Seq(Messages)
                          /\ OneOf(taken[t]) \in Seq(Messages)
    <3>1. ASSUME NEW t \in Scopes PROVE OneOf(taken[t]) \in Seq(Messages)
      <4>1. CASE taken[t] = {}
        BY <4>1, OneOfEmpty, EmptySeq
      <4>2. CASE taken[t] # {}
        BY <4>2 DEF OneOf, QueueTypeOK, Batches
      <4>3. QED
        BY <4>1, <4>2
    <3>2. QED
      BY <3>1 DEF QueueTypeOK
  <2>1. ASSUME NEW s \in Scopes, NEW m \in Messages, Push(s, m) PROVE Serial!Next
    <3>1. \A u, v \in Seq(Messages) : u \o Append(v, m) = Append(u \o v, m)
      BY AppendToSuffix
    <3>2. Waiting' = [Waiting EXCEPT ![s] = Append(@, m)]
      BY <2>0, <2>1, <3>1 DEF Push, Waiting, QueueTypeOK
    <3>3. Current' = Current
      BY <2>1 DEF Push, Current
    <3>4. QED
      BY <3>2, <3>3 DEF Serial!Next, Serial!Accept
  <2>2. ASSUME NEW s \in Scopes, FireBatch(s) PROVE UNCHANGED <<Waiting, Current>>
    <3>1. taken[s] = {}
      BY <2>2 DEF FireBatch, SerialInv, SerialAt
    <3>2. taken' = [taken EXCEPT ![s] = {buffer[s]}]
      BY <2>2, <3>1 DEF FireBatch, QueueTypeOK
    <3>3. /\ OneOf(taken[s]) \o buffer[s] = buffer[s]
          /\ OneOf({buffer[s]}) \o <<>> = buffer[s]
      <4>1. \A u \in Seq(Messages) : u \o <<>> = u /\ <<>> \o u = u
        BY ConcatEmptySeq
      <4>2. OneOf(taken[s]) = <<>> /\ OneOf({buffer[s]}) = buffer[s]
        BY <3>1, OneOfEmpty, OneOfSingleton
      <4>3. QED
        BY <2>0, <4>1, <4>2
    <3>4. Waiting' = Waiting
      BY <2>2, <3>2, <3>3 DEF FireBatch, Waiting, QueueTypeOK
    <3>5. Current' = Current
      BY <2>2 DEF FireBatch, Current
    <3>6. QED
      BY <3>4, <3>5
  <2>3. ASSUME NEW s \in Scopes, BlockSome(s) PROVE Serial!Next
    <3>1. PICK b \in taken[s] : Block(s, b)
      BY <2>3 DEF BlockSome
    <3>2. b \in Seq(Messages) /\ b # <<>> /\ buffer[s] \in Seq(Messages)
      BY <3>1 DEF QueueTypeOK, Batches
    <3>3. taken[s] = {b} /\ running[s] = {}
      BY <3>1 DEF SerialInv, SerialAt
    <3>4. Waiting[s] = b \o buffer[s] /\ Current[s] = <<>>
      BY <3>3, OneOfSingleton, OneOfEmpty DEF Waiting, Current
    <3>5. /\ taken' = [taken EXCEPT ![s] = {}] /\ running' = [running EXCEPT ![s] = {b}]
          /\ buffer' = buffer
      BY <3>1, <3>3 DEF Block, QueueTypeOK
    <3>6. <<>> \o buffer[s] = buffer[s]
      BY <3>2, ConcatEmptySeq
    <3>7. Waiting' = [Waiting EXCEPT ![s] = buffer[s]]
      BY <3>5, <3>6, OneOfEmpty DEF Waiting, QueueTypeOK
    <3>8. Current' = [Current EXCEPT ![s] = b]
      BY <3>5, OneOfSingleton DEF Current, QueueTypeOK
    <3>9. /\ Len(b) \in DOMAIN Waiting[s]
          /\ SubSeq(Waiting[s], 1, Len(b)) = b
          /\ SubSeq(Waiting[s], Len(b) + 1, Len(Waiting[s])) = buffer[s]
      BY <3>2, <3>4, SplitConcat
    <3>10. Serial!Start(s, Len(b))
      BY <3>4, <3>7, <3>8, <3>9 DEF Serial!Start
    <3>11. QED
      BY <3>9, <3>10 DEF Serial!Next
  <2>4. ASSUME NEW s \in Scopes, UnblockSome(s) PROVE Serial!Next
    <3>1. PICK b \in running[s] : Unblock(s, b)
      BY <2>4 DEF UnblockSome
    <3>2. running[s] = {b} /\ b # <<>>
      BY <3>1 DEF SerialInv, SerialAt, QueueTypeOK, Batches
    <3>3. Current[s] # <<>>
      BY <3>2, OneOfSingleton DEF Current
    <3>4. running' = [running EXCEPT ![s] = {}]
      BY <3>1, <3>2 DEF Unblock, QueueTypeOK
    <3>5. Current' = [Current EXCEPT ![s] = <<>>]
      BY <3>4, OneOfEmpty DEF Current, QueueTypeOK
    <3>6. Waiting' = Waiting
      BY <3>1 DEF Unblock, Waiting
    <3>7. QED
      BY <3>3, <3>5, <3>6 DEF Serial!Next, Serial!Finish
  <2>5. ASSUME NEW s \in Scopes, Expire(s) \/ FireNothing(s)
        PROVE  UNCHANGED <<Waiting, Current>>
    BY <2>5 DEF Expire, FireNothing, Waiting, Current
  <2>6. CASE UNCHANGED queueVars
    BY <2>6 DEF queueVars, Waiting, Current
  <2>7. QED
    BY <2>1, <2>2, <2>3, <2>4, <2>5, <2>6 DEF QueueNext, Fire
<1>3. QED
  BY <1>1, <1>2, QueueTypeCorrect, SerialInvariant, PTL
     DEF QueueSpec, ImplementsSerialBatcher, Serial!Spec
------------------------------------------------------------------------------

------------------------------------------------------------------------------
\* What Host does to the registry's variables: a thread's step, a dashboard's,
\* or the end of a process that never registered.
GiveUp(p) ==
  /\ life[p] = "new"
  /\ life' = [life EXCEPT ![p] = "dead"]
  /\ UNCHANGED <<file, lock, step, view, list, listed, dropped>>

RegistryNext ==
  \/ \E p \in Processes : Register(p) \/ Tick(p) \/ Deregister(p) \/ Die(p) \/ GiveUp(p)
  \/ \E t \in Threads : Lock(t) \/ Load(t) \/ Save(t)
  \/ \E r \in Readers : ListLoad(r) \/ ListProbe(r) \/ ListSave(r)

\* The threads of a process are threads.
LEMMA ThreadsOf == ASSUME NEW p \in Processes
                   PROVE  Main(p) \in Threads /\ Beat(p) \in Threads
  BY DEF Main, Beat, Threads

\* A step of Host is a step of the registry or leaves it alone.
LEMMA HostIsRegistry == [Next]_hostVars => [RegistryNext]_vars
  <1> SUFFICES ASSUME [Next]_hostVars PROVE [RegistryNext]_vars
    OBVIOUS
  <1>1. ASSUME NEW p \in Processes, Acquire(p) PROVE UNCHANGED vars
    BY <1>1 DEF Acquire
  <1>2. ASSUME NEW p \in Processes, StartFails(p) PROVE GiveUp(p)
    BY <1>2 DEF StartFails, GiveUp
  <1>3. ASSUME NEW p \in Processes, Enlist(p) PROVE Register(p)
    BY <1>3 DEF Enlist
  <1>4. ASSUME NEW p \in Processes, MainStep(p)
        PROVE  UNCHANGED vars \/ Deregister(p) \/ Die(p)
    BY <1>4 DEF MainStep, Supervise, Leave, Release, Exit
  <1>5. ASSUME NEW p \in Processes, Signal(p) PROVE UNCHANGED vars
    BY <1>5 DEF Signal
  <1>6. ASSUME NEW p \in Processes, Killed(p) PROVE Die(p)
    BY <1>6 DEF Killed
  <1>7. ASSUME NEW p \in Processes, RegistryStep(p)
        PROVE  Tick(p) \/ \E t \in Threads : Lock(t) \/ Load(t) \/ Save(t)
    BY <1>7, ThreadsOf DEF RegistryStep, Edit
  <1>8. ASSUME NEW p \in Processes, SupervisorStep(p) PROVE UNCHANGED vars
    BY <1>8 DEF SupervisorStep
  <1>9. ASSUME NEW r \in Readers, Dashboard(r)
        PROVE  ListLoad(r) \/ ListProbe(r) \/ ListSave(r)
    BY <1>9 DEF Dashboard, List
  <1>10. CASE UNCHANGED hostVars
    BY <1>10 DEF hostVars
  <1> QED
    BY <1>1, <1>2, <1>3, <1>4, <1>5, <1>6, <1>7, <1>8, <1>9, <1>10 DEF Next, RegistryNext

------------------------------------------------------------------------------
\* Main edits the file only to register and to deregister.
MainIsBusy == \A p \in Processes :
  step[Main(p)] # "idle" => life[p] \in {"starting", "closing"}

\* Steps of the registry keep MainIsBusy.
LEMMA MainIsBusyStep == TypeOK /\ MainIsBusy /\ [RegistryNext]_vars => MainIsBusy'
  <1> SUFFICES ASSUME TypeOK, MainIsBusy, [RegistryNext]_vars PROVE MainIsBusy'
    OBVIOUS
  <1> USE DEF TypeOK, MainIsBusy
  <1>0. \A p, q \in Processes : /\ Main(p) # Beat(q)
                                /\ Main(p) = Main(q) <=> p = q
                                /\ Main(p)[1] = p
    BY DEF Main, Beat
  <1>1. ASSUME NEW p \in Processes, Register(p) \/ Tick(p) \/ Deregister(p)
        PROVE  MainIsBusy'
    BY <1>0, <1>1, ThreadsOf DEF Register, Tick, Deregister, Goto
  <1>2. ASSUME NEW p \in Processes, Die(p) PROVE MainIsBusy'
    BY <1>0, <1>2, ThreadsOf DEF Die
  <1>3. ASSUME NEW p \in Processes, GiveUp(p) PROVE MainIsBusy'
    BY <1>3, ThreadsOf DEF GiveUp
  <1>4. ASSUME NEW t \in Threads, Lock(t) \/ Load(t) PROVE MainIsBusy'
    BY <1>4, ThreadsOf DEF Lock, Load, Goto
  <1>5. ASSUME NEW t \in Threads, Save(t) PROVE MainIsBusy'
    <2>1. t[1] \in Processes /\ (t[2] = "main" => t = Main(t[1]))
      BY DEF Threads, Main
    <2>2. ASSUME NEW q \in Processes, step'[Main(q)] # "idle"
          PROVE  life'[q] \in {"starting", "closing"}
      <3>1. Main(q) # t /\ step[Main(q)] # "idle"
        BY <1>5, <2>2, ThreadsOf DEF Save, Goto
      <3>2. life'[q] = life[q]
        BY <1>5, <2>1, <3>1 DEF Save, Threads
      <3> QED BY <3>1, <3>2
    <2> QED BY <2>2
  <1>6. ASSUME NEW r \in Readers, ListLoad(r) \/ ListProbe(r) \/ ListSave(r) PROVE MainIsBusy'
    BY <1>6 DEF ListLoad, ListProbe, ListSave
  <1>7. CASE UNCHANGED vars
    BY <1>7 DEF vars
  <1> QED BY <1>1, <1>2, <1>3, <1>4, <1>5, <1>6, <1>7 DEF RegistryNext

\* The two are inductive together.
LEMMA BusyTypes == Spec => [](TypeOK /\ MainIsBusy)
  <1> USE RegistryAssumption
  <1>1. HostInit => TypeOK /\ MainIsBusy
    BY ThreadsOf DEF HostInit, Init, TypeOK, MainIsBusy
  <1>2. TypeOK /\ MainIsBusy /\ [RegistryNext]_vars => TypeOK'
    <2> SUFFICES ASSUME TypeOK, MainIsBusy, [RegistryNext]_vars PROVE TypeOK'
      OBVIOUS
    <2> USE DEF TypeOK
    <2>1. ASSUME NEW p \in Processes, Register(p) PROVE TypeOK'
      BY <2>1, ThreadsOf DEF Register, Goto, MainIsBusy
    <2>2. ASSUME NEW p \in Processes, Tick(p) PROVE TypeOK'
      BY <2>2, ThreadsOf DEF Tick, Goto
    <2>3. ASSUME NEW p \in Processes, Deregister(p) PROVE TypeOK'
      BY <2>3, ThreadsOf DEF Deregister, Goto, MainIsBusy
    <2>4. ASSUME NEW p \in Processes, Die(p) PROVE TypeOK'
      <3>1. \A t \in Threads : t[1] = p <=> t \in {Main(p), Beat(p)}
        BY DEF Threads, Main, Beat
      <3> QED BY <2>4, <3>1 DEF Die
    <2>5. ASSUME NEW p \in Processes, GiveUp(p) PROVE TypeOK'
      BY <2>5 DEF GiveUp
    <2>6. ASSUME NEW t \in Threads, Lock(t) PROVE TypeOK'
      BY <2>6 DEF Lock, Goto
    <2>7. ASSUME NEW t \in Threads, Load(t) PROVE TypeOK'
      BY <2>7 DEF Load, Goto
    <2>8. ASSUME NEW t \in Threads, Save(t) PROVE TypeOK'
      <3>1. t[1] \in Processes
        BY DEF Threads
      <3>2. Edited(t) \subseteq Processes
        BY <3>1 DEF Edited
      <3> QED BY <2>8, <3>1, <3>2 DEF Save, Goto
    <2>9. ASSUME NEW r \in Readers, ListLoad(r) \/ ListProbe(r) \/ ListSave(r) PROVE TypeOK'
      BY <2>9 DEF ListLoad, ListProbe, ListSave
    <2>10. CASE UNCHANGED vars
      BY <2>10 DEF vars
    <2> QED
      BY <2>1, <2>2, <2>3, <2>4, <2>5, <2>6, <2>7, <2>8, <2>9, <2>10 DEF RegistryNext
  <1> QED BY <1>1, <1>2, MainIsBusyStep, HostIsRegistry, PTL DEF Spec

\* Values stay in range, and at most one thread is at the file, the one that
\* holds the lock: TypeOK of Registry holds in every reachable state of Host.
THEOREM TypeCorrect == Spec => []TypeOK
  BY BusyTypes, PTL

------------------------------------------------------------------------------
\* A thread that is about to save overwrites no process that works, except one
\* that a dashboard has just dropped, and its own, which it puts back.
NoneForgotten == \A t \in Threads, p \in Processes :
  step[t] = "loaded" /\ life[p] = "up" => p \in view[t] \cup dropped \cup {t[1]}

ListInv == TypeOK /\ MainIsBusy /\ UpIsListed /\ NoneForgotten

\* What a save does to the processes that work: its own is listed, and another
\* is in what the thread had loaded or was dropped.
LEMMA SaveStep ==
  ASSUME ListInv, NEW t \in Threads, Save(t)
  PROVE  UpIsListed' /\ NoneForgotten'
  <1> USE DEF ListInv, TypeOK
  <1>1. t[1] \in Processes /\ (t[2] = "main" => t = Main(t[1]))
    BY DEF Threads, Main
  <1>2. lock = t /\ \A u \in Threads : step'[u] # "loaded"
    BY RegistryAssumption DEF Save, Goto
  <1>3. NoneForgotten'
    BY <1>2 DEF NoneForgotten
  <1>4. ASSUME NEW p \in Processes, life'[p] = "up" PROVE p \in file' \cup dropped'
    <2>1. CASE p = t[1]
      <3>1. ~(t[2] = "main" /\ life[p] = "closing")
        BY <1>1, <1>4, <2>1 DEF Save
      <3> QED BY <2>1, <3>1 DEF Save, Edited
    <2>2. CASE p # t[1]
      <3>1. life[p] = "up"
        BY <1>1, <1>4, <2>2 DEF Save
      <3>2. p \in view[t] \cup dropped
        BY <2>2, <3>1 DEF Save, NoneForgotten
      <3> QED BY <2>2, <3>2 DEF Save, Edited
    <2> QED BY <2>1, <2>2
  <1> QED BY <1>3, <1>4 DEF UpIsListed

\* Steps of the registry keep what the two conjuncts say of working processes.
LEMMA ListedStep == ListInv /\ [RegistryNext]_vars => UpIsListed' /\ NoneForgotten'
  <1> SUFFICES ASSUME ListInv, [RegistryNext]_vars PROVE UpIsListed' /\ NoneForgotten'
    OBVIOUS
  <1> USE DEF ListInv, TypeOK, UpIsListed, NoneForgotten
  <1>1. ASSUME NEW p \in Processes, Register(p) \/ Tick(p) \/ Deregister(p)
        PROVE  UpIsListed' /\ NoneForgotten'
    BY <1>1, ThreadsOf DEF Register, Tick, Deregister, Goto
  <1>2. ASSUME NEW p \in Processes, Die(p) PROVE UpIsListed' /\ NoneForgotten'
    BY <1>2 DEF Die
  <1>3. ASSUME NEW p \in Processes, GiveUp(p) PROVE UpIsListed' /\ NoneForgotten'
    BY <1>3 DEF GiveUp
  <1>4. ASSUME NEW t \in Threads, Lock(t) PROVE UpIsListed' /\ NoneForgotten'
    BY <1>4 DEF Lock, Goto
  <1>5. ASSUME NEW t \in Threads, Load(t) PROVE UpIsListed' /\ NoneForgotten'
    BY <1>5 DEF Load, Goto
  <1>6. ASSUME NEW t \in Threads, Save(t) PROVE UpIsListed' /\ NoneForgotten'
    BY <1>6, SaveStep
  <1>7. ASSUME NEW r \in Readers, ListLoad(r) \/ ListProbe(r) \/ ListSave(r)
        PROVE  UpIsListed' /\ NoneForgotten'
    BY <1>7 DEF ListLoad, ListProbe, ListSave
  <1>8. CASE UNCHANGED vars
    BY <1>8 DEF vars
  <1> QED BY <1>1, <1>2, <1>3, <1>4, <1>5, <1>6, <1>7, <1>8 DEF RegistryNext

\* The invariant behind the registry's promise holds in every reachable state.
LEMMA ListInvHolds == Spec => []ListInv
  <1>1. HostInit => UpIsListed /\ NoneForgotten
    BY ThreadsOf DEF HostInit, Init, UpIsListed, NoneForgotten
  <1>2. ListInv /\ [Next]_hostVars => UpIsListed' /\ NoneForgotten'
    BY HostIsRegistry, ListedStep
  <1>3. TypeOK /\ MainIsBusy /\ UpIsListed /\ NoneForgotten <=> ListInv
    BY DEF ListInv
  <1> QED BY <1>1, <1>2, <1>3, BusyTypes, PTL DEF Spec

\* Any number of processes, heartbeats and kills leave every working process in
\* the list, unless a dashboard dropped it: UpIsListed holds.
THEOREM UpIsListedHolds == Spec => []UpIsListed
  BY ListInvHolds, PTL DEF ListInv

------------------------------------------------------------------------------
\* Where Run is at work, and where the client it made may be connected.
Active == {"create", "handshake", "watch", "backoff"}

ConnectionTypeOK ==
  /\ plan \in Plans
  /\ owner \in [Profiles -> Processes \cup {Nobody}]
  /\ sup \in [Processes -> Active \cup {"off", "over"}]
  /\ conn \in [Processes -> {"none", "dialing", "open", "lost", "gone", "closed"}]
  /\ left \in [Processes -> BOOLEAN]

\* Run closes its client before it goes on to make another or returns.
ClosedBefore == \A p \in Processes :
  /\ conn[p] \in Sup!Connected => sup[p] \in {"handshake", "watch"}
  /\ ~left[p]

\* Run works in a registered process, which has the lock of its profile.
LockIsHeld == \A p \in Processes :
  /\ sup[p] \in Active => life[p] = "up"
  /\ life[p] \in {"starting", "up", "closing"} => Holds(p)

ConnectionInv == ConnectionTypeOK /\ ClosedBefore /\ LockIsHeld

\* What Host does to the variables of a supervisor.
SupervisorNext(p) ==
  \/ Sup!Begin(p) \/ Sup!Create(p) \/ Sup!Shaken(p) \/ Sup!BackOff(p)
  \/ Sup!SawStop(p) \/ Sup!SawDone(p) \/ Sup!HandshakeTimeout(p)
  \/ Sup!ProbeOk(p) \/ Sup!ProbeFails(p) \/ Sup!Sdk(p)
  \/ Sup!StopFlag(p) \/ Sup!StopClose(p) \/ Sup!Vanish(p)

\* A step of a supervisor closes what it leaves, and no supervisor but one that
\* begins gets to work.
LEMMA SupervisorStepKeeps ==
  ASSUME ConnectionTypeOK, ClosedBefore, NEW p \in Processes, SupervisorNext(p)
  PROVE  /\ sup' \in [Processes -> Active \cup {"off", "over"}]
         /\ conn' \in [Processes -> {"none", "dialing", "open", "lost", "gone", "closed"}]
         /\ left' \in [Processes -> BOOLEAN]
         /\ ClosedBefore'
         /\ \A q \in Processes : sup'[q] \in Active => sup[q] \in Active \/ (q = p /\ Sup!Begin(p))
  <1> USE DEF ConnectionTypeOK, ClosedBefore, Active, Sup!Connected, Sup!Move, Sup!Become,
              Sup!At, Sup!Unless
  <1>1. CASE Sup!Begin(p)
    BY <1>1 DEF Sup!Begin
  <1>2. CASE Sup!Create(p)
    BY <1>2 DEF Sup!Create
  <1>3. CASE Sup!Shaken(p)
    BY <1>3 DEF Sup!Shaken
  <1>4. CASE Sup!BackOff(p)
    BY <1>4 DEF Sup!BackOff
  <1>5. CASE Sup!SawStop(p)
    BY <1>5 DEF Sup!SawStop
  <1>6. CASE Sup!SawDone(p)
    BY <1>6 DEF Sup!SawDone
  <1>7. CASE Sup!HandshakeTimeout(p)
    BY <1>7 DEF Sup!HandshakeTimeout
  <1>8. CASE Sup!ProbeOk(p)
    BY <1>8 DEF Sup!ProbeOk
  <1>9. CASE Sup!ProbeFails(p)
    BY <1>9 DEF Sup!ProbeFails
  <1>10. CASE Sup!Sdk(p)
    BY <1>10 DEF Sup!Sdk
  <1>11. CASE Sup!StopFlag(p)
    BY <1>11 DEF Sup!StopFlag
  <1>12. CASE Sup!StopClose(p)
    BY <1>12 DEF Sup!StopClose
  <1>13. CASE Sup!Vanish(p)
    BY <1>13 DEF Sup!Vanish
  <1> QED
    BY <1>1, <1>2, <1>3, <1>4, <1>5, <1>6, <1>7, <1>8, <1>9, <1>10, <1>11, <1>12, <1>13
       DEF SupervisorNext

\* Freeing the locks of one process leaves those of the others.
LEMMA FreedKeeps ==
  ASSUME ConnectionTypeOK, NEW p \in Processes
  PROVE  /\ Freed(p) \in [Profiles -> Processes \cup {Nobody}]
         /\ \A q \in Processes \ {p}, f \in Profiles : owner[f] = q => Freed(p)[f] = q
  BY DEF ConnectionTypeOK, Freed

\* What becomes of the connections when no supervisor moves.
LEMMA StillKeeps ==
  ASSUME ConnectionTypeOK, ClosedBefore, UNCHANGED supVars
  PROVE  /\ sup' = sup /\ sup' \in [Processes -> Active \cup {"off", "over"}]
         /\ conn' \in [Processes -> {"none", "dialing", "open", "lost", "gone", "closed"}]
         /\ left' \in [Processes -> BOOLEAN]
         /\ ClosedBefore'
  BY DEF ConnectionTypeOK, ClosedBefore, supVars

\* Every step of Host keeps the connection's invariant.
LEMMA ConnectionStep == ListInv /\ ConnectionInv /\ [Next]_hostVars => ConnectionInv'
  <1> SUFFICES ASSUME TypeOK, MainIsBusy, ConnectionInv, [Next]_hostVars PROVE ConnectionInv'
    BY DEF ListInv
  <1> USE HostAssumption DEF ConnectionInv
  <1>0. plan.of \in [Processes -> Profiles]
    BY DEF ConnectionTypeOK
  <1>1. ASSUME NEW p \in Processes, Acquire(p) PROVE ConnectionInv'
    BY <1>0, <1>1, StillKeeps DEF Acquire, vars, LockIsHeld, ConnectionTypeOK, Holds, TypeOK
  <1>2. ASSUME NEW p \in Processes, StartFails(p) PROVE ConnectionInv'
    BY <1>0, <1>2, StillKeeps, FreedKeeps DEF StartFails, LockIsHeld, ConnectionTypeOK, Holds, TypeOK
  <1>3. ASSUME NEW p \in Processes, Enlist(p) PROVE ConnectionInv'
    BY <1>0, <1>3, StillKeeps DEF Enlist, Register, lockVars, LockIsHeld, ConnectionTypeOK, Holds, TypeOK
  <1>4. ASSUME NEW p \in Processes, Supervise(p) PROVE ConnectionInv'
    BY <1>0, <1>4, SupervisorStepKeeps
       DEF Supervise, SupervisorNext, vars, lockVars, LockIsHeld, ConnectionTypeOK, Holds
  <1>5. ASSUME NEW p \in Processes, Leave(p) PROVE ConnectionInv'
    <2>1. /\ sup[p] = "over" /\ life[p] = "up" /\ life' = [life EXCEPT ![p] = "closing"]
          /\ plan' = plan /\ owner' = owner /\ UNCHANGED supVars
      BY <1>5 DEF Leave, Deregister, lockVars
    <2>2. ConnectionTypeOK' /\ ClosedBefore' /\ sup' = sup
      BY <2>1, StillKeeps DEF ConnectionTypeOK
    <2>3. LockIsHeld'
      BY <2>1, <2>2 DEF LockIsHeld, Holds, TypeOK, Active
    <2> QED BY <2>2, <2>3
  <1>6. ASSUME NEW p \in Processes, Release(p) PROVE ConnectionInv'
    <2>1. /\ life[p] = "leaving" /\ life' = life /\ owner' = Freed(p)
          /\ plan' = plan /\ UNCHANGED supVars
      BY <1>6 DEF Release, vars
    <2>2. ConnectionTypeOK' /\ ClosedBefore' /\ sup' = sup
      BY <2>1, StillKeeps, FreedKeeps DEF ConnectionTypeOK
    <2>3. LockIsHeld'
      BY <1>0, <2>1, <2>2, FreedKeeps DEF LockIsHeld, Holds, Active
    <2> QED BY <2>2, <2>3
  <1>7. ASSUME NEW p \in Processes, Exit(p) \/ Killed(p) PROVE ConnectionInv'
    <2>1. Sup!Vanish(p) /\ Die(p) /\ plan' = plan
      BY <1>7 DEF Exit, Killed, lockVars
    <2>2. /\ owner' \in [Profiles -> Processes \cup {Nobody}]
          /\ \A q \in Processes \ {p}, f \in Profiles : owner[f] = q => owner'[f] = q
      BY <1>7, FreedKeeps DEF Exit, Killed, lockVars, ConnectionTypeOK
    <2>3. sup'[p] = "over" /\ life' = [life EXCEPT ![p] = "dead"]
      BY <2>1 DEF Sup!Vanish, Sup!Move, Die, ConnectionTypeOK
    <2> QED
      BY <1>0, <2>1, <2>2, <2>3, SupervisorStepKeeps
         DEF SupervisorNext, LockIsHeld, ConnectionTypeOK, Holds, TypeOK, Active, Sup!Begin
  <1>8. ASSUME NEW p \in Processes, Signal(p) PROVE ConnectionInv'
    BY <1>0, <1>8, SupervisorStepKeeps
       DEF Signal, SupervisorNext, vars, lockVars, LockIsHeld, ConnectionTypeOK, Holds
  <1>9. ASSUME NEW p \in Processes, RegistryStep(p) PROVE ConnectionInv'
    <2>1. ASSUME NEW q \in Processes
          PROVE  life'[q] = life[q] \/ (life[q] = "starting" /\ life'[q] = "up")
                 \/ (life[q] = "closing" /\ life'[q] = "leaving")
      <3>1. life' = life \/ \E t \in Threads : Save(t)
        BY <1>9, ThreadsOf DEF RegistryStep, Tick, Lock, Edit, Load
      <3>2. ASSUME NEW t \in Threads, Save(t), t[2] # "beat"
            PROVE  life[t[1]] \in {"starting", "closing"} /\ t[1] \in Processes
        BY <3>2 DEF Threads, Save, MainIsBusy, Main
      <3> QED BY <3>1, <3>2 DEF Save, TypeOK
    <2> QED
      BY <1>0, <1>9, <2>1, StillKeeps
         DEF RegistryStep, lockVars, LockIsHeld, ConnectionTypeOK, Holds, Active
  <1>10. ASSUME NEW p \in Processes, SupervisorStep(p) PROVE ConnectionInv'
    <2>1. SupervisorNext(p)
      BY <1>10 DEF SupervisorStep, SupervisorNext, Sup!Loop, Sup!Probe
    <2>2. ~Sup!Begin(p)
      <3>1. sup[p] # "off" \/ sup' = sup
        BY <1>10 DEF SupervisorStep, Sup!Loop, Sup!Probe, Sup!At, Sup!Create, Sup!Shaken,
           Sup!BackOff, Sup!SawStop, Sup!SawDone, Sup!StopClose, Sup!ProbeOk, Sup!ProbeFails,
           Sup!HandshakeTimeout, Sup!Sdk
      <3>2. Sup!Begin(p) => sup[p] = "off" /\ sup'[p] # "off"
        BY DEF Sup!Begin, Sup!At, Sup!Unless, Sup!Move, ConnectionTypeOK
      <3> QED BY <3>1, <3>2
    <2> QED
      BY <1>0, <1>10, <2>1, <2>2, SupervisorStepKeeps
         DEF SupervisorStep, vars, lockVars, LockIsHeld, ConnectionTypeOK, Holds
  <1>11. ASSUME NEW r \in Readers, Dashboard(r) PROVE ConnectionInv'
    <2>1. life' = life
      BY <1>11 DEF Dashboard, List, ListLoad, ListProbe, ListSave
    <2> QED
      BY <1>0, <1>11, <2>1, StillKeeps DEF Dashboard, lockVars, LockIsHeld, ConnectionTypeOK, Holds
  <1>12. CASE UNCHANGED hostVars
    BY <1>0, <1>12, StillKeeps DEF hostVars, vars, lockVars, LockIsHeld, ConnectionTypeOK, Holds
  <1> QED
    BY <1>1, <1>2, <1>3, <1>4, <1>5, <1>6, <1>7, <1>8, <1>9, <1>10, <1>11, <1>12 DEF Next, MainStep

\* It holds in every reachable state.
LEMMA ConnectionInvHolds == Spec => []ConnectionInv
  <1>1. HostInit => ConnectionInv
    BY HostAssumption DEF HostInit, Init, Sup!SupInit, ConnectionInv, ConnectionTypeOK, ClosedBefore,
       LockIsHeld, Active, Sup!Connected
  <1> QED BY <1>1, ConnectionStep, ListInvHolds, PTL DEF Spec

\* Whatever number of processes run for a profile, and however often they lose
\* and rebuild their connection, one client at most is connected: OneConnection.
THEOREM OneConnectionHolds == Spec => []OneConnection
  <1>1. ConnectionInv => OneConnection
    <2> SUFFICES ASSUME ConnectionInv PROVE OneConnection
      OBVIOUS
    <2>1. ASSUME NEW p \in Processes, conn[p] \in Sup!Connected PROVE owner[plan.of[p]] = p
      BY <2>1 DEF ConnectionInv, ClosedBefore, LockIsHeld, Active, Holds
    <2> QED BY <2>1 DEF OneConnection, ConnectionInv, ClosedBefore
  <1> QED BY <1>1, ConnectionInvHolds, PTL

------------------------------------------------------------------------------
(***************************************************************************)
(* Bindings: its types, ChosenStays and AnnouncedIsReused.  What is proved *)
(* for each session that no two commands worked on at once: what was       *)
(* answered is bound and on disk, and the one command that works on the    *)
(* session forgets the answer before it touches the binding.               *)
(***************************************************************************)
Own == {"bind", "force", "open"}   \* operations about one session ...
Away == {"unbind", "new"}          \* ... and those that give a chat up

Works(c) == todo[c] # << >>

\* Which call may come after which in a command about a session.
Follows == {<<"evict", "unlink">>, <<"evict", "create">>, <<"unlink", "adopt">>,
            <<"unlink", "evict">>, <<"adopt", "save_sess">>, <<"save_sess", "link">>,
            <<"save_sess", "displace">>, <<"displace", "link">>, <<"link", "save_bind">>,
            <<"save_bind", "reply">>, <<"save_bind", "card">>, <<"save_bind", "reuse">>}
Leaving == {"release", "save_bind", "leave", "save_sess"}

\* What a list of calls can be, and what the command that makes them is about.
Never(op) == {"release", "leave"} \cup
  (IF op = "open" THEN {"check", "reply"} ELSE {"lookup", "fallback", "reuse", "create", "card"})

Chained(t, op) ==
  /\ \A i \in 1..(Len(t) - 1) : <<t[i], t[i + 1]>> \in Follows
  /\ \A i \in 1..Len(t) : t[i] \notin Never(op)
  /\ t[Len(t)] \in {"check", "lookup", "fallback", "reuse", "create", "save_sess", "reply", "card"}

Shaped(c) == Works(c) =>
  /\ cmd[c].op \in Operations
  /\ cmd[c].op \in Away => /\ Id(c) = None /\ Chat(c) \in Chats
                           /\ \A i \in 1..Len(todo[c]) : todo[c][i] \in Leaving
  /\ cmd[c].op \in Own =>
       /\ Id(c) \in Ids /\ Chained(todo[c], cmd[c].op)
       /\ Head(todo[c]) \notin {"lookup", "create"} => Goal(c) \in Chats
       /\ todo[c][Len(todo[c])] = "card" => Goal(c) \in Groups
ShapeInv == \A c \in Commands : Shaped(c)

Ends == <<"set", "record", "save_sess", "save_bind">>
Endings == {<< >>, Ends, <<"record", "save_sess", "save_bind">>, <<"save_sess", "save_bind">>,
            <<"save_bind">>}

\* A run that ends has a session.
EndInv == \A s \in Chats : /\ ending[s] \in Endings
                           /\ ending[s] # << >> => run[s] \in Ids

\* Two commands on a session, or one next to a command that gives a chat up.
AloneInv == \A c, d \in Commands :
  c # d /\ Works(c) /\ Works(d) /\ Id(c) \in Ids /\ Id(d) \in {Id(c), None} => Id(c) \in raced

\* What was answered and told of a session.
Kept(x) ==
  /\ chosen[x] # None => bind[x] = chosen[x] /\ saved.bind[x] = chosen[x] /\ Live(chosen[x])
  /\ told[x] # None => told[x] = chosen[x] /\ told[x] \in Groups

\* How far the command c on the session x is.
Stage(c, x) ==
  /\ Len(todo[c]) > 1 \/ Head(todo[c]) \in {"fallback", "reply", "card"} => chosen[x] = None
  /\ Head(todo[c]) = "reuse" /\ chosen[x] # None => Found(c) = chosen[x]
  /\ Head(todo[c]) = "create" => told[x] = None
  /\ Head(todo[c]) \in {"save_bind", "reply", "card"} => bind[x] = Goal(c)
  /\ Head(todo[c]) \in {"reply", "card"} => saved.bind[x] = Goal(c)

Sure(x) ==
  /\ Kept(x)
  /\ \A c \in Commands : Works(c) /\ Id(c) = x => Stage(c, x)
  /\ \A c \in Commands : Works(c) /\ cmd[c].op \in Away => chosen[x] # Chat(c) \/ chosen[x] = None
SureInv == \A x \in Ids \ raced : Sure(x)

\* What a command gave a chat is the session that it continues, on disk but for
\* the moment before the save, and a run that ends there has it.
Sticks(s) == given[s] # None =>
  /\ sess[s] = given[s]
  /\ saved.sess[s] = given[s] \/ Unsaved(s)
  /\ ~Overwrites(s, given[s])
GivenInv == \A s \in Chats : Sticks(s)

IInv == BindTypeOK /\ ShapeInv /\ EndInv /\ AloneInv /\ SureInv /\ GivenInv

------------------------------------------------------------------------------
LEMMA Constants ==
  /\ None \notin Ids /\ None \notin Chats
  /\ Budgets \subseteq [ops : SUBSET Operations, commands : Nat, runs : Nat, crashes : Nat,
                      losses : Nat]
  BY BindingsAssumption

\* The lists that commands start with.
LEMMA Lists ==
  /\ \A op \in Operations : First[op] \in Seq(Calls) /\ First[op] # << >>
  /\ Adopting \in Seq(Calls) /\ Opening \in Seq(Calls)
  /\ <<"evict", "unlink">> \o Adopting \in Seq(Calls)
  /\ << >> \in Seq(Calls)
  <1>1. \A op \in Operations : First[op] \in Seq(Calls) /\ First[op] # << >>
    <2>1. First["open"] \in Seq(Calls) /\ First["open"] # << >>
      BY DEF First, Operations, Calls
    <2>2. First["unbind"] \in Seq(Calls) /\ First["unbind"] # << >>
      BY DEF First, Operations, Calls
    <2>3. First["new"] \in Seq(Calls) /\ First["new"] # << >>
      BY DEF First, Operations, Calls
    <2>4. First["bind"] \in Seq(Calls) /\ First["bind"] # << >>
      BY DEF First, Operations, Calls
    <2>5. First["force"] \in Seq(Calls) /\ First["force"] # << >>
      BY DEF First, Operations, Calls
    <2> QED
      BY <2>1, <2>2, <2>3, <2>4, <2>5 DEF Operations
  <1>2. Adopting \in Seq(Calls) /\ Opening \in Seq(Calls) /\ <<"evict", "unlink">> \in Seq(Calls)
    BY DEF Adopting, Opening, Calls
  <1>3. <<"evict", "unlink">> \o Adopting \in Seq(Calls)
    BY <1>2, ConcatProperties
  <1> QED
    BY <1>1, <1>2, <1>3

LEMMA ChainedLists ==
  /\ \A call \in {"lookup", "fallback", "reuse", "create", "save_sess"} : Chained(<<call>>, "open")
  /\ Chained(Opening, "open") /\ Chained(<<"save_bind", "reuse">>, "open")
  /\ Chained(<<"unlink", "evict", "create">>, "open")
  /\ \A op \in {"bind", "force"} : /\ Chained(<<"check">>, op) /\ Chained(Adopting, op)
                                  /\ Chained(<<"evict", "unlink">> \o Adopting, op)
  <1>1. \A call \in {"lookup", "fallback", "reuse", "create", "save_sess"} :
          Chained(<<call>>, "open")
    BY DEF Chained, Never
  <1>2. Chained(Opening, "open")
    BY DEF Chained, Opening, Follows, Never
  <1>3. Chained(<<"save_bind", "reuse">>, "open")
        /\ Chained(<<"unlink", "evict", "create">>, "open")
    BY DEF Chained, Follows, Never
  <1>4. ASSUME NEW op \in {"bind", "force"}
        PROVE  /\ Chained(<<"check">>, op) /\ Chained(Adopting, op)
               /\ Chained(<<"evict", "unlink">> \o Adopting, op)
    <2> DEFINE t == <<"evict", "unlink">> \o Adopting
    <2>10. op # "open"
      BY <1>4
    <2>11. Chained(<<"check">>, op)
      BY <2>10 DEF Chained, Never
    <2>12. Chained(Adopting, op)
      BY <2>10 DEF Chained, Never, Adopting, Follows
    <2>1. <<"evict", "unlink">> \in Seq(Calls) /\ Adopting \in Seq(Calls) /\ Len(Adopting) = 5
          /\ Adopting[1] = "adopt" /\ Len(<<"evict", "unlink">>) = 2
      BY DEF Calls, Adopting
    <2>2. /\ Len(t) = 7
          /\ \A i \in 1..7 : t[i] = IF i <= 2 THEN <<"evict", "unlink">>[i] ELSE Adopting[i - 2]
      <3> DEFINE s == <<"evict", "unlink">>
      <3>1. s \in Seq(Calls) /\ Adopting \in Seq(Calls) /\ Len(Adopting) = 5 /\ Len(s) = 2
        BY <2>1
      <3> HIDE DEF s
      <3>2. /\ Len(s \o Adopting) = Len(s) + Len(Adopting)
            /\ \A i \in 1..(Len(s) + Len(Adopting)) :
                 (s \o Adopting)[i] = IF i <= Len(s) THEN s[i] ELSE Adopting[i - Len(s)]
        BY <3>1, ConcatProperties
      <3>3. /\ Len(s \o Adopting) = 7
            /\ \A i \in 1..7 : (s \o Adopting)[i] = IF i <= 2 THEN s[i] ELSE Adopting[i - 2]
        BY <3>1, <3>2
      <3> QED
        BY <3>3 DEF s
    <2>3. /\ t[1] = "evict" /\ t[2] = "unlink" /\ t[3] = "adopt"
      BY <2>1, <2>2
    <2>4. \A i \in 3..7 : t[i] = Adopting[i - 2]
      BY <2>2
    <2> HIDE DEF t
    <2>5. \A i \in 1..(Len(t) - 1) : <<t[i], t[i + 1]>> \in Follows
      <3>1. SUFFICES ASSUME NEW i \in 1..6 PROVE <<t[i], t[i + 1]>> \in Follows
        BY <2>2
      <3>2. CASE i = 1
        BY <2>3, <3>2 DEF Follows
      <3>3. CASE i = 2
        BY <2>3, <3>3 DEF Follows
      <3>4. CASE i \in 3..6
        <4>1. i - 2 \in 1..(Len(Adopting) - 1) /\ t[i] = Adopting[i - 2]
              /\ t[i + 1] = Adopting[(i - 2) + 1]
          BY <2>1, <2>4, <3>4
        <4> QED
          BY <2>12, <4>1 DEF Chained
      <3> QED
        BY <3>1, <3>2, <3>3, <3>4
    <2>6. /\ \A i \in 1..Len(t) : t[i] \notin Never(op)
          /\ t[Len(t)] = "reply"
      <3>1. \A i \in 1..5 : Adopting[i] \notin Never(op)
        BY <2>12, <2>1 DEF Chained
      <3>2. Adopting[5] = "reply"
        BY DEF Adopting
      <3>3. t[7] = "reply"
        BY <2>4, <3>2
      <3>4. ASSUME NEW i \in 1..7 PROVE t[i] \notin Never(op)
        <4>1. CASE i \in 3..7
          BY <2>4, <3>1, <4>1
        <4>2. CASE i \in 1..2
          BY <2>3, <2>10, <4>2 DEF Never
        <4> QED
          BY <4>1, <4>2
      <3> QED
        BY <2>2, <3>3, <3>4
    <2> QED
      BY <2>5, <2>6, <2>11, <2>12 DEF Chained, t
  <1> QED
    BY <1>1, <1>2, <1>3, <1>4

\* A call is made: what is left is chained as before, and ends as before.
LEMMA Shorter ==
  ASSUME NEW t \in Seq(Calls), t # << >>
  PROVE  /\ Tail(t) \in Seq(Calls) /\ Len(Tail(t)) = Len(t) - 1 /\ Len(t) \in Nat \ {0}
         /\ Head(t) = t[1]
         /\ \A i \in 1..(Len(t) - 1) : Tail(t)[i] = t[i + 1]
         /\ Tail(t) = << >> <=> Len(t) = 1
         /\ Tail(t) # << >> => Head(Tail(t)) = t[2] /\ Tail(t)[Len(Tail(t))] = t[Len(t)]
  <1>1. /\ Tail(t) \in Seq(Calls) /\ Len(Tail(t)) = Len(t) - 1 /\ Len(t) \in Nat \ {0}
        /\ Head(t) = t[1]
        /\ \A i \in 1..(Len(t) - 1) : Tail(t)[i] = t[i + 1]
    OBVIOUS
  <1>2. Tail(t) = << >> <=> Len(t) = 1
    BY <1>1, EmptySeq
  <1>3. ASSUME Tail(t) # << >>
        PROVE  Head(Tail(t)) = t[2] /\ Tail(t)[Len(Tail(t))] = t[Len(t)]
    <2>1. Len(t) - 1 \in 1..(Len(t) - 1) /\ 1 \in 1..(Len(t) - 1)
      BY <1>1, <1>2, <1>3
    <2>2. Tail(t)[1] = t[2] /\ Tail(t)[Len(t) - 1] = t[Len(t)]
      BY <1>1, <2>1
    <2>3. \A s \in Seq(Calls) : s # << >> => Head(s) = s[1]
      OBVIOUS
    <2> QED
      BY <1>1, <1>3, <2>2, <2>3
  <1> QED
    BY <1>1, <1>2, <1>3

LEMMA ShorterChained ==
  ASSUME NEW op, NEW t \in Seq(Calls), t # << >>, Chained(t, op), Tail(t) # << >>
  PROVE  Chained(Tail(t), op) /\ <<Head(t), Head(Tail(t))>> \in Follows
  <1> DEFINE u == Tail(t)
  <1>1. /\ u \in Seq(Calls) /\ Len(u) = Len(t) - 1 /\ Len(t) \in Nat /\ Len(t) > 1
        /\ Head(t) = t[1] /\ Head(u) = t[2] /\ u[Len(u)] = t[Len(t)]
        /\ \A i \in 1..(Len(t) - 1) : u[i] = t[i + 1]
    BY Shorter
  <1> HIDE DEF u
  <1>2. \A i \in 1..(Len(u) - 1) : <<u[i], u[i + 1]>> \in Follows
    <2>1. SUFFICES ASSUME NEW i \in 1..(Len(u) - 1) PROVE <<u[i], u[i + 1]>> \in Follows
      OBVIOUS
    <2>2. i \in 1..(Len(t) - 1) /\ i + 1 \in 1..(Len(t) - 1)
      BY <1>1, <2>1
    <2>3. u[i] = t[i + 1] /\ u[i + 1] = t[(i + 1) + 1]
      BY <1>1, <2>2
    <2> QED
      BY <2>2, <2>3 DEF Chained
  <1>3. \A i \in 1..Len(u) : u[i] \notin Never(op)
    BY <1>1 DEF Chained
  <1>4. u[Len(u)] \in {"check", "lookup", "fallback", "reuse", "create", "save_sess", "reply", "card"}
    BY <1>1 DEF Chained
  <1>5. <<Head(t), Head(u)>> \in Follows
    <2>1. 1 \in 1..(Len(t) - 1) /\ t[1 + 1] = t[2]
      BY <1>1
    <2> QED
      BY <1>1, <2>1 DEF Chained
  <1> QED
    BY <1>2, <1>3, <1>4, <1>5 DEF Chained, u

\* What can be next in a list.
LEMMA Successor ==
  ASSUME NEW op, NEW t \in Seq(Calls), t # << >>, Chained(t, op)
  PROVE  /\ Head(t) \in {"check", "lookup", "fallback", "reuse", "create", "reply", "card"} =>
              Tail(t) = << >>
         /\ Head(t) \notin {"check", "lookup", "fallback", "reuse", "create", "reply", "card",
                            "save_sess"} => Tail(t) # << >>
         /\ Head(t) \notin Never(op)
  <1>1. /\ Len(t) \in Nat \ {0} /\ Head(t) = t[1] /\ (Tail(t) = << >> <=> Len(t) = 1)
    BY Shorter
  <1>2. Tail(t) # << >> => <<Head(t), Head(Tail(t))>> \in Follows
    BY ShorterChained
  <1>3. Tail(t) # << >> =>
          Head(t) \notin {"check", "lookup", "fallback", "reuse", "create", "reply", "card"}
    BY <1>2 DEF Follows
  <1>4. Tail(t) = << >> => Head(t) \in {"check", "lookup", "fallback", "reuse", "create",
                                        "save_sess", "reply", "card"}
    BY <1>1 DEF Chained
  <1>5. Head(t) \notin Never(op)
    BY <1>1 DEF Chained
  <1> QED
    BY <1>3, <1>4, <1>5

------------------------------------------------------------------------------
\* A call that leaves the rest of the list as it is.
Simple(c) ==
  \/ Adopt(c) \/ Link(c) \/ Evict(c) \/ Unlink(c) \/ ReleaseChat(c) \/ ClearSession(c)
  \/ SaveSess(c) \/ SaveBind(c) \/ Reply(c) \/ Card(c)

\* What the calls of a command leave alone.
LEMMA Simples ==
  ASSUME NEW c \in Commands, Simple(c)
  PROVE  /\ Works(c) /\ todo' = [todo EXCEPT ![c] = Tail(todo[c])]
         /\ UNCHANGED <<budget, chats, cmd, run, ending, raced>>
  BY DEF Simple, Adopt, Link, Evict, Unlink, ReleaseChat, ClearSession, SaveSess, SaveBind, Reply, Card,
         Call, Return, Then, Works, answerVars

\* A command that makes another call than those of /unbind and /new is about a
\* session.
LEMMA AboutSession ==
  ASSUME BindTypeOK, ShapeInv, NEW c \in Commands, Works(c), Head(todo[c]) \notin Leaving
  PROVE  cmd[c].op \in Own /\ Id(c) \in Ids /\ Chained(todo[c], cmd[c].op)
  <1>1. todo[c] \in Seq(Calls) /\ todo[c] # << >>
    BY DEF BindTypeOK, Works
  <1>2. Head(todo[c]) = todo[c][1] /\ 1 \in 1..Len(todo[c])
    BY <1>1, Shorter
  <1>3. cmd[c].op \notin Away
    BY <1>2 DEF ShapeInv, Shaped
  <1>4. cmd[c].op \in Own
    BY <1>3 DEF ShapeInv, Shaped, Operations, Own, Away
  <1> QED
    BY <1>4 DEF ShapeInv, Shaped

Records == [op : Operations \cup {"none"}, chat : Chats \cup {None},
            id : Ids \cup {None}, found : Chats \cup {None}]
PlanType == [ops : SUBSET Operations, commands : Nat, runs : Nat, crashes : Nat, losses : Nat]

LEMMA Finds ==
  ASSUME BindTypeOK, NEW c \in Commands, NEW s \in Chats \cup {None}, Find(c, s)
  PROVE  /\ cmd' \in [Commands -> Records]
         /\ \A d \in Commands : /\ cmd'[d].op = cmd[d].op /\ Id(d)' = Id(d)
                                /\ Chat(d)' = Chat(d)
                                /\ d # c => cmd'[d] = cmd[d]
         /\ Found(c)' = s
  <1>1. cmd[c] \in Records /\ cmd \in [Commands -> Records]
    BY DEF BindTypeOK, Records
  <1>2. cmd' = [cmd EXCEPT ![c] = [cmd[c] EXCEPT !.found = s]]
    BY DEF Find
  <1>3. [cmd[c] EXCEPT !.found = s] \in Records
    BY <1>1 DEF Records
  <1> QED
    BY <1>1, <1>2, <1>3 DEF Id, Chat, Found, Records

LEMMA Spends ==
  ASSUME BindTypeOK, NEW f \in {"commands", "runs", "crashes", "losses"}, Spend(f)
  PROVE  budget' \in PlanType
  <1>1. budget \in PlanType
    BY DEF BindTypeOK, PlanType
  <1>2. CASE f = "commands"
    BY <1>1, <1>2 DEF Spend, PlanType
  <1>3. CASE f = "runs"
    BY <1>1, <1>3 DEF Spend, PlanType
  <1>4. CASE f = "crashes"
    BY <1>1, <1>4 DEF Spend, PlanType
  <1>5. CASE f = "losses"
    BY <1>1, <1>5 DEF Spend, PlanType
  <1> QED
    BY <1>2, <1>3, <1>4, <1>5

\* What Send picks.
Sent(c, op, s, x) ==
  /\ op \in Operations /\ x \in Ids \cup {None} /\ s \in Chats \cup {None}
  /\ op \in Own => x \in Ids
  /\ op \in Away => x = None
  /\ op # "open" => s \in Chats /\ Live(s)
  /\ cmd' = [cmd EXCEPT ![c] = [op |-> op, chat |-> s, id |-> x, found |-> None]]
  /\ todo' = [todo EXCEPT ![c] = First[op]]
  /\ raced' = raced \cup UNION {Overlap(op, x, d) : d \in Commands \ {c}}
  /\ op \in Away => told' = Released(told, s) /\ chosen' = Released(chosen, s)
  /\ op \in Own => UNCHANGED <<told, chosen>>

LEMMA Sends ==
  ASSUME BindTypeOK, NEW c \in Commands, Send(c)
  PROVE  /\ todo[c] = << >>
         /\ UNCHANGED <<chats, sess, bind, saved, run, ending>>
         /\ \E op, s, x : Sent(c, op, s, x)
  <1>1. PICK op \in budget.ops :
          \E s \in IF op = "open" THEN {None} ELSE {t \in Chats : Live(t)},
             x \in IF op \in {"unbind", "new"} THEN {None} ELSE Ids :
            /\ cmd' = [cmd EXCEPT ![c] = [op |-> op, chat |-> s, id |-> x, found |-> None]]
            /\ Then(c, First[op])
            /\ raced' = raced \cup UNION {Overlap(op, x, d) : d \in Commands \ {c}}
            /\ IF op \in {"unbind", "new"}
               THEN told' = Released(told, s) /\ chosen' = Released(chosen, s)
               ELSE UNCHANGED <<told, chosen>>
    BY DEF Send
  <1>2. op \in Operations
    BY DEF BindTypeOK
  <1>3. \E s, x : Sent(c, op, s, x)
    BY <1>1, <1>2 DEF Sent, Own, Away, Then
  <1> QED
    BY <1>3 DEF Send, stores

\* What was given stays a session, or nothing.
LEMMA GivenType ==
  ASSUME BindTypeOK, [BindNext]_bindVars
  PROVE  given' \in Sessions
  <1>0. given \in Sessions /\ None \in Ids \cup {None}
    BY DEF BindTypeOK
  <1>1. ASSUME NEW s, NEW x \in Ids \cup {None} PROVE [given EXCEPT ![s] = x] \in Sessions
    BY <1>0 DEF Sessions
  <1>2. ASSUME NEW c \in Commands, Command(c) PROVE given' \in Sessions
    <2>1. \/ given' = given
          \/ \E s : Continue(s, Id(c)) \/ Vacate(s)
      BY <1>2 DEF Command, Send, Check, Lookup, Fallback, Reuse, Create, Adopt, Displace, Link, Evict,
                  Unlink, ReleaseChat, ClearSession, SaveSess, SaveBind, Reply, Card, answerVars
    <2>2. Id(c) \in Ids \cup {None}
      BY DEF BindTypeOK, Id
    <2>3. ASSUME NEW s, Continue(s, Id(c)) PROVE given' \in Sessions
      BY <1>0, <1>1, <2>2, <2>3 DEF Continue
    <2>4. ASSUME NEW s, Vacate(s) PROVE given' \in Sessions
      BY <1>0, <1>1, <2>4 DEF Vacate
    <2> QED
      BY <1>0, <2>1, <2>3, <2>4
  <1>3. ASSUME NEW s \in Chats, RunBegins(s) PROVE given' \in Sessions
    <2>1. given[s] \in Ids \cup {None}
      BY <1>0 DEF Sessions
    <2>2. PICK x \in Ids : given' = [given EXCEPT ![s] = IF sess[s] = x THEN given[s] ELSE None]
      BY <1>3 DEF RunBegins
    <2>3. (IF sess[s] = x THEN given[s] ELSE None) \in Ids \cup {None}
      BY <2>1
    <2> QED
      BY <1>1, <2>2, <2>3
  <1>4. ASSUME Crash PROVE given' \in Sessions
    <2> DEFINE G == [s \in Chats |-> IF Unsaved(s) THEN None ELSE given[s]]
    <2>1. \A s \in Chats : given[s] \in Ids \cup {None}
      BY <1>0 DEF Sessions
    <2>2. G \in Sessions
      BY <2>1 DEF Sessions
    <2> QED
      BY <1>4, <2>2 DEF Crash
  <1>5. ASSUME \/ \E s \in Chats : RunFails(s) \/ RunEnds(s)
               \/ \E g \in Groups : LoseGroup(g)
               \/ UNCHANGED bindVars
        PROVE  given' = given
    BY <1>5 DEF RunFails, RunEnds, LoseGroup, answerVars, bindVars
  <1> QED
    BY <1>0, <1>2, <1>3, <1>4, <1>5 DEF BindNext

\* A chat is given a session, or loses the one it has.
LEMMA SessionSet ==
  ASSUME sess \in Sessions, NEW s, NEW x \in Ids \cup {None}, Continue(s, x) \/ Vacate(s)
  PROVE  sess' \in Sessions
  <1>1. CASE Continue(s, x)
    <2>1. sess' = [sess EXCEPT ![s] = x]
      BY <1>1 DEF Continue
    <2> QED
      BY <2>1 DEF Sessions
  <1>2. CASE Vacate(s)
    <2>1. sess' = [sess EXCEPT ![s] = None]
      BY <1>2 DEF Vacate
    <2> QED
      BY <2>1 DEF Sessions
  <1> QED
    BY <1>1, <1>2

LEMMA TypeStep == BindTypeOK /\ ShapeInv /\ EndInv /\ [BindNext]_bindVars => BindTypeOK'
  <1> SUFFICES ASSUME BindTypeOK, ShapeInv, EndInv, [BindNext]_bindVars PROVE BindTypeOK'
    OBVIOUS
  <1> USE DEF BindTypeOK
  <1>0. None \notin Ids /\ None \notin Chats
    BY Constants
  <1>2. ASSUME NEW c \in Commands, NEW t \in Seq(Calls), Then(c, t)
        PROVE  todo' \in [Commands -> Seq(Calls)]
    BY <1>2 DEF Then
  <1>3. ASSUME NEW s \in Chats \cup {None}
        PROVE  /\ Released(told, s) \in Bound /\ Released(chosen, s) \in Bound
               /\ Released(bind, s) \in Bound
    BY DEF Released, Bound
  <1>4. ASSUME NEW c \in Commands
        PROVE  /\ Id(c) \in Ids \cup {None} /\ Chat(c) \in Chats \cup {None}
               /\ Found(c) \in Chats \cup {None} /\ Goal(c) \in Chats \cup {None}
               /\ Reached(c) \in Chats \cup {None}
    BY DEF Id, Chat, Found, Goal, Reached
  <1>5. given' \in Sessions
    BY GivenType
  <1>6. ASSUME NEW c \in Commands, Send(c) PROVE BindTypeOK'
    <2>1. PICK op, s, x : Sent(c, op, s, x)
      BY <1>6, Sends
    <2>2. cmd' \in [Commands -> Records]
      BY <2>1 DEF Sent, Records
    <2>3. todo' \in [Commands -> Seq(Calls)]
      BY <2>1, Lists DEF Sent
    <2>4. told' \in Bound /\ chosen' \in Bound
      BY <1>3, <2>1 DEF Sent, Operations, Own, Away
    <2>5. raced' \subseteq Ids
      <3>1. \A d \in Commands : Overlap(op, x, d) \subseteq Ids
        BY <2>1 DEF Overlap, Sent, Operations, Own, Away
      <3> QED
        BY <2>1, <3>1 DEF Sent
    <2>6. budget' \in PlanType
      BY <1>6, Spends DEF Send
    <2> QED
      BY <1>5, <1>6, <2>2, <2>3, <2>4, <2>5, <2>6, Sends DEF Records, PlanType
  <1>7. ASSUME NEW c \in Commands, Check(c) PROVE BindTypeOK'
    <2>1. bind[Id(c)] \in Chats \cup {None}
      BY <1>7, AboutSession DEF Bound, Check, Call, Works, Leaving
    <2>2. cmd' \in [Commands -> Records]
      BY <1>7, <2>1, Finds DEF Check
    <2>3. todo' \in [Commands -> Seq(Calls)]
      BY <1>2, <1>7, Lists DEF Check
    <2>4. told' \in Bound /\ chosen' \in Bound
      BY <1>7 DEF Check, Bound
    <2> QED
      BY <1>7, <2>2, <2>3, <2>4 DEF Check, stores, Records
  <1>8. ASSUME NEW c \in Commands, Lookup(c) PROVE BindTypeOK'
    <2>1. bind[Id(c)] \in Chats \cup {None}
      BY <1>8, AboutSession DEF Bound, Lookup, Call, Works, Leaving
    <2>2. cmd' \in [Commands -> Records]
      <3>1. \/ cmd' = cmd
            \/ \E s \in Chats \cup {None} : Find(c, s)
        BY <1>8, <2>1 DEF Lookup
      <3> QED
        BY <3>1, Finds DEF Records
    <2>3. \A call \in Calls : <<call>> \in Seq(Calls)
      OBVIOUS
    <2>4. todo' \in [Commands -> Seq(Calls)]
      BY <1>2, <1>8, <2>3 DEF Lookup, Calls
    <2> QED
      BY <1>8, <2>2, <2>4 DEF Lookup, stores, answerVars, Records
  <1>9. ASSUME NEW c \in Commands, Fallback(c) PROVE BindTypeOK'
    <2>1. bind' \in Bound
      BY <1>9, <1>4 DEF Fallback, Bound
    <2>2. <<"save_bind", "reuse">> \in Seq(Calls) /\ <<"create">> \in Seq(Calls)
      BY DEF Calls
    <2>3. todo' \in [Commands -> Seq(Calls)]
      BY <1>2, <1>9, <2>2 DEF Fallback
    <2> QED
      BY <1>9, <2>1, <2>3 DEF Fallback, answerVars
  <1>10. ASSUME NEW c \in Commands, Reuse(c) PROVE BindTypeOK'
    <2>1. sess' \in Sessions
      <3>1. sess \in Sessions /\ Id(c) \in Ids \cup {None}
        BY DEF BindTypeOK, Id
      <3>2. Continue(Found(c), Id(c)) \/ sess' = sess
        BY <1>10 DEF Reuse
      <3> QED
        BY <3>1, <3>2, SessionSet
    <2>2. /\ <<"save_sess">> \in Seq(Calls) /\ <<"create">> \in Seq(Calls)
          /\ <<"unlink", "evict", "create">> \in Seq(Calls)
      BY DEF Calls
    <2>3. todo' \in [Commands -> Seq(Calls)]
      BY <1>2, <1>10, <2>2 DEF Reuse
    <2>4. told' \in Bound /\ chosen' \in Bound
      BY <1>10 DEF Reuse, Bound
    <2> QED
      BY <1>5, <1>10, <2>1, <2>3, <2>4 DEF Reuse
  <1>11. ASSUME NEW c \in Commands, Create(c) PROVE BindTypeOK'
    <2>1. chosen' \in Bound
      BY <1>11 DEF Create, Bound
    <2>2. CASE Then(c, << >>) /\ UNCHANGED <<chats, cmd>>
      BY <1>2, <1>11, <2>1, <2>2, Lists DEF Create, stores
    <2>3. ASSUME NEW g \in Groups, chats' = [chats EXCEPT ![g] = "live"], Find(c, g),
                 Then(c, Opening)
          PROVE  BindTypeOK'
      <3>1. g \in Chats /\ chats' \in [Chats -> {"unknown", "live", "gone"}]
        BY <2>3 DEF Chats
      <3>2. cmd' \in [Commands -> Records]
        BY <2>3, <3>1, Finds
      <3>3. todo' \in [Commands -> Seq(Calls)]
        BY <1>2, <2>3, Lists
      <3> QED
        BY <1>11, <2>1, <3>1, <3>2, <3>3 DEF Create, stores, Records
    <2> QED
      BY <1>11, <2>2, <2>3 DEF Create
  <1>12. ASSUME NEW c \in Commands, Displace(c) PROVE BindTypeOK'
    <2>1. todo[c] \in Seq(Calls) /\ todo[c] # << >>
      BY <1>12 DEF Displace, Call
    <2>2. Tail(todo[c]) \in Seq(Calls)
      BY <2>1, Shorter
    <2>3. <<"save_sess">> \in Seq(Calls)
      BY DEF Calls
    <2>4. <<"save_sess">> \o Tail(todo[c]) \in Seq(Calls)
      BY <2>2, <2>3, ConcatProperties
    <2>5. todo' \in [Commands -> Seq(Calls)]
      BY <1>2, <1>12, <2>2, <2>4 DEF Displace, Return
    <2>6. sess' \in Sessions
      BY <1>12 DEF Displace, Vacate, Sessions
    <2> QED
      BY <1>5, <1>12, <2>5, <2>6 DEF Displace
  <1>13. ASSUME NEW c \in Commands, Simple(c) PROVE BindTypeOK'
    <2>1. todo[c] \in Seq(Calls) /\ todo[c] # << >>
      BY <1>13, Simples DEF Works
    <2>2. todo' \in [Commands -> Seq(Calls)]
      <3>1. Tail(todo[c]) \in Seq(Calls)
        BY <2>1, Shorter
      <3> QED
        BY <1>13, <3>1, Simples
    <2>3. sess' \in Sessions
      <3>1. ASSUME Adopt(c) \/ Evict(c) \/ ClearSession(c) PROVE sess' \in Sessions
        <4>1. sess \in Sessions /\ Id(c) \in Ids \cup {None}
          BY DEF BindTypeOK, Id
        <4>2. Continue(Goal(c), Id(c)) \/ Vacate(Found(c)) \/ Vacate(Chat(c))
          BY <3>1 DEF Adopt, Evict, ClearSession
        <4> QED
          BY <4>1, <4>2, SessionSet
      <3>2. ASSUME ~(Adopt(c) \/ Evict(c) \/ ClearSession(c)) PROVE sess' = sess
        BY <1>13, <3>2 DEF Simple, Link, Unlink, ReleaseChat, SaveSess, SaveBind, Reply, Card, stores
      <3> QED
        BY <3>1, <3>2
    <2>4. bind' \in Bound
      <3>1. ASSUME Link(c) \/ Unlink(c) PROVE bind' \in Bound
        BY <1>4, <3>1 DEF Link, Unlink, Bound
      <3>2. ASSUME ReleaseChat(c) PROVE bind' \in Bound
        BY <1>3, <1>4, <3>2 DEF ReleaseChat
      <3>3. ASSUME ~(Link(c) \/ Unlink(c) \/ ReleaseChat(c)) PROVE bind' = bind
        BY <1>13, <3>3 DEF Simple, Adopt, Evict, ClearSession, SaveSess, SaveBind, Reply, Card, stores
      <3> QED
        BY <3>1, <3>2, <3>3
    <2>5. saved' \in [sess : Sessions, bind : Bound]
      <3>1. ASSUME SaveSess(c) \/ SaveBind(c) PROVE saved' \in [sess : Sessions, bind : Bound]
        BY <3>1 DEF SaveSess, SaveBind
      <3>2. ASSUME ~(SaveSess(c) \/ SaveBind(c)) PROVE saved' = saved
        BY <1>13, <3>2 DEF Simple, Adopt, Evict, ClearSession, Link, Unlink, ReleaseChat, Reply, Card, stores
      <3> QED
        BY <3>1, <3>2
    <2>6. told' \in Bound /\ chosen' \in Bound
      <3>1. ASSUME Reply(c) \/ Card(c) PROVE told' \in Bound /\ chosen' \in Bound
        <4>1. Reached(c) \in Chats \cup {None}
          BY <1>4
        <4>2. /\ told' \in {told, [told EXCEPT ![Id(c)] = Reached(c)]}
              /\ chosen' = [chosen EXCEPT ![Id(c)] = Reached(c)]
          BY <3>1 DEF Reply, Card
        <4>3. \A f \in Bound : [f EXCEPT ![Id(c)] = Reached(c)] \in Bound
          BY <4>1 DEF Bound
        <4>4. told \in Bound /\ chosen \in Bound
          OBVIOUS
        <4> QED
          BY <4>2, <4>3, <4>4
      <3>2. ASSUME ~(Reply(c) \/ Card(c)) PROVE UNCHANGED <<told, chosen>>
        BY <1>13, <3>2 DEF Simple, Adopt, Evict, ClearSession, Link, Unlink, ReleaseChat, SaveSess, SaveBind,
                           answerVars
      <3> QED
        BY <3>1, <3>2
    <2> QED
      BY <1>5, <1>13, <2>2, <2>3, <2>4, <2>5, <2>6, Simples
  <1>14. ASSUME NEW s \in Chats, RunBegins(s) PROVE BindTypeOK'
    <2>1. run' \in Sessions
      BY <1>14 DEF RunBegins, Sessions
    <2>2. ending' \in [Chats -> Seq({"set", "record", "save_sess", "save_bind"})]
      BY <1>14 DEF RunBegins
    <2>3. budget' \in PlanType
      BY <1>14, Spends DEF RunBegins
    <2> QED
      BY <1>5, <1>14, <2>1, <2>2, <2>3 DEF RunBegins, stores, PlanType
  <1>15. ASSUME NEW s \in Chats, RunFails(s) PROVE BindTypeOK'
    <2>1. ending' \in [Chats -> Seq({"set", "record", "save_sess", "save_bind"})]
      BY <1>15 DEF RunFails
    <2> QED
      BY <1>15, <2>1 DEF RunFails, stores, answerVars
  <1>16. ASSUME NEW s \in Chats, RunEnds(s) PROVE BindTypeOK'
    <2>1. ending' \in [Chats -> Seq({"set", "record", "save_sess", "save_bind"})]
      BY <1>16 DEF RunEnds
    <2>2. run[s] \in Ids /\ run' \in Sessions
      BY <1>16 DEF RunEnds, EndInv, Sessions
    <2>3. sess' \in Sessions
      BY <1>16, <2>2 DEF RunEnds, Sessions
    <2>4. bind' \in Bound
      BY <1>16 DEF RunEnds, Recorded, Bound
    <2>5. saved' \in [sess : Sessions, bind : Bound]
      BY <1>16 DEF RunEnds
    <2> QED
      BY <1>16, <2>1, <2>2, <2>3, <2>4, <2>5 DEF RunEnds, answerVars
  <1>17. ASSUME NEW g \in Groups, LoseGroup(g) PROVE BindTypeOK'
    <2>1. budget' \in PlanType /\ g \in Chats
      BY <1>17, Spends DEF LoseGroup, Chats
    <2>2. told' \in Bound /\ chosen' \in Bound
      BY <1>3, <1>17, <2>1 DEF LoseGroup
    <2> QED
      BY <1>17, <2>1, <2>2 DEF LoseGroup, stores, PlanType
  <1>18. ASSUME Crash PROVE BindTypeOK'
    <2>1. budget' \in PlanType
      BY <1>18, Spends DEF Crash
    <2>2. cmd' \in [Commands -> Records]
      BY <1>18 DEF Crash, Records, Idle
    <2>3. /\ todo' \in [Commands -> Seq(Calls)] /\ run' \in Sessions
          /\ ending' \in [Chats -> Seq({"set", "record", "save_sess", "save_bind"})]
      BY <1>18 DEF Crash, Nothing, Sessions
    <2> QED
      BY <1>5, <1>18, <2>1, <2>2, <2>3 DEF Crash, PlanType, Records
  <1>19. CASE UNCHANGED bindVars
    BY <1>19 DEF bindVars
  <1>20. ASSUME NEW c \in Commands, Command(c) PROVE BindTypeOK'
    BY <1>6, <1>7, <1>8, <1>9, <1>10, <1>11, <1>12, <1>13, <1>20 DEF Command, Simple
  <1> QED
    BY <1>14, <1>15, <1>16, <1>17, <1>18, <1>19, <1>20 DEF BindNext

------------------------------------------------------------------------------
\* A command that nobody touched.
LEMMA ShapeFrame ==
  ASSUME ShapeInv, NEW c \in Commands, todo'[c] = todo[c], cmd'[c] = cmd[c]
  PROVE  Shaped(c)'
  BY DEF ShapeInv, Shaped, Works, Id, Chat, Goal, Found

\* A command that made its first call.
LEMMA ShapeReturns ==
  ASSUME BindTypeOK, ShapeInv, NEW c \in Commands, Works(c), todo'[c] = Tail(todo[c]),
         cmd'[c] = cmd[c], Head(todo[c]) \notin {"lookup", "create"}
  PROVE  Shaped(c)'
  <1> DEFINE t == todo[c]
  <1>1. t \in Seq(Calls) /\ t # << >>
    BY DEF BindTypeOK, Works
  <1> HIDE DEF t
  <1>2. /\ Tail(t) \in Seq(Calls) /\ Len(Tail(t)) = Len(t) - 1 /\ Len(t) \in Nat \ {0}
        /\ \A i \in 1..(Len(t) - 1) : Tail(t)[i] = t[i + 1]
        /\ Tail(t) # << >> => Head(Tail(t)) = t[2] /\ Tail(t)[Len(Tail(t))] = t[Len(t)]
    BY <1>1, Shorter
  <1>3. todo'[c] = Tail(t)
    BY DEF t
  <1>4. SUFFICES ASSUME Tail(t) # << >> PROVE Shaped(c)'
    BY <1>3 DEF Shaped, Works
  <1>5. cmd[c].op \in Operations
    BY DEF ShapeInv, Shaped
  <1>6. ASSUME cmd[c].op \in Away
        PROVE  Id(c) = None /\ Chat(c) \in Chats /\ \A i \in 1..Len(Tail(t)) : Tail(t)[i] \in Leaving
    <2>1. Id(c) = None /\ Chat(c) \in Chats /\ \A i \in 1..Len(t) : t[i] \in Leaving
      BY <1>6 DEF ShapeInv, Shaped, t
    <2> QED
      BY <1>2, <2>1
  <1>7. ASSUME cmd[c].op \in Own
        PROVE  /\ Id(c) \in Ids /\ Chained(Tail(t), cmd[c].op) /\ Goal(c) \in Chats
               /\ Tail(t)[Len(Tail(t))] = "card" => Goal(c) \in Groups
    <2>1. /\ Id(c) \in Ids /\ Chained(t, cmd[c].op) /\ Goal(c) \in Chats
          /\ t[Len(t)] = "card" => Goal(c) \in Groups
      BY <1>7 DEF ShapeInv, Shaped, t
    <2> QED
      BY <1>1, <1>2, <1>4, <2>1, ShorterChained
  <1>8. Id(c)' = Id(c) /\ Chat(c)' = Chat(c) /\ Goal(c)' = Goal(c) /\ cmd'[c].op = cmd[c].op
    BY DEF Id, Chat, Goal, Found
  <1> QED
    BY <1>3, <1>5, <1>6, <1>7, <1>8 DEF Shaped

\* A command that goes on with a new list.
LEMMA ShapeGoesOn ==
  ASSUME NEW c \in Commands, cmd'[c].op \in Own, Id(c)' \in Ids,
         NEW t, todo'[c] = t, Chained(t, cmd'[c].op),
         Head(t) \notin {"lookup", "create"} => Goal(c)' \in Chats,
         t[Len(t)] = "card" => Goal(c)' \in Groups
  PROVE  Shaped(c)'
  BY DEF Shaped, Own, Away, Operations

\* The heads and the ends of the lists.
LEMMA Heads ==
  /\ \A call \in STRING : Head(<<call>>) = call /\ <<call>>[Len(<<call>>)] = call
  /\ Head(Adopting) = "adopt" /\ Adopting[Len(Adopting)] = "reply"
  /\ Head(Opening) = "adopt" /\ Opening[Len(Opening)] = "card"
  /\ LET t == <<"evict", "unlink">> \o Adopting IN Head(t) = "evict" /\ t[Len(t)] = "reply"
  /\ LET t == <<"save_bind", "reuse">> IN Head(t) = "save_bind" /\ t[Len(t)] = "reuse"
  /\ LET t == <<"unlink", "evict", "create">> IN Head(t) = "unlink" /\ t[Len(t)] = "create"
  <1>1. \A call \in STRING : Head(<<call>>) = call /\ <<call>>[Len(<<call>>)] = call
    OBVIOUS
  <1>2. /\ Head(Adopting) = "adopt" /\ Adopting[Len(Adopting)] = "reply"
        /\ Head(Opening) = "adopt" /\ Opening[Len(Opening)] = "card"
    BY DEF Adopting, Opening
  <1>3. /\ LET t == <<"save_bind", "reuse">> IN Head(t) = "save_bind" /\ t[Len(t)] = "reuse"
        /\ LET t == <<"unlink", "evict", "create">> IN Head(t) = "unlink" /\ t[Len(t)] = "create"
    OBVIOUS
  <1>4. LET t == <<"evict", "unlink">> \o Adopting IN Head(t) = "evict" /\ t[Len(t)] = "reply"
    <2> DEFINE s == <<"evict", "unlink">>
    <2>1. s \in Seq(Calls) /\ Adopting \in Seq(Calls) /\ Len(Adopting) = 5 /\ Len(s) = 2
          /\ s[1] = "evict"
      BY DEF Adopting, Calls
    <2> HIDE DEF s
    <2>2. /\ Len(s \o Adopting) = Len(s) + Len(Adopting) /\ s \o Adopting \in Seq(Calls)
          /\ \A i \in 1..(Len(s) + Len(Adopting)) :
               (s \o Adopting)[i] = IF i <= Len(s) THEN s[i] ELSE Adopting[i - Len(s)]
      BY <2>1, ConcatProperties
    <2>3. Len(s \o Adopting) = 7 /\ (s \o Adopting)[1] = "evict" /\ (s \o Adopting)[7] = Adopting[5]
      BY <2>1, <2>2
    <2>4. Adopting[5] = "reply"
      BY DEF Adopting
    <2>5. s \o Adopting # << >> /\ Head(s \o Adopting) = (s \o Adopting)[1]
      BY <2>2, <2>3
    <2> QED
      BY <2>3, <2>4, <2>5 DEF s
  <1> QED
    BY <1>1, <1>2, <1>3, <1>4

\* The calls that Displace leaves, with one more before them.
LEMMA Prefixed ==
  ASSUME NEW op \in Own, NEW u \in Seq(Calls), u # << >>, Chained(u, op), Head(u) = "link"
  PROVE  LET v == <<"save_sess">> \o u IN
           v # << >> /\ Chained(v, op) /\ Head(v) = "save_sess" /\ v[Len(v)] = u[Len(u)]
  <1> DEFINE s == <<"save_sess">>  v == s \o u
  <1>1. s \in Seq(Calls) /\ Len(s) = 1 /\ s[1] = "save_sess"
    BY DEF Calls
  <1>2. Len(u) \in Nat \ {0} /\ u[1] = "link"
    BY Shorter
  <1> HIDE DEF s
  <1>3. /\ v \in Seq(Calls) /\ Len(v) = Len(u) + 1
        /\ \A i \in 1..(Len(u) + 1) : v[i] = IF i <= 1 THEN s[i] ELSE u[i - 1]
    <2>1. /\ s \o u \in Seq(Calls) /\ Len(s \o u) = Len(s) + Len(u)
          /\ \A i \in 1..(Len(s) + Len(u)) :
               (s \o u)[i] = IF i <= Len(s) THEN s[i] ELSE u[i - Len(s)]
      BY <1>1, ConcatProperties
    <2> QED
      BY <1>1, <1>2, <2>1
  <1>4. v[1] = "save_sess" /\ \A i \in 1..Len(u) : v[i + 1] = u[i]
    BY <1>1, <1>2, <1>3
  <1> HIDE DEF v
  <1>5. v # << >> /\ Head(v) = "save_sess" /\ v[Len(v)] = u[Len(u)]
    <2>1. v # << >>
      BY <1>2, <1>3
    <2> QED
      BY <1>2, <1>3, <1>4, <2>1, Shorter
  <1>6. \A i \in 1..(Len(v) - 1) : <<v[i], v[i + 1]>> \in Follows
    <2>1. SUFFICES ASSUME NEW i \in 1..Len(u) PROVE <<v[i], v[i + 1]>> \in Follows
      BY <1>2, <1>3
    <2>2. CASE i = 1
      BY <1>2, <1>4, <2>2 DEF Follows
    <2>3. CASE i # 1
      <3>1. i - 1 \in 1..(Len(u) - 1) /\ v[i] = u[i - 1] /\ v[i + 1] = u[(i - 1) + 1]
        BY <1>2, <1>4, <2>3
      <3> QED
        BY <3>1 DEF Chained
    <2> QED
      BY <2>2, <2>3
  <1>7. \A i \in 1..Len(v) : v[i] \notin Never(op)
    <2>1. SUFFICES ASSUME NEW i \in 1..(Len(u) + 1) PROVE v[i] \notin Never(op)
      BY <1>3
    <2>2. CASE i = 1
      BY <1>4, <2>2 DEF Never
    <2>3. CASE i # 1
      <3>1. i - 1 \in 1..Len(u) /\ v[i] = u[i - 1]
        BY <1>2, <1>4, <2>3
      <3> QED
        BY <3>1 DEF Chained
    <2> QED
      BY <2>2, <2>3
  <1>8. Chained(v, op)
    BY <1>2, <1>3, <1>4, <1>6, <1>7 DEF Chained
  <1> QED
    BY <1>5, <1>8 DEF v, s

LEMMA ShapeStep == BindTypeOK /\ ShapeInv /\ [BindNext]_bindVars => ShapeInv'
  <1> SUFFICES ASSUME BindTypeOK, ShapeInv, [BindNext]_bindVars PROVE \A c \in Commands : Shaped(c)'
    BY DEF ShapeInv, Shaped
  <1>0. None \notin Ids /\ None \notin Chats /\ Groups \subseteq Chats
        /\ todo \in [Commands -> Seq(Calls)] /\ cmd \in [Commands -> Records]
    BY Constants DEF Chats, BindTypeOK, Records
  <1>1. ASSUME NEW c \in Commands, Send(c), NEW d \in Commands PROVE Shaped(d)'
    <2>1. PICK op, s, x : Sent(c, op, s, x)
      BY <1>1, Sends
    <2>2. CASE d # c
      BY <1>0, <2>1, <2>2, ShapeFrame DEF Sent
    <2>3. ASSUME d = c PROVE Shaped(c)'
      <3>1. /\ cmd'[c] = [op |-> op, chat |-> s, id |-> x, found |-> None]
            /\ todo'[c] = First[op]
        BY <1>0, <2>1 DEF Sent
      <3>2. CASE op \in Own
        <4>1. First[op] \in {<<"check">>, <<"lookup">>}
              /\ (First[op] = <<"check">> <=> op # "open")
          BY <3>2 DEF First, Operations, Own
        <4>2. Chained(First[op], op)
          BY <3>2, <4>1, ChainedLists DEF Own
        <4>3. First[op] = <<"check">> => Goal(c)' \in Chats
          BY <2>1, <3>1, <3>2, <4>1 DEF Sent, Goal, Chat, Own
        <4>4. Id(c)' \in Ids /\ cmd'[c].op \in Own
          BY <2>1, <3>1, <3>2 DEF Sent, Id
        <4>5. Head(<<"lookup">>) = "lookup" /\ <<"lookup">>[Len(<<"lookup">>)] = "lookup"
              /\ <<"check">>[Len(<<"check">>)] = "check"
          BY Heads
        <4> QED
          BY <3>1, <4>1, <4>2, <4>3, <4>4, <4>5, ShapeGoesOn
      <3>3. CASE op \in Away
        <4>1. \A i \in 1..Len(First[op]) : First[op][i] \in Leaving
          <5>1. CASE op = "unbind"
            BY <5>1 DEF First, Operations, Leaving
          <5>2. CASE op = "new"
            BY <5>2 DEF First, Operations, Leaving
          <5> QED
            BY <3>3, <5>1, <5>2 DEF Away
        <4>2. cmd'[c].op = op /\ Id(c)' = None /\ Chat(c)' \in Chats
          BY <2>1, <3>1, <3>3 DEF Sent, Id, Chat, Away
        <4>3. op \notin Own /\ op \in Operations
          BY <3>3 DEF Own, Away, Operations
        <4> QED
          BY <3>1, <4>1, <4>2, <4>3 DEF Shaped
      <3> QED
        BY <2>1, <3>2, <3>3 DEF Sent, Operations, Own, Away
    <2> QED
      BY <2>2, <2>3
  <1>2. ASSUME NEW c \in Commands, NEW t, Then(c, t)
        PROVE  todo'[c] = t /\ \A d \in Commands : d # c => todo'[d] = todo[d]
    BY <1>0, <1>2 DEF Then
  <1>3. ASSUME NEW c \in Commands, Simple(c), NEW d \in Commands PROVE Shaped(d)'
    <2>1. todo'[c] = Tail(todo[c]) /\ \A e \in Commands : e # c => todo'[e] = todo[e]
      BY <1>0, <1>3, Simples
    <2>2. cmd' = cmd /\ Works(c)
      BY <1>3, Simples
    <2>3. Head(todo[c]) \notin {"lookup", "create"}
      BY <1>3 DEF Simple, Adopt, Link, Evict, Unlink, ReleaseChat, ClearSession, SaveSess, SaveBind, Reply,
                  Card, Call
    <2> QED
      BY <2>1, <2>2, <2>3, ShapeFrame, ShapeReturns
  <1>4. ASSUME NEW c \in Commands,
               Check(c) \/ Lookup(c) \/ Fallback(c) \/ Reuse(c) \/ Create(c) \/ Displace(c)
        PROVE  /\ Works(c) /\ cmd[c].op \in Own /\ Id(c) \in Ids /\ Chained(todo[c], cmd[c].op)
               /\ Head(todo[c]) \notin {"lookup", "create"} => Goal(c) \in Chats
               /\ todo[c][Len(todo[c])] = "card" => Goal(c) \in Groups
    <2>1. Works(c) /\ Head(todo[c]) \in {"check", "lookup", "fallback", "reuse", "create", "displace"}
      BY <1>4 DEF Check, Lookup, Fallback, Reuse, Create, Displace, Call, Works
    <2>2. cmd[c].op \in Own /\ Id(c) \in Ids /\ Chained(todo[c], cmd[c].op)
      BY <2>1, AboutSession DEF Leaving
    <2> QED
      BY <2>1, <2>2 DEF ShapeInv, Shaped
  <1>5. ASSUME NEW c \in Commands, Check(c), NEW d \in Commands PROVE Shaped(d)'
    <2>1. bind[Id(c)] \in Chats \cup {None}
      BY <1>4, <1>5 DEF BindTypeOK, Bound
    <2>2. /\ \A e \in Commands : cmd'[e].op = cmd[e].op /\ Id(e)' = Id(e) /\ Chat(e)' = Chat(e)
          /\ \A e \in Commands : e # c => cmd'[e] = cmd[e] /\ todo'[e] = todo[e]
      BY <1>2, <1>5, <2>1, Finds DEF Check
    <2>4. cmd[c].op \in {"bind", "force"}
      <3>1. todo[c] \in Seq(Calls) /\ todo[c] # << >> /\ Head(todo[c]) = "check"
        BY <1>0, <1>5 DEF Check, Call
      <3> QED
        BY <1>4, <1>5, <3>1, Successor DEF Never, Own
    <2>3. ASSUME d = c PROVE Shaped(c)'
      <3>1. PICK t \in {Adopting, <<"evict", "unlink">> \o Adopting, << >>} : Then(c, t)
        BY <1>5 DEF Check
      <3>2. todo'[c] = t
        BY <1>2, <3>1
      <3>3. CASE t = << >>
        BY <3>2, <3>3 DEF Shaped, Works
      <3>4. CASE t # << >>
        <4>1. Chained(t, cmd'[c].op) /\ t[Len(t)] = "reply"
          BY <2>2, <2>4, <3>1, <3>4, ChainedLists, Heads
        <4>2. cmd'[c].op \in Own /\ Id(c)' \in Ids
          BY <1>4, <1>5, <2>2
        <4>3. Goal(c)' \in Chats
          <5>1. Goal(c) \in Chats
            BY <1>4, <1>5 DEF Check, Call
          <5> QED
            BY <2>2, <2>4, <5>1 DEF Goal
        <4> QED
          BY <3>2, <4>1, <4>2, <4>3, ShapeGoesOn
      <3> QED
        BY <3>3, <3>4
    <2> QED
      BY <2>2, <2>3, ShapeFrame
  <1>6. ASSUME NEW c \in Commands, Lookup(c) \/ Fallback(c) \/ Reuse(c) \/ Create(c)
        PROVE  cmd[c].op = "open"
    <2>1. /\ todo[c] \in Seq(Calls) /\ todo[c] # << >>
          /\ Head(todo[c]) \in {"lookup", "fallback", "reuse", "create"}
      BY <1>0, <1>6 DEF Lookup, Fallback, Reuse, Create, Call
    <2> QED
      BY <1>4, <1>6, <2>1, Successor DEF Never, Own
  <1>7. ASSUME NEW c \in Commands, Lookup(c), NEW d \in Commands PROVE Shaped(d)'
    <2>1. PICK s \in Chats \cup {None},
               t \in {<<"reuse">>, <<"create">>, <<"fallback">>} :
            Then(c, t) /\ ((t = <<"create">> /\ cmd' = cmd) \/ (s \in Chats /\ Find(c, s)))
      <3>1. bind[Id(c)] \in Chats \cup {None}
        BY <1>4, <1>7 DEF BindTypeOK, Bound
      <3> QED
        BY <1>0, <1>7, <3>1 DEF Lookup
    <2>2. /\ \A e \in Commands : cmd'[e].op = cmd[e].op /\ Id(e)' = Id(e)
          /\ \A e \in Commands : e # c => cmd'[e] = cmd[e] /\ todo'[e] = todo[e]
          /\ t = <<"create">> \/ Found(c)' \in Chats
      BY <1>2, <2>1, Finds DEF Id
    <2>3. Chained(t, "open") /\ cmd[c].op = "open"
      BY <1>6, <1>7, <2>1, ChainedLists
    <2>4. /\ t[Len(t)] # "card"
          /\ Head(t) = "create" \/ Goal(c)' \in Chats
      BY <2>1, <2>2, <2>3, Heads DEF Goal
    <2>5. todo'[c] = t /\ Id(c)' \in Ids /\ cmd'[c].op = "open"
      BY <1>2, <1>4, <1>7, <2>1, <2>2, <2>3
    <2>6. Shaped(c)'
      BY <2>3, <2>4, <2>5, ShapeGoesOn DEF Own
    <2> QED
      BY <2>2, <2>6, ShapeFrame
  <1>8. ASSUME NEW c \in Commands, Fallback(c) \/ Reuse(c), NEW d \in Commands PROVE Shaped(d)'
    <2>1. PICK t \in {<<"save_bind", "reuse">>, <<"create">>, <<"save_sess">>,
                      <<"unlink", "evict", "create">>} : Then(c, t) /\ cmd' = cmd
      BY <1>8 DEF Fallback, Reuse
    <2>2. \A e \in Commands : e # c => todo'[e] = todo[e]
      BY <1>2, <2>1
    <2>3. Chained(t, "open") /\ cmd[c].op = "open" /\ t[Len(t)] # "card"
      <3>1. cmd[c].op = "open"
        BY <1>6, <1>8
      <3>2. Chained(t, "open")
        BY <2>1, ChainedLists
      <3>3. t[Len(t)] \in {"reuse", "create", "save_sess"}
        BY <2>1
      <3> QED
        BY <3>1, <3>2, <3>3
    <2>4. Goal(c)' \in Chats
      <3>1. Goal(c) \in Chats
        BY <1>4, <1>8 DEF Fallback, Reuse, Call
      <3> QED
        BY <2>1, <3>1 DEF Goal, Found, Chat
    <2>5. todo'[c] = t /\ Id(c)' \in Ids /\ cmd'[c].op = "open"
      BY <1>2, <1>4, <1>8, <2>1, <2>3 DEF Id
    <2>6. Shaped(c)'
      BY <2>3, <2>4, <2>5, ShapeGoesOn DEF Own
    <2> QED
      BY <2>1, <2>2, <2>6, ShapeFrame
  <1>9. ASSUME NEW c \in Commands, Create(c), NEW d \in Commands PROVE Shaped(d)'
    <2>1. CASE Then(c, << >>) /\ UNCHANGED <<chats, cmd>>
      <3>1. todo'[c] = << >> /\ \A e \in Commands : e # c => todo'[e] = todo[e]
        BY <1>2, <2>1
      <3>2. Shaped(c)'
        BY <3>1 DEF Shaped, Works
      <3> QED
        BY <2>1, <3>1, <3>2, ShapeFrame
    <2>2. ASSUME NEW g \in Groups, Find(c, g), Then(c, Opening) PROVE Shaped(d)'
      <3>1. /\ \A e \in Commands : cmd'[e].op = cmd[e].op /\ Id(e)' = Id(e)
            /\ \A e \in Commands : e # c => cmd'[e] = cmd[e] /\ todo'[e] = todo[e]
            /\ Found(c)' = g /\ todo'[c] = Opening
        BY <1>0, <1>2, <2>2, Finds
      <3>2. cmd'[c].op = "open" /\ Goal(c)' = g /\ Id(c)' \in Ids
        BY <1>4, <1>6, <1>9, <3>1 DEF Goal
      <3>3. Shaped(c)'
        BY <1>0, <3>1, <3>2, ChainedLists, Heads, ShapeGoesOn DEF Own
      <3> QED
        BY <3>1, <3>3, ShapeFrame
    <2> QED
      BY <1>9, <2>1, <2>2 DEF Create
  <1>10. ASSUME NEW c \in Commands, Displace(c), NEW d \in Commands PROVE Shaped(d)'
    <2>1. cmd' = cmd /\ \A e \in Commands : e # c => todo'[e] = todo[e]
      BY <1>2, <1>10 DEF Displace, Return
    <2>2. /\ todo[c] \in Seq(Calls) /\ Works(c) /\ Chained(todo[c], cmd[c].op)
          /\ Head(todo[c]) = "displace" /\ cmd[c].op \in Own
      BY <1>0, <1>4, <1>10 DEF Displace, Call, Works
    <2>3. /\ Goal(c) \in Chats /\ Id(c) \in Ids
          /\ todo[c][Len(todo[c])] = "card" => Goal(c) \in Groups
      BY <1>4, <1>10, <2>2
    <2>4. CASE Then(c, Tail(todo[c]))
      BY <1>2, <2>1, <2>2, <2>4, ShapeReturns, ShapeFrame
    <2>5. CASE Then(c, <<"save_sess">> \o Tail(todo[c]))
      <3> DEFINE u == Tail(todo[c])  v == <<"save_sess">> \o u
      <3>1. /\ u # << >> /\ u \in Seq(Calls) /\ Chained(u, cmd[c].op) /\ Head(u) = "link"
            /\ u[Len(u)] = todo[c][Len(todo[c])]
        <4>1. u # << >>
          BY <2>2, Successor DEF Works
        <4>2. Chained(u, cmd[c].op) /\ <<"displace", Head(u)>> \in Follows
          BY <2>2, <4>1, ShorterChained DEF Works
        <4>3. u \in Seq(Calls) /\ u[Len(u)] = todo[c][Len(todo[c])]
          BY <2>2, <4>1, Shorter DEF Works
        <4> QED
          BY <4>1, <4>2, <4>3 DEF Follows
      <3> HIDE DEF u
      <3>2. v # << >> /\ Chained(v, cmd[c].op) /\ Head(v) = "save_sess" /\ v[Len(v)] = u[Len(u)]
        BY <2>2, <3>1, Prefixed
      <3>3. todo'[c] = v
        BY <1>2, <2>5 DEF u
      <3>4. Shaped(c)'
        <4>1. Goal(c)' = Goal(c) /\ Id(c)' = Id(c) /\ cmd'[c].op = cmd[c].op
          BY <2>1 DEF Goal, Found, Chat, Id
        <4> HIDE DEF v
        <4>2. /\ cmd'[c].op \in Own /\ Id(c)' \in Ids /\ Chained(v, cmd'[c].op)
              /\ Goal(c)' \in Chats
              /\ v[Len(v)] = "card" => Goal(c)' \in Groups
          <5>1. cmd'[c].op \in Own /\ Id(c)' \in Ids /\ Goal(c)' \in Chats
            BY <2>2, <2>3, <4>1
          <5>2. Chained(v, cmd'[c].op)
            BY <3>2, <4>1
          <5>3. v[Len(v)] = todo[c][Len(todo[c])]
            BY <3>1, <3>2
          <5> QED
            BY <2>3, <4>1, <5>1, <5>2, <5>3
        <4> QED
          BY <3>3, <4>2, ShapeGoesOn
      <3> QED
        BY <2>1, <3>4, ShapeFrame
    <2> QED
      BY <1>10, <2>4, <2>5 DEF Displace, Return
  <1>11. ASSUME UNCHANGED <<todo, cmd>>, NEW d \in Commands PROVE Shaped(d)'
    BY <1>11, ShapeFrame
  <1>12. ASSUME Crash, NEW d \in Commands PROVE Shaped(d)'
    BY <1>12 DEF Crash, Shaped, Works
  <1>13. ASSUME NEW s \in Chats, RunBegins(s) \/ RunFails(s) \/ RunEnds(s)
         PROVE  UNCHANGED <<todo, cmd>>
    BY <1>13 DEF RunBegins, RunFails, RunEnds
  <1>14. ASSUME NEW g \in Groups, LoseGroup(g) PROVE UNCHANGED <<todo, cmd>>
    BY <1>14 DEF LoseGroup
  <1>15. UNCHANGED bindVars => UNCHANGED <<todo, cmd>>
    BY DEF bindVars
  <1>16. ASSUME NEW c \in Commands, Command(c), NEW d \in Commands PROVE Shaped(d)'
    BY <1>1, <1>3, <1>5, <1>7, <1>8, <1>9, <1>10, <1>16 DEF Command, Simple
  <1> QED
    BY <1>11, <1>12, <1>13, <1>14, <1>15, <1>16 DEF BindNext

------------------------------------------------------------------------------
LEMMA EndStep == BindTypeOK /\ EndInv /\ [BindNext]_bindVars => EndInv'
  <1> SUFFICES ASSUME BindTypeOK, EndInv, [BindNext]_bindVars PROVE EndInv'
    OBVIOUS
  <1>0. run \in [Chats -> Ids \cup {None}] /\ sess \in [Chats -> Ids \cup {None}]
        /\ ending \in [Chats -> Seq({"set", "record", "save_sess", "save_bind"})]
    BY DEF BindTypeOK, Sessions
  <1>1. ASSUME NEW s \in Chats, RunBegins(s) PROVE EndInv'
    <2>1. PICK x \in Ids : run' = [run EXCEPT ![s] = x]
      BY <1>0, <1>1 DEF RunBegins
    <2>2. ending' = [ending EXCEPT ![s] = Ends]
      BY <1>1 DEF RunBegins, Ends
    <2> QED
      BY <1>0, <2>1, <2>2 DEF EndInv, Endings
  <1>2. ASSUME NEW s \in Chats, RunFails(s) PROVE EndInv'
    BY <1>0, <1>2 DEF RunFails, EndInv, Endings
  <1>3. ASSUME NEW s \in Chats, RunEnds(s) PROVE EndInv'
    <2>1. ending[s] \in Endings \ {<< >>} /\ run[s] \in Ids
      BY <1>3 DEF EndInv, RunEnds
    <2>2. /\ Tail(ending[s]) \in Endings
          /\ Head(ending[s]) = "save_bind" => Tail(ending[s]) = << >>
      <3>1. CASE ending[s] = <<"set", "record", "save_sess", "save_bind">>
        BY <3>1 DEF Endings
      <3>2. CASE ending[s] = <<"record", "save_sess", "save_bind">>
        BY <3>2 DEF Endings
      <3>3. CASE ending[s] = <<"save_sess", "save_bind">>
        BY <3>3 DEF Endings
      <3>4. CASE ending[s] = <<"save_bind">>
        BY <3>4 DEF Endings
      <3> QED
        BY <2>1, <3>1, <3>2, <3>3, <3>4 DEF Endings, Ends
    <2>3. /\ ending' = [ending EXCEPT ![s] = Tail(ending[s])]
          /\ run' = run \/ (Head(ending[s]) = "save_bind" /\ run' = [run EXCEPT ![s] = None])
      BY <1>3 DEF RunEnds
    <2> QED
      BY <1>0, <2>1, <2>2, <2>3 DEF EndInv
  <1>4. ASSUME Crash PROVE EndInv'
    BY <1>4 DEF Crash, EndInv, Endings
  <1>5. ASSUME UNCHANGED <<run, ending>> PROVE EndInv'
    BY <1>5 DEF EndInv
  <1>6. ASSUME NEW c \in Commands, Command(c) PROVE UNCHANGED <<run, ending>>
    BY <1>6, Sends, Simples DEF Command, Simple, Check, Lookup, Fallback, Reuse, Create, Displace
  <1>7. ASSUME NEW g \in Groups, LoseGroup(g) PROVE UNCHANGED <<run, ending>>
    BY <1>7 DEF LoseGroup
  <1>8. UNCHANGED bindVars => UNCHANGED <<run, ending>>
    BY DEF bindVars
  <1> QED
    BY <1>1, <1>2, <1>3, <1>4, <1>5, <1>6, <1>7, <1>8 DEF BindNext

------------------------------------------------------------------------------
\* A call of a command changes no other, and not what its own is about.
LEMMA OtherCommands ==
  ASSUME BindTypeOK, ShapeInv, NEW c \in Commands, Command(c), ~Send(c)
  PROVE  /\ Works(c) /\ raced' = raced
         /\ \A d \in Commands : /\ Id(d)' = Id(d) /\ cmd'[d].op = cmd[d].op /\ Chat(d)' = Chat(d)
                                /\ d # c => todo'[d] = todo[d] /\ cmd'[d] = cmd[d]
  <1>0. todo \in [Commands -> Seq(Calls)]
    BY DEF BindTypeOK
  <1>1. CASE Simple(c)
    BY <1>0, <1>1, Simples DEF Id, Chat
  <1>2. CASE ~Simple(c)
    <2>1. Check(c) \/ Lookup(c) \/ Fallback(c) \/ Reuse(c) \/ Create(c) \/ Displace(c)
      BY <1>2 DEF Command, Simple
    <2>2. Works(c) /\ raced' = raced
      BY <2>1 DEF Check, Lookup, Fallback, Reuse, Create, Displace, Call, Works, answerVars
    <2>3. \E t : todo' = [todo EXCEPT ![c] = t]
      BY <2>1 DEF Check, Lookup, Fallback, Reuse, Create, Displace, Then, Return
    <2>4. cmd' = cmd \/ \E s \in Chats \cup {None} : Find(c, s)
      <3>1. CASE Check(c) \/ Lookup(c)
        <4>1. bind[Id(c)] \in Chats \cup {None}
          BY <2>2, <3>1, AboutSession DEF Check, Lookup, Call, Leaving, BindTypeOK, Bound
        <4> QED
          BY <3>1, <4>1 DEF Check, Lookup
      <3>2. CASE Fallback(c) \/ Reuse(c) \/ Displace(c)
        BY <3>2 DEF Fallback, Reuse, Displace
      <3>3. CASE Create(c)
        BY <3>3 DEF Create, Chats
      <3> QED
        BY <2>1, <3>1, <3>2, <3>3
    <2>5. \A d \in Commands : /\ Id(d)' = Id(d) /\ cmd'[d].op = cmd[d].op /\ Chat(d)' = Chat(d)
                              /\ d # c => cmd'[d] = cmd[d]
      BY <2>4, Finds DEF Id, Chat
    <2> QED
      BY <1>0, <2>2, <2>3, <2>5
  <1> QED
    BY <1>1, <1>2

\* Two commands overlap when the second is sent, and that is noted.
LEMMA AloneStep == BindTypeOK /\ ShapeInv /\ AloneInv /\ [BindNext]_bindVars => AloneInv'
  <1> SUFFICES ASSUME BindTypeOK, ShapeInv, AloneInv, [BindNext]_bindVars PROVE AloneInv'
    OBVIOUS
  <1>0. None \notin Ids /\ todo \in [Commands -> Seq(Calls)] /\ cmd \in [Commands -> Records]
    BY Constants DEF BindTypeOK, Records
  <1>1. ASSUME NEW c \in Commands, Send(c) PROVE AloneInv'
    <2>1. PICK op, s, x : Sent(c, op, s, x)
      BY <1>1, Sends
    <2>2. /\ cmd'[c] = [op |-> op, chat |-> s, id |-> x, found |-> None]
          /\ \A d \in Commands : d # c => cmd'[d] = cmd[d] /\ todo'[d] = todo[d]
          /\ raced \subseteq raced'
          /\ \A d \in Commands : d # c => Overlap(op, x, d) \subseteq raced'
      BY <1>0, <2>1 DEF Sent
    <2>3. Id(c)' = x /\ \A d \in Commands : d # c => Id(d)' = Id(d)
      BY <2>2 DEF Id
    <2>4. x \in Ids <=> op \in Own
      BY <1>0, <2>1 DEF Sent, Operations, Own, Away
    <2>5. ASSUME NEW d \in Commands, d # c, Works(d), Id(d) \in Ids, x \in {Id(d), None}
          PROVE  Id(d) \in raced'
      <3>1. Id(d) \in Overlap(op, x, d)
        <4>1. CASE op \in Away
          BY <1>0, <2>5, <4>1 DEF Overlap, Away, Works, Id
        <4>2. CASE op \in Own
          BY <1>0, <2>4, <2>5, <4>2 DEF Overlap, Own, Works, Id
        <4> QED
          BY <2>1, <4>1, <4>2 DEF Sent, Operations, Own, Away
      <3> QED
        BY <2>2, <2>5, <3>1
    <2>6. ASSUME NEW d \in Commands, d # c, Works(d), x \in Ids, Id(d) \in {x, None}
          PROVE  x \in raced'
      <3>1. Id(d) = None => cmd[d].op \in Away
        BY <1>0, <2>6 DEF ShapeInv, Shaped, Operations, Own, Away
      <3>2. x \in Overlap(op, x, d)
        BY <1>0, <2>4, <2>6, <3>1 DEF Overlap, Own, Away, Works, Id
      <3> QED
        BY <2>2, <2>6, <3>2
    <2>7. ASSUME NEW d \in Commands, NEW e \in Commands, d # e, Works(d)', Works(e)',
                 Id(d)' \in Ids, Id(e)' \in {Id(d)', None}
          PROVE  Id(d)' \in raced'
      <3>1. CASE d = c
        BY <2>2, <2>3, <2>6, <2>7, <3>1 DEF Works
      <3>2. CASE e = c
        BY <2>2, <2>3, <2>5, <2>7, <3>2 DEF Works
      <3>3. CASE d # c /\ e # c
        BY <2>2, <2>3, <2>7, <3>3 DEF AloneInv, Works
      <3> QED
        BY <3>1, <3>2, <3>3
    <2> QED
      BY <2>7 DEF AloneInv
  <1>2. ASSUME NEW c \in Commands, Command(c), ~Send(c) PROVE AloneInv'
    <2>1. raced' = raced /\ \A d \in Commands : Id(d)' = Id(d) /\ (Works(d)' => Works(d))
      BY <1>2, OtherCommands DEF Works
    <2> QED
      BY <2>1 DEF AloneInv
  <1>3. ASSUME raced' = raced, UNCHANGED <<todo, cmd>> PROVE AloneInv'
    BY <1>3 DEF AloneInv, Works, Id
  <1>4. ASSUME Crash PROVE AloneInv'
    BY <1>4 DEF Crash, AloneInv, Works
  <1>5. ASSUME NEW s \in Chats, RunBegins(s) \/ RunFails(s) \/ RunEnds(s) PROVE AloneInv'
    BY <1>3, <1>5 DEF RunBegins, RunFails, RunEnds, answerVars
  <1>6. ASSUME NEW g \in Groups, LoseGroup(g) PROVE AloneInv'
    BY <1>3, <1>6 DEF LoseGroup
  <1>7. CASE UNCHANGED bindVars
    BY <1>3, <1>7 DEF bindVars
  <1> QED
    BY <1>1, <1>2, <1>4, <1>5, <1>6, <1>7 DEF BindNext

------------------------------------------------------------------------------
\* What a step that is not a call of x's command may do: forget the answer, bind
\* x when it is free, save, begin a command.
LEMMA SureFrame ==
  ASSUME BindTypeOK, ShapeInv, NEW x \in Ids, Sure(x),
         (chosen'[x] = chosen[x] /\ told'[x] = told[x]) \/ (chosen'[x] = None /\ told'[x] = None),
         bind'[x] = bind[x] \/ bind[x] = None,
         saved'.bind[x] \in {saved.bind[x], bind[x]},
         chosen'[x] # None => Live(chosen[x])',
         \A c \in Commands : Works(c)' /\ Id(c)' = x =>
           \/ todo'[c] = todo[c] /\ cmd'[c] = cmd[c]
           \/ Len(todo'[c]) = 1 /\ Head(todo'[c]) \in {"check", "lookup"},
         \A c \in Commands : Works(c)' /\ cmd'[c].op \in Away =>
           \/ Works(c) /\ cmd[c].op \in Away /\ Chat(c)' = Chat(c)
           \/ Chat(c)' # chosen'[x]
  PROVE  Sure(x)'
  <1>0. None \notin Ids /\ None \notin Chats
    BY Constants
  <1>1. Kept(x)'
    <2>1. chosen[x] # None => bind[x] = chosen[x] /\ saved.bind[x] = chosen[x]
      BY DEF Sure, Kept
    <2>2. chosen'[x] # None => bind'[x] = chosen'[x] /\ saved'.bind[x] = chosen'[x]
      BY <2>1
    <2>3. chosen'[x] # None => Live(chosen[x])' /\ chosen[x] = chosen'[x]
      OBVIOUS
    <2>4. told'[x] # None => told'[x] = chosen'[x] /\ told'[x] \in Groups
      BY DEF Sure, Kept
    <2>5. chosen'[x] # None => chats'[chosen'[x]] = "live"
      BY <2>3 DEF Live
    <2> QED
      BY <2>2, <2>4, <2>5 DEF Kept, Live
  <1>2. ASSUME NEW c \in Commands, Works(c)', Id(c)' = x PROVE Stage(c, x)'
    <2>0. CASE Len(todo'[c]) = 1 /\ Head(todo'[c]) \in {"check", "lookup"}
      BY <2>0 DEF Stage
    <2>1. CASE todo'[c] = todo[c] /\ cmd'[c] = cmd[c]
      <3>2. Works(c) /\ Id(c) = x /\ Goal(c)' = Goal(c) /\ Found(c)' = Found(c)
        BY <1>2, <2>1 DEF Works, Id, Goal, Found, Chat
      <3>3. Stage(c, x)
        BY <3>2 DEF Sure
      <3>4. Head(todo[c]) \notin {"lookup", "create"} => Goal(c) \in Chats
        BY <1>0, <3>2 DEF ShapeInv, Shaped, Operations, Own, Away
      <3>5. Head(todo[c]) \in {"save_bind", "reply", "card"} => bind'[x] = Goal(c)
        BY <1>0, <3>3, <3>4 DEF Stage
      <3>6. Head(todo[c]) \in {"reply", "card"} => saved'.bind[x] = Goal(c)
        BY <3>3 DEF Stage
      <3>7. Len(todo[c]) > 1 \/ Head(todo[c]) \in {"fallback", "reply", "card"} => chosen'[x] = None
        BY <3>3 DEF Stage
      <3>8. /\ Head(todo[c]) = "reuse" /\ chosen'[x] # None => Found(c) = chosen'[x]
            /\ Head(todo[c]) = "create" => told'[x] = None
        BY <3>3 DEF Stage
      <3> QED
        BY <2>1, <3>2, <3>5, <3>6, <3>7, <3>8 DEF Stage
    <2> QED
      BY <1>2, <2>0, <2>1
  <1>3. \A c \in Commands : Works(c)' /\ cmd'[c].op \in Away =>
          chosen'[x] # Chat(c)' \/ chosen'[x] = None
    BY DEF Sure
  <1> QED
    BY <1>1, <1>2, <1>3 DEF Sure

\* A command on x that is not raced is the only one.
LEMMA OnlyOne ==
  ASSUME BindTypeOK, ShapeInv, AloneInv, NEW c \in Commands, Works(c), Id(c) \in Ids \ raced,
         NEW d \in Commands, d # c, Works(d)
  PROVE  Id(d) # Id(c) /\ cmd[d].op \notin Away
  <1>1. Id(d) \notin {Id(c), None}
    BY DEF AloneInv
  <1> QED
    BY <1>1 DEF ShapeInv, Shaped

\* A step of the command on x, when it keeps what is said of it.
LEMMA SureOwn ==
  ASSUME BindTypeOK, ShapeInv, AloneInv, NEW c \in Commands, Command(c), ~Send(c),
         Id(c) \in Ids \ raced, Kept(Id(c))', Works(c)' => Stage(c, Id(c))'
  PROVE  Sure(Id(c))'
  <1>0. None \notin Ids
    BY Constants
  <1>1. /\ Works(c) /\ cmd[c].op \notin Away
        /\ \A d \in Commands : /\ Id(d)' = Id(d) /\ cmd'[d].op = cmd[d].op
                               /\ d # c => (Works(d)' => Works(d))
    BY <1>0, OtherCommands DEF Works, ShapeInv, Shaped
  <1>2. \A d \in Commands : d # c /\ Works(d)' => Id(d)' # Id(c) /\ cmd'[d].op \notin Away
    BY <1>1, OnlyOne
  <1>3. DEFINE x == Id(c)
  <1>4. \A d \in Commands : Works(d)' /\ Id(d)' = x => Stage(d, x)'
    BY <1>1, <1>2
  <1>5. \A d \in Commands : Works(d)' => cmd'[d].op \notin Away
    BY <1>1, <1>2
  <1> QED
    BY <1>1, <1>4, <1>5 DEF Sure

\* A command that is at work on x and not raced.
LEMMA Working ==
  ASSUME BindTypeOK, ShapeInv, SureInv, NEW c \in Commands, Works(c), Id(c) \in Ids \ raced
  PROVE  /\ Kept(Id(c)) /\ Stage(c, Id(c))
         /\ todo[c] \in Seq(Calls) /\ todo[c] # << >> /\ Len(todo[c]) \in Nat \ {0}
         /\ cmd[c].op \in Own /\ Chained(todo[c], cmd[c].op)
         /\ Tail(todo[c]) # << >> => /\ Len(todo[c]) > 1 /\ chosen[Id(c)] = None
                                     /\ told[Id(c)] = None
                                     /\ <<Head(todo[c]), Head(Tail(todo[c]))>> \in Follows
         /\ Head(todo[c]) \notin {"lookup", "create"} => Goal(c) \in Chats
         /\ Head(todo[c]) = "card" => Goal(c) \in Groups
  <1>0. None \notin Ids
    BY Constants
  <1>1. Kept(Id(c)) /\ Stage(c, Id(c))
    BY DEF SureInv, Sure
  <1>2. todo[c] \in Seq(Calls) /\ todo[c] # << >>
    BY DEF BindTypeOK, Works
  <1>3. /\ cmd[c].op \in Own /\ Chained(todo[c], cmd[c].op)
        /\ Head(todo[c]) \notin {"lookup", "create"} => Goal(c) \in Chats
        /\ todo[c][Len(todo[c])] = "card" => Goal(c) \in Groups
    BY <1>0 DEF ShapeInv, Shaped, Operations, Own, Away
  <1>4. Len(todo[c]) \in Nat \ {0} /\ (Tail(todo[c]) = << >> <=> Len(todo[c]) = 1)
        /\ Head(todo[c]) = todo[c][1]
    BY <1>2, Shorter
  <1>5. Tail(todo[c]) # << >> => /\ Len(todo[c]) > 1
                                 /\ <<Head(todo[c]), Head(Tail(todo[c]))>> \in Follows
    <2>1. Tail(todo[c]) # << >> => <<Head(todo[c]), Head(Tail(todo[c]))>> \in Follows
      BY <1>2, <1>3, ShorterChained
    <2>2. \A n \in Nat \ {0} : n # 1 => n > 1
      OBVIOUS
    <2>3. Tail(todo[c]) # << >> => Len(todo[c]) > 1
      BY <1>4, <2>2
    <2> QED
      BY <2>1, <2>3
  <1>6. Len(todo[c]) > 1 => chosen[Id(c)] = None /\ told[Id(c)] = None
    BY <1>1 DEF Stage, Kept
  <1>7. Head(todo[c]) = "card" => Goal(c) \in Groups
    BY <1>2, <1>3, <1>4, Successor
  <1> QED
    BY <1>1, <1>2, <1>3, <1>4, <1>5, <1>6, <1>7

\* What a step of such a command keeps of what is said about x.
Keeps(c) == Kept(Id(c))' /\ (Works(c)' => Stage(c, Id(c))')

\* A call that is not the last one: the answer is forgotten already.
LEMMA GoesOn ==
  ASSUME BindTypeOK, ShapeInv, SureInv, NEW c \in Commands, Works(c), Id(c) \in Ids \ raced,
         Tail(todo[c]) # << >>, todo'[c] = Tail(todo[c]), UNCHANGED <<cmd, chosen, told>>,
         Head(Tail(todo[c])) = "save_bind" => bind'[Id(c)] = Goal(c),
         Head(Tail(todo[c])) \in {"reply", "card"} =>
           bind'[Id(c)] = Goal(c) /\ saved'.bind[Id(c)] = Goal(c)
  PROVE  Keeps(c)
  <1>1. chosen'[Id(c)] = None /\ told'[Id(c)] = None
    BY Working
  <1>2. Id(c)' = Id(c) /\ Goal(c)' = Goal(c)
    BY DEF Id, Goal, Found, Chat
  <1>3. Kept(Id(c))'
    BY <1>1, <1>2 DEF Kept
  <1>4. Stage(c, Id(c))'
    BY <1>1, <1>2 DEF Stage
  <1> QED
    BY <1>3, <1>4 DEF Keeps

\* The last call of a command, or one that gives up.
LEMMA GivesUp ==
  ASSUME BindTypeOK, ShapeInv, SureInv, NEW c \in Commands, Works(c), Id(c) \in Ids \ raced,
         todo'[c] = << >>, Id(c)' = Id(c), UNCHANGED <<bind, chosen, told, chats>>,
         saved'.bind = saved.bind
  PROVE  Keeps(c)
  <1>1. Kept(Id(c))
    BY Working
  <1>2. Kept(Id(c))'
    BY <1>1 DEF Kept, Live
  <1> QED
    BY <1>2 DEF Keeps, Works

LEMMA SimpleKeeps ==
  ASSUME BindTypeOK, ShapeInv, SureInv, NEW c \in Commands, Simple(c), Id(c) \in Ids \ raced
  PROVE  Keeps(c)
  <1> DEFINE x == Id(c)
  <1>0. /\ bind \in Bound /\ chosen \in Bound /\ told \in Bound /\ todo \in [Commands -> Seq(Calls)]
        /\ saved \in [sess : Sessions, bind : Bound] /\ None \notin Ids /\ None \notin Chats
    BY Constants DEF BindTypeOK
  <1>1. Works(c) /\ todo'[c] = Tail(todo[c]) /\ UNCHANGED <<cmd, chats>> /\ x' = x
    BY <1>0, Simples DEF Id
  <1>2. /\ Kept(x) /\ Stage(c, x) /\ todo[c] \in Seq(Calls) /\ todo[c] # << >>
        /\ Chained(todo[c], cmd[c].op) /\ cmd[c].op \in Own
        /\ Tail(todo[c]) # << >> => <<Head(todo[c]), Head(Tail(todo[c]))>> \in Follows
        /\ Head(todo[c]) \notin {"lookup", "create"} => Goal(c) \in Chats
        /\ Head(todo[c]) = "card" => Goal(c) \in Groups
    BY <1>1, Working
  <1>3. /\ Head(todo[c]) \in {"reply", "card"} => Tail(todo[c]) = << >>
        /\ Head(todo[c]) \in {"adopt", "displace", "link", "evict", "unlink", "save_bind"} =>
             Tail(todo[c]) # << >>
        /\ Head(todo[c]) \notin {"release", "leave"}
    BY <1>2, Successor DEF Never
  <1>4. ASSUME Adopt(c) \/ Evict(c) \/ Unlink(c) PROVE Keeps(c)
    <2>1. Head(todo[c]) \in {"adopt", "evict", "unlink"} /\ UNCHANGED <<chosen, told>>
      BY <1>4 DEF Adopt, Evict, Unlink, Call, answerVars
    <2>2. Head(Tail(todo[c])) \notin {"save_bind", "reply", "card"}
      BY <1>2, <1>3, <2>1 DEF Follows
    <2> QED
      BY <1>1, <1>3, <2>1, <2>2, GoesOn
  <1>5. ASSUME Link(c) PROVE Keeps(c)
    <2>1. Head(todo[c]) = "link" /\ UNCHANGED <<chosen, told>> /\ bind'[x] = Goal(c)
      BY <1>0, <1>5 DEF Link, Call, answerVars, Bound
    <2>2. Head(Tail(todo[c])) = "save_bind"
      BY <1>2, <1>3, <2>1 DEF Follows
    <2> QED
      BY <1>1, <1>3, <2>1, <2>2, GoesOn
  <1>6. ASSUME SaveBind(c) PROVE Keeps(c)
    <2>1. /\ Head(todo[c]) = "save_bind" /\ UNCHANGED <<chosen, told, bind>>
          /\ saved'.bind = bind
      BY <1>0, <1>6 DEF SaveBind, Call, answerVars
    <2>2. bind[x] = Goal(c)
      BY <1>2, <2>1 DEF Stage
    <2> QED
      BY <1>1, <1>3, <2>1, <2>2, GoesOn
  <1>7. ASSUME SaveSess(c) PROVE Keeps(c)
    <2>1. /\ Head(todo[c]) = "save_sess" /\ UNCHANGED <<chosen, told, bind>>
          /\ saved'.bind = saved.bind
      BY <1>0, <1>7 DEF SaveSess, Call, answerVars
    <2>2. CASE Tail(todo[c]) = << >>
      BY <1>1, <2>1, <2>2, GivesUp
    <2>3. CASE Tail(todo[c]) # << >>
      <3>1. Head(Tail(todo[c])) \notin {"save_bind", "reply", "card"}
        BY <1>2, <2>1, <2>3 DEF Follows
      <3> QED
        BY <1>1, <2>1, <2>3, <3>1, GoesOn
    <2> QED
      BY <2>2, <2>3
  <1>8. ASSUME Reply(c) \/ Card(c) PROVE Keeps(c)
    <2>1. /\ Head(todo[c]) \in {"reply", "card"} /\ UNCHANGED <<bind, saved>>
          /\ chosen'[x] = Reached(c)
          /\ told'[x] = told[x] \/ (Head(todo[c]) = "card" /\ told'[x] = Reached(c))
      BY <1>0, <1>8 DEF Reply, Card, Call, stores, Bound
    <2>2. bind[x] = Goal(c) /\ saved.bind[x] = Goal(c) /\ chosen[x] = None
      BY <1>2, <2>1 DEF Stage
    <2>3. told[x] = None
      BY <1>2, <2>2 DEF Kept
    <2>4. Reached(c) # None => Reached(c) = Goal(c) /\ Live(Goal(c))
      BY DEF Reached
    <2>5. Kept(x)'
      <3>1. chosen'[x] # None =>
              bind'[x] = chosen'[x] /\ saved'.bind[x] = chosen'[x] /\ chats'[chosen'[x]] = "live"
        BY <1>1, <2>1, <2>2, <2>4 DEF Live
      <3>2. told'[x] # None => told'[x] = chosen'[x] /\ told'[x] \in Groups
        BY <1>2, <2>1, <2>3, <2>4
      <3> QED
        BY <1>1, <3>1, <3>2 DEF Kept, Live
    <2>6. ~Works(c)'
      BY <1>1, <1>3, <2>1 DEF Works
    <2> QED
      BY <2>5, <2>6 DEF Keeps
  <1>9. ~ReleaseChat(c) /\ ~ClearSession(c)
    BY <1>3 DEF ReleaseChat, ClearSession, Call
  <1> QED
    BY <1>4, <1>5, <1>6, <1>7, <1>8, <1>9 DEF Simple

LEMMA Keeping ==
  ASSUME BindTypeOK, ShapeInv, SureInv, NEW c \in Commands, Command(c), ~Send(c),
         Id(c) \in Ids \ raced
  PROVE  Keeps(c)
  <1> DEFINE x == Id(c)
  <1>0. /\ bind \in Bound /\ chosen \in Bound /\ told \in Bound /\ todo \in [Commands -> Seq(Calls)]
        /\ None \notin Ids /\ None \notin Chats
    BY Constants DEF BindTypeOK
  <1>1. Works(c) /\ x' = x /\ cmd'[c].op = cmd[c].op /\ Chat(c)' = Chat(c)
    BY OtherCommands
  <1>2. /\ Kept(x) /\ Stage(c, x) /\ todo[c] \in Seq(Calls) /\ todo[c] # << >>
        /\ Chained(todo[c], cmd[c].op) /\ cmd[c].op \in Own
        /\ Tail(todo[c]) # << >> => <<Head(todo[c]), Head(Tail(todo[c]))>> \in Follows
    BY <1>1, Working
  <1>3. ASSUME NEW t, Then(c, t) PROVE todo'[c] = t
    BY <1>0, <1>3 DEF Then
  <1>4. ASSUME chosen'[x] = None, told'[x] = None, NEW t, Then(c, t),
               Head(t) \notin {"save_bind", "reply", "card"}
        PROVE  Keeps(c)
    <2>1. Kept(x)'
      BY <1>1, <1>4 DEF Kept
    <2>2. Stage(c, x)'
      BY <1>1, <1>3, <1>4 DEF Stage
    <2> QED
      BY <1>1, <2>1, <2>2 DEF Keeps
  <1>5. ASSUME Check(c) PROVE Keeps(c)
    <2>1. CASE todo'[c] = << >> /\ UNCHANGED <<told, chosen>>
      BY <1>1, <1>5, <2>1, GivesUp DEF Check, stores
    <2>2. ASSUME NEW t \in {Adopting, <<"evict", "unlink">> \o Adopting}, Then(c, t),
                 told' = [told EXCEPT ![x] = None], chosen' = [chosen EXCEPT ![x] = None]
          PROVE  Keeps(c)
      <3>1. Head(t) \notin {"save_bind", "reply", "card"}
        BY <2>2, Heads
      <3>2. chosen'[x] = None /\ told'[x] = None
        BY <1>0, <2>2 DEF Bound
      <3> QED
        BY <1>4, <2>2, <3>1, <3>2
    <2>3. \/ Then(c, << >>) /\ UNCHANGED <<told, chosen>>
          \/ /\ \E t \in {Adopting, <<"evict", "unlink">> \o Adopting} : Then(c, t)
             /\ told' = [told EXCEPT ![x] = None] /\ chosen' = [chosen EXCEPT ![x] = None]
      BY <1>5 DEF Check
    <2> QED
      BY <1>3, <2>1, <2>2, <2>3
  <1>6. ASSUME Lookup(c) PROVE Keeps(c)
    <2>1. UNCHANGED <<bind, saved, chosen, told, chats>>
      BY <1>6 DEF Lookup, stores, answerVars
    <2>2. Kept(x)'
      BY <1>1, <1>2, <2>1 DEF Kept, Live
    <2>3. CASE bind[x] # None
      <3>1. Find(c, bind[x]) /\ Then(c, <<"reuse">>)
        BY <1>6, <2>3 DEF Lookup
      <3>2. bind[x] \in Chats \cup {None}
        BY <1>0 DEF Bound
      <3>3. Found(c)' = bind[x] /\ todo'[c] = <<"reuse">>
        BY <1>3, <3>1, <3>2, Finds
      <3>4. chosen'[x] # None => Found(c)' = chosen'[x]
        BY <1>2, <2>1, <3>3 DEF Kept
      <3>5. Stage(c, x)'
        BY <1>1, <3>3, <3>4 DEF Stage
      <3> QED
        BY <1>1, <2>2, <3>5 DEF Keeps
    <2>4. CASE bind[x] = None
      <3>1. chosen'[x] = None /\ told'[x] = None
        BY <1>2, <2>1, <2>4 DEF Kept
      <3>2. Then(c, <<"create">>) \/ Then(c, <<"fallback">>)
        BY <1>6, <2>4 DEF Lookup
      <3>3. Head(<<"create">>) = "create" /\ Head(<<"fallback">>) = "fallback"
        OBVIOUS
      <3> QED
        BY <1>4, <3>1, <3>2, <3>3
    <2> QED
      BY <2>3, <2>4
  <1>7. ASSUME Fallback(c) PROVE Keeps(c)
    <2>1. Head(todo[c]) = "fallback" /\ UNCHANGED <<chosen, told, cmd>>
      BY <1>7 DEF Fallback, Call, answerVars
    <2>2. chosen'[x] = None /\ told'[x] = None
      BY <1>2, <2>1 DEF Stage, Kept
    <2>3. CASE Then(c, <<"create">>)
      <3>1. Head(<<"create">>) = "create"
        OBVIOUS
      <3> QED
        BY <1>4, <2>2, <2>3, <3>1
    <2>4. CASE Then(c, <<"save_bind", "reuse">>) /\ bind' = [bind EXCEPT ![x] = Found(c)]
      <3>1. bind'[x] = Found(c)
        BY <1>0, <2>4 DEF Bound
      <3>2. cmd[c].op = "open"
        BY <1>2, <2>1, Successor DEF Never, Own
      <3>3. bind'[x] = Goal(c)'
        BY <2>1, <3>1, <3>2 DEF Goal, Found
      <3>4. todo'[c] = <<"save_bind", "reuse">>
        BY <1>3, <2>4
      <3>5. Kept(x)'
        BY <1>1, <2>2 DEF Kept
      <3>6. Stage(c, x)'
        BY <1>1, <2>2, <3>3, <3>4, Heads DEF Stage
      <3> QED
        BY <1>1, <3>5, <3>6 DEF Keeps
    <2> QED
      BY <1>7, <2>3, <2>4 DEF Fallback
  <1>8. ASSUME Reuse(c) PROVE Keeps(c)
    <2>1. Head(todo[c]) = "reuse" /\ UNCHANGED <<bind, saved, cmd, chats>>
      BY <1>8 DEF Reuse, Call
    <2>2. chosen[x] # None => Found(c) = chosen[x] /\ Live(Found(c))
      BY <1>2, <2>1 DEF Stage, Kept
    <2>3. UNCHANGED <<told, chosen>> => Kept(x)'
      BY <1>1, <1>2, <2>1 DEF Kept, Live
    <2>4. CASE Then(c, <<"save_sess">>) /\ UNCHANGED <<told, chosen>>
      <3>1. todo'[c] = <<"save_sess">>
        BY <1>3, <2>4
      <3>2. Stage(c, x)'
        BY <1>1, <3>1 DEF Stage
      <3> QED
        BY <1>1, <2>3, <2>4, <3>2 DEF Keeps
    <2>5. CASE /\ told' = [told EXCEPT ![x] = None] /\ chosen' = [chosen EXCEPT ![x] = None]
               /\ Then(c, <<"unlink", "evict", "create">>)
      <3>1. chosen'[x] = None /\ told'[x] = None
        BY <1>0, <1>2, <2>5, Working DEF Bound
      <3> QED
        BY <1>4, <2>5, <3>1, Heads
    <2>6. CASE Found(c) \notin Groups /\ Then(c, <<"create">>) /\ UNCHANGED <<told, chosen>>
      <3>1. todo'[c] = <<"create">>
        BY <1>3, <2>6
      <3>2. told'[x] = None
        BY <1>2, <2>2, <2>6 DEF Kept
      <3>3. Stage(c, x)'
        BY <1>1, <3>1, <3>2 DEF Stage
      <3> QED
        BY <1>1, <2>3, <2>6, <3>3 DEF Keeps
    <2> QED
      BY <1>8, <2>4, <2>5, <2>6 DEF Reuse
  <1>9. ASSUME Create(c) PROVE Keeps(c)
    <2>1. Head(todo[c]) = "create" /\ UNCHANGED <<told, bind, saved>>
      BY <1>9 DEF Create, Call, stores
    <2>2. told'[x] = None
      BY <1>2, <2>1 DEF Stage
    <2>3. CASE Then(c, << >>) /\ UNCHANGED <<chats, chosen>>
      <3>1. Kept(x)' /\ ~Works(c)'
        BY <1>1, <1>2, <1>3, <2>1, <2>3 DEF Kept, Works, Live
      <3> QED
        BY <1>1, <3>1 DEF Keeps
    <2>4. CASE Then(c, Opening) /\ chosen' = [chosen EXCEPT ![x] = None]
      <3>1. chosen'[x] = None
        BY <1>0, <1>2, <2>4, Working DEF Bound
      <3> QED
        BY <1>4, <2>2, <2>4, <3>1, Heads
    <2> QED
      BY <1>9, <2>3, <2>4 DEF Create
  <1>10. ASSUME Displace(c) PROVE Keeps(c)
    <2>1. Head(todo[c]) = "displace" /\ UNCHANGED <<bind, saved, chosen, told, cmd, chats>>
      BY <1>10 DEF Displace, Call, answerVars
    <2>2. Tail(todo[c]) # << >>
      BY <1>2, <2>1, Successor
    <2>3. Head(Tail(todo[c])) = "link" /\ chosen[x] = None /\ told[x] = None
      BY <1>1, <1>2, <2>1, <2>2, Working DEF Follows
    <2>4. CASE Then(c, Tail(todo[c]))
      BY <1>1, <1>3, <2>1, <2>2, <2>3, <2>4, GoesOn
    <2>5. CASE Then(c, <<"save_sess">> \o Tail(todo[c]))
      <3>1. /\ Tail(todo[c]) \in Seq(Calls)
        BY <1>2, Shorter
      <3>2. Chained(Tail(todo[c]), cmd[c].op)
        BY <1>2, <2>2, ShorterChained
      <3>3. Head(<<"save_sess">> \o Tail(todo[c])) = "save_sess"
        BY <1>2, <2>2, <2>3, <3>1, <3>2, Prefixed
      <3> QED
        BY <1>4, <2>1, <2>3, <2>5, <3>3
    <2> QED
      BY <1>10, <2>4, <2>5 DEF Displace, Return
  <1>11. Simple(c) => Keeps(c)
    BY SimpleKeeps
  <1> QED
    BY <1>5, <1>6, <1>7, <1>8, <1>9, <1>10, <1>11 DEF Command, Simple

------------------------------------------------------------------------------
\* Giving a chat up forgets what was told of it.
LEMMA Forgets ==
  ASSUME BindTypeOK, NEW x \in Ids, Kept(x), NEW s \in Chats,
         told' = Released(told, s), chosen' = Released(chosen, s)
  PROVE  /\ chosen'[x] # s
         /\ \/ chosen'[x] = chosen[x] /\ told'[x] = told[x]
            \/ chosen'[x] = None /\ told'[x] = None
  <1>1. None \notin Chats
    BY Constants
  <1>2. told[x] # None => told[x] = chosen[x]
    BY DEF Kept
  <1>3. /\ told'[x] = IF told[x] = s THEN None ELSE told[x]
        /\ chosen'[x] = IF chosen[x] = s THEN None ELSE chosen[x]
    BY DEF Released
  <1> QED
    BY <1>1, <1>2, <1>3

LEMMA SureSend ==
  ASSUME BindTypeOK, ShapeInv, AloneInv, SureInv, NEW c \in Commands, Send(c),
         NEW x \in Ids \ raced'
  PROVE  Sure(x)'
  <1>0. /\ todo \in [Commands -> Seq(Calls)] /\ cmd \in [Commands -> Records]
        /\ None \notin Ids /\ None \notin Chats
    BY Constants DEF BindTypeOK, Records
  <1>1. PICK op, s, y : Sent(c, op, s, y)
    BY Sends
  <1>2. /\ todo[c] = << >> /\ UNCHANGED <<chats, sess, bind, saved>>
    BY Sends
  <1>3. /\ cmd'[c] = [op |-> op, chat |-> s, id |-> y, found |-> None]
        /\ todo'[c] = First[op]
        /\ \A d \in Commands : d # c => cmd'[d] = cmd[d] /\ todo'[d] = todo[d]
    BY <1>0, <1>1 DEF Sent
  <1>4. x \notin raced /\ \A d \in Commands : d # c => x \notin Overlap(op, y, d)
    BY <1>1 DEF Sent
  <1>5. Sure(x) /\ Kept(x)
    BY <1>4 DEF SureInv, Sure
  <1>6. ASSUME chosen'[x] \in {chosen[x], None} PROVE chosen'[x] # None => Live(chosen[x])'
    <2>1. chosen'[x] # None => chats[chosen'[x]] = "live"
      BY <1>5, <1>6 DEF Kept, Live
    <2> QED
      BY <1>2, <2>1 DEF Live
  <1>7. CASE op \in Own
    <2>1. UNCHANGED <<told, chosen>>
      BY <1>1, <1>7 DEF Sent
    <2>2. Len(todo'[c]) = 1 /\ Head(todo'[c]) \in {"check", "lookup"}
      <3>1. First[op] \in {<<"check">>, <<"lookup">>}
        BY <1>7 DEF First, Operations, Own
      <3> QED
        BY <1>3, <3>1
    <2>3. cmd'[c].op \notin Away
      BY <1>3, <1>7 DEF Own, Away
    <2>4. \A d \in Commands : Works(d)' /\ Id(d)' = x =>
            \/ todo'[d] = todo[d] /\ cmd'[d] = cmd[d]
            \/ Len(todo'[d]) = 1 /\ Head(todo'[d]) \in {"check", "lookup"}
      BY <1>3, <2>2
    <2>5. \A d \in Commands : Works(d)' /\ cmd'[d].op \in Away =>
            Works(d) /\ cmd[d].op \in Away /\ Chat(d)' = Chat(d)
      BY <1>3, <2>3 DEF Works, Chat
    <2> QED
      BY <1>2, <1>5, <1>6, <2>1, <2>4, <2>5, SureFrame
  <1>8. CASE op \in Away
    <2>1. /\ s \in Chats /\ y = None
          /\ told' = Released(told, s) /\ chosen' = Released(chosen, s)
      BY <1>1, <1>8 DEF Sent, Away
    <2>2. /\ chosen'[x] # s
          /\ \/ chosen'[x] = chosen[x] /\ told'[x] = told[x]
             \/ chosen'[x] = None /\ told'[x] = None
      BY <1>5, <2>1, Forgets
    <2>3. \A d \in Commands : Works(d)' /\ Id(d)' = x => todo'[d] = todo[d] /\ cmd'[d] = cmd[d]
      BY <1>0, <1>3, <2>1 DEF Id
    <2>4. \A d \in Commands : Works(d)' /\ cmd'[d].op \in Away =>
            \/ Works(d) /\ cmd[d].op \in Away /\ Chat(d)' = Chat(d)
            \/ Chat(d)' # chosen'[x]
      BY <1>3, <2>2 DEF Works, Chat
    <2> QED
      BY <1>2, <1>5, <1>6, <2>2, <2>3, <2>4, SureFrame
  <1> QED
    BY <1>1, <1>7, <1>8 DEF Sent, Operations, Own, Away

\* A call of a command that is not about x.
LEMMA SureAside ==
  ASSUME BindTypeOK, ShapeInv, AloneInv, SureInv, NEW c \in Commands, Command(c), ~Send(c),
         NEW x \in Ids \ raced, Id(c) # x
  PROVE  Sure(x)'
  <1>0. /\ bind \in Bound /\ chosen \in Bound /\ told \in Bound /\ None \notin Ids
        /\ saved \in [sess : Sessions, bind : Bound] /\ None \notin Chats
        /\ chats \in [Chats -> {"unknown", "live", "gone"}]
    BY Constants DEF BindTypeOK
  <1>1. /\ Works(c)
        /\ \A d \in Commands : /\ Id(d)' = Id(d) /\ cmd'[d].op = cmd[d].op /\ Chat(d)' = Chat(d)
                               /\ d # c => todo'[d] = todo[d] /\ cmd'[d] = cmd[d]
    BY OtherCommands
  <1>2. Sure(x) /\ Kept(x)
    BY DEF SureInv, Sure
  <1>3. /\ todo[c] \in Seq(Calls) /\ todo[c] # << >>
        /\ Head(todo[c]) = todo[c][1] /\ 1 \in 1..Len(todo[c])
    BY <1>1, Shorter DEF BindTypeOK, Works
  <1>4. /\ \A d \in Commands : Works(d)' /\ Id(d)' = x => todo'[d] = todo[d] /\ cmd'[d] = cmd[d]
        /\ \A d \in Commands : Works(d)' /\ cmd'[d].op \in Away =>
             Works(d) /\ cmd[d].op \in Away /\ Chat(d)' = Chat(d)
    BY <1>1 DEF Works
  <1>5. ASSUME chosen'[x] = chosen[x], told'[x] = told[x], bind'[x] = bind[x],
               saved'.bind[x] \in {saved.bind[x], bind[x]},
               \A s \in Chats : Live(s) => Live(s)'
        PROVE  Sure(x)'
    <2>1. chosen'[x] # None => Live(chosen[x])'
      BY <1>0, <1>2, <1>5 DEF Kept, Bound
    <2> QED
      BY <1>2, <1>4, <1>5, <2>1, SureFrame
  <1>6. ASSUME ReleaseChat(c) PROVE Sure(x)'
    <2>1. /\ Head(todo[c]) = "release" /\ bind' = Released(bind, Chat(c))
          /\ UNCHANGED <<saved, chats, told, chosen>>
      BY <1>6 DEF ReleaseChat, Call, answerVars
    <2>2. cmd[c].op \in Away /\ Id(c) = None
      BY <1>1, <1>3, <2>1 DEF ShapeInv, Shaped, Chained, Never, Operations, Own, Away
    <2>3. bind'[x] = IF bind[x] = Chat(c) THEN None ELSE bind[x]
      BY <2>1 DEF Released
    <2>4. CASE bind[x] # Chat(c)
      BY <1>5, <2>1, <2>3, <2>4 DEF Live
    <2>5. CASE bind[x] = Chat(c)
      <3>1. chosen[x] = None /\ told[x] = None
        BY <1>1, <1>2, <2>2, <2>5 DEF Sure, Kept
      <3>2. \A d \in Commands : Works(d)' => Id(d)' # x
        BY <1>1, <2>2 DEF AloneInv, Works
      <3>3. Kept(x)'
        BY <2>1, <3>1 DEF Kept
      <3> QED
        BY <2>1, <3>1, <3>2, <3>3 DEF Sure
    <2> QED
      BY <2>4, <2>5
  <1>7. ASSUME SaveBind(c) PROVE Sure(x)'
    <2>1. saved'.bind = bind /\ UNCHANGED <<bind, chats, told, chosen>>
      BY <1>0, <1>7 DEF SaveBind, answerVars
    <2> QED
      BY <1>5, <2>1 DEF Live
  <1>8. ASSUME SaveSess(c) PROVE Sure(x)'
    <2>1. saved'.bind = saved.bind /\ UNCHANGED <<bind, chats, told, chosen>>
      BY <1>0, <1>8 DEF SaveSess, answerVars
    <2> QED
      BY <1>5, <2>1 DEF Live
  <1>9. ASSUME ClearSession(c) \/ Adopt(c) \/ Evict(c) \/ Displace(c) \/ Lookup(c)
        PROVE  Sure(x)'
    <2>1. UNCHANGED <<bind, saved, chats, told, chosen>>
      BY <1>9 DEF ClearSession, Adopt, Evict, Displace, Lookup, stores, answerVars
    <2> QED
      BY <1>5, <2>1 DEF Live
  <1>10. ASSUME Link(c) \/ Unlink(c) \/ Fallback(c) PROVE Sure(x)'
    <2>1. UNCHANGED <<saved, chats, told, chosen>>
      BY <1>10 DEF Link, Unlink, Fallback, answerVars
    <2>2. bind'[x] = bind[x]
      BY <1>0, <1>10 DEF Link, Unlink, Fallback, Bound
    <2> QED
      BY <1>5, <2>1, <2>2 DEF Live
  <1>11. ASSUME Check(c) \/ Reuse(c) \/ Reply(c) \/ Card(c) PROVE Sure(x)'
    <2>1. UNCHANGED <<bind, saved, chats>>
      BY <1>11 DEF Check, Reuse, Reply, Card, stores
    <2>2. chosen'[x] = chosen[x] /\ told'[x] = told[x]
      BY <1>0, <1>11 DEF Check, Reuse, Reply, Card, Bound
    <2> QED
      BY <1>5, <2>1, <2>2 DEF Live
  <1>12. ASSUME Create(c) PROVE Sure(x)'
    <2>1. UNCHANGED <<bind, saved, told>> /\ chosen'[x] = chosen[x]
      BY <1>0, <1>12 DEF Create, stores, Bound
    <2>2. \A s \in Chats : Live(s) => Live(s)'
      BY <1>0, <1>12 DEF Create, Live
    <2> QED
      BY <1>5, <2>1, <2>2
  <1> QED
    BY <1>6, <1>7, <1>8, <1>9, <1>10, <1>11, <1>12 DEF Command

LEMMA SureStep == BindTypeOK /\ ShapeInv /\ EndInv /\ AloneInv /\ SureInv /\ [BindNext]_bindVars => SureInv'
  <1> SUFFICES ASSUME BindTypeOK, ShapeInv, EndInv, AloneInv, SureInv, [BindNext]_bindVars,
                      NEW x \in Ids, x \notin raced'
               PROVE  Sure(x)'
    BY DEF SureInv
  <1>0. /\ bind \in Bound /\ chosen \in Bound /\ chats \in [Chats -> {"unknown", "live", "gone"}]
        /\ saved \in [sess : Sessions, bind : Bound] /\ None \notin Chats
    BY Constants DEF BindTypeOK
  <1>1. ASSUME NEW c \in Commands, Send(c) PROVE Sure(x)'
    BY <1>1, SureSend
  <1>2. ASSUME NEW c \in Commands, Command(c), ~Send(c) PROVE Sure(x)'
    <2>1. x \notin raced
      BY <1>2, OtherCommands
    <2>2. CASE Id(c) = x
      <3>1. Keeps(c)
        BY <1>2, <2>1, <2>2, Keeping
      <3>2. Sure(Id(c))'
        BY <1>2, <2>1, <2>2, <3>1, SureOwn DEF Keeps
      <3>3. Id(c)' = x
        BY <1>2, <2>2, OtherCommands
      <3> QED
        BY <3>2, <3>3
    <2>3. CASE Id(c) # x
      BY <1>2, <2>1, <2>3, SureAside
    <2> QED
      BY <2>2, <2>3
  <1>3. ASSUME raced' = raced, UNCHANGED <<todo, cmd, chats, told, chosen>>,
               bind'[x] = bind[x] \/ bind[x] = None,
               saved'.bind[x] \in {saved.bind[x], bind[x]}
        PROVE  Sure(x)'
    <2>1. Sure(x)
      BY <1>3 DEF SureInv
    <2>2. chosen'[x] # None => Live(chosen[x])'
      BY <1>3, <2>1 DEF Sure, Kept, Live
    <2>3. \A c \in Commands : Chat(c)' = Chat(c) /\ (Works(c)' => Works(c))
      BY <1>3 DEF Chat, Works
    <2> QED
      BY <1>3, <2>1, <2>2, <2>3, SureFrame
  <1>4. ASSUME NEW s \in Chats, RunBegins(s) \/ RunFails(s) PROVE Sure(x)'
    BY <1>3, <1>4 DEF RunBegins, RunFails, stores, answerVars
  <1>5. ASSUME NEW s \in Chats, RunEnds(s) PROVE Sure(x)'
    <2>1. run[s] \in Ids
      BY <1>5 DEF RunEnds, EndInv
    <2>2. bind'[x] = bind[x] \/ bind[x] = None
      BY <1>0, <1>5, <2>1 DEF RunEnds, Recorded, Bound
    <2>3. saved'.bind[x] \in {saved.bind[x], bind[x]}
      BY <1>5 DEF RunEnds
    <2> QED
      BY <1>3, <1>5, <2>2, <2>3 DEF RunEnds, answerVars
  <1>6. ASSUME NEW g \in Groups, LoseGroup(g) PROVE Sure(x)'
    <2>1. /\ UNCHANGED <<bind, saved, todo, cmd, raced>> /\ chats' = [chats EXCEPT ![g] = "gone"]
          /\ told' = Released(told, g) /\ chosen' = Released(chosen, g)
      BY <1>6 DEF LoseGroup, stores
    <2>2. Sure(x) /\ Kept(x)
      BY <2>1 DEF SureInv, Sure
    <2>3. /\ chosen'[x] # g
          /\ \/ chosen'[x] = chosen[x] /\ told'[x] = told[x]
             \/ chosen'[x] = None /\ told'[x] = None
      BY <2>1, <2>2, Forgets DEF Chats
    <2>4. chosen'[x] # None => Live(chosen[x])'
      <3>1. chosen'[x] # None => chats[chosen'[x]] = "live" /\ chosen'[x] \in Chats
        BY <1>0, <2>2, <2>3 DEF Kept, Live, Bound
      <3> QED
        BY <1>0, <2>1, <2>3, <3>1 DEF Live
    <2>5. \A c \in Commands : Chat(c)' = Chat(c) /\ (Works(c)' => Works(c))
      BY <2>1 DEF Chat, Works
    <2> QED
      BY <2>1, <2>2, <2>3, <2>4, <2>5, SureFrame
  <1>7. ASSUME Crash PROVE Sure(x)'
    <2>1. /\ UNCHANGED <<chats, saved, told, chosen, raced>> /\ bind' = saved.bind
          /\ \A c \in Commands : ~Works(c)'
      BY <1>7 DEF Crash, Works, answerVars
    <2>2. Kept(x)
      BY <2>1 DEF SureInv, Sure
    <2>3. Kept(x)'
      BY <2>1, <2>2 DEF Kept, Live
    <2> QED
      BY <2>1, <2>3 DEF Sure
  <1>8. CASE UNCHANGED bindVars
    BY <1>3, <1>8 DEF bindVars
  <1> QED
    BY <1>1, <1>2, <1>4, <1>5, <1>6, <1>7, <1>8 DEF BindNext

------------------------------------------------------------------------------
\* A chat that the step does not give to anybody.
LEMMA GivenFrame ==
  ASSUME NEW s \in Chats, Sticks(s), given'[s] \in {given[s], None},
         given[s] # None => sess'[s] = sess[s],
         given[s] # None => saved'.sess[s] \in {saved.sess[s], sess[s]},
         \A d \in Commands : Call(d, "save_sess") =>
           \/ Call(d, "save_sess")' /\ Goal(d)' = Goal(d) /\ Id(d)' = Id(d)
           \/ saved'.sess = sess,
         given'[s] # None => \/ ending'[s] = << >>
                             \/ Head(ending'[s]) # "set"
                             \/ run'[s] = given[s]
                             \/ (ending'[s] = ending[s] /\ run'[s] = run[s])
  PROVE  Sticks(s)'
  <1> SUFFICES ASSUME given'[s] # None PROVE Sticks(s)'
    BY DEF Sticks
  <1>1. given'[s] = given[s] /\ given[s] # None
    OBVIOUS
  <1>2. sess'[s] = given'[s]
    BY <1>1 DEF Sticks
  <1>3. ~Overwrites(s, given[s])'
    BY <1>1 DEF Sticks, Overwrites
  <1>4. saved'.sess[s] = given'[s] \/ Unsaved(s)'
    <2>1. CASE Unsaved(s)
      BY <1>1, <2>1 DEF Unsaved, Sticks
    <2>2. CASE saved.sess[s] = given[s]
      BY <1>1, <2>2 DEF Sticks
    <2> QED
      BY <1>1, <2>1, <2>2 DEF Sticks
  <1> QED
    BY <1>2, <1>3, <1>4 DEF Sticks

\* A command gives a chat a session that it still has to save.
LEMMA GivenBy ==
  ASSUME BindTypeOK, NEW c \in Commands, NEW s \in Chats, Continue(s, Id(c)),
         Call(c, "save_sess")', Goal(c)' = s, Id(c)' = Id(c), UNCHANGED <<run, ending>>
  PROVE  Sticks(s)'
  <1>1. /\ sess'[s] = Id(c)
        /\ given'[s] = IF Overwrites(s, Id(c)) THEN None ELSE Id(c)
    BY DEF Continue, BindTypeOK, Sessions
  <1>2. CASE Overwrites(s, Id(c))
    BY <1>1, <1>2 DEF Sticks
  <1>3. CASE ~Overwrites(s, Id(c))
    <2>1. given'[s] = Id(c) /\ ~Overwrites(s, given[s])'
      BY <1>1, <1>3 DEF Overwrites
    <2>2. Unsaved(s)'
      BY <2>1 DEF Unsaved
    <2> QED
      BY <1>1, <2>1, <2>2 DEF Sticks
  <1> QED
    BY <1>2, <1>3

LEMMA GivenStep == BindTypeOK /\ ShapeInv /\ EndInv /\ GivenInv /\ [BindNext]_bindVars => GivenInv'
  <1> SUFFICES ASSUME BindTypeOK, ShapeInv, EndInv, GivenInv, [BindNext]_bindVars, NEW s \in Chats
               PROVE  Sticks(s)'
    BY DEF GivenInv
  <1>0. /\ Sticks(s) /\ given \in Sessions /\ sess \in Sessions /\ run \in Sessions
        /\ saved \in [sess : Sessions, bind : Bound]
        /\ todo \in [Commands -> Seq(Calls)]
    BY DEF GivenInv, BindTypeOK
  <1>1. ASSUME NEW c \in Commands, Send(c) PROVE Sticks(s)'
    <2>1. todo[c] = << >> /\ UNCHANGED <<sess, saved, run, ending, given>>
      BY <1>1, Sends DEF Send
    <2>2. PICK op, t, x : Sent(c, op, t, x)
      BY <1>1, Sends
    <2>3. \A d \in Commands : d # c => todo'[d] = todo[d] /\ cmd'[d] = cmd[d]
      BY <2>2 DEF Sent
    <2>4. \A d \in Commands : Call(d, "save_sess") =>
            Call(d, "save_sess")' /\ Goal(d)' = Goal(d) /\ Id(d)' = Id(d)
      BY <2>1, <2>3 DEF Call, Goal, Id, Found, Chat
    <2> QED
      BY <1>0, <2>1, <2>4, GivenFrame
  <1>2. ASSUME NEW c \in Commands, Command(c), ~Send(c) PROVE Sticks(s)'
    <2>1. /\ Works(c)
          /\ \A d \in Commands : /\ Id(d)' = Id(d)
                                 /\ d # c => todo'[d] = todo[d] /\ cmd'[d] = cmd[d]
      BY <1>2, OtherCommands
    <2>2. UNCHANGED <<run, ending>>
      BY <1>2 DEF Command, Check, Lookup, Fallback, Reuse, Create, Adopt, Displace, Link, Evict, Unlink,
                  ReleaseChat, ClearSession, SaveSess, SaveBind, Reply, Card
    <2>3. Call(c, "save_sess") => saved'.sess = sess
      BY <1>0, <1>2 DEF Command, Check, Lookup, Fallback, Reuse, Create, Adopt, Displace, Link, Evict,
                  Unlink, ReleaseChat, ClearSession, SaveSess, SaveBind, Reply, Card, Call
    <2>4. \A d \in Commands : Call(d, "save_sess") =>
            \/ Call(d, "save_sess")' /\ Goal(d)' = Goal(d) /\ Id(d)' = Id(d)
            \/ saved'.sess = sess
      BY <2>1, <2>3 DEF Call, Goal, Found, Chat
    <2>5. ASSUME given'[s] \in {given[s], None}, given'[s] # None => sess'[s] = sess[s],
                 saved'.sess \in {saved.sess, sess}
          PROVE  Sticks(s)'
      <3>1. CASE given'[s] = None
        BY <3>1 DEF Sticks
      <3>2. CASE given'[s] # None
        BY <1>0, <2>2, <2>4, <2>5, <3>2, GivenFrame
      <3> QED
        BY <3>1, <3>2
    <2>6. ASSUME NEW t, Vacate(t), saved' = saved PROVE Sticks(s)'
      <3>1. CASE s = t
        <4>1. given'[s] = None
          BY <1>0, <2>6, <3>1 DEF Vacate, Sessions
        <4> QED
          BY <4>1 DEF Sticks
      <3>2. CASE s # t
        <4>1. given'[s] = given[s] /\ sess'[s] = sess[s]
          BY <1>0, <2>6, <3>2 DEF Vacate, Sessions
        <4> QED
          BY <2>5, <2>6, <4>1
      <3> QED
        BY <3>1, <3>2
    <2>7. ASSUME NEW t, Continue(t, Id(c)), saved' = saved, t = s => Goal(c)' = s,
                 Call(c, "save_sess")'
          PROVE  Sticks(s)'
      <3>1. CASE s = t
        BY <2>1, <2>2, <2>7, <3>1, GivenBy
      <3>2. CASE s # t
        <4>1. given'[s] = given[s] /\ sess'[s] = sess[s]
          BY <1>0, <2>7, <3>2 DEF Continue, Sessions
        <4> QED
          BY <2>5, <2>7, <4>1
      <3> QED
        BY <3>1, <3>2
    <2>8. CASE Adopt(c)
      <3>1. /\ Head(todo[c]) = "adopt" /\ todo[c] \in Seq(Calls) /\ todo[c] # << >>
            /\ Continue(Goal(c), Id(c)) /\ todo'[c] = Tail(todo[c]) /\ UNCHANGED <<cmd, saved>>
        BY <1>0, <2>8 DEF Adopt, Call, Return, Then
      <3>2. Chained(todo[c], cmd[c].op)
        BY <2>1, <3>1, AboutSession DEF Leaving
      <3>3. Tail(todo[c]) # << >>
        BY <3>1, <3>2, Successor
      <3>4. <<Head(todo[c]), Head(Tail(todo[c]))>> \in Follows
        BY <3>1, <3>2, <3>3, ShorterChained
      <3>5. Call(c, "save_sess")'
        BY <3>1, <3>3, <3>4 DEF Follows, Call
      <3>6. Goal(c)' = Goal(c)
        BY <3>1 DEF Goal, Found, Chat
      <3> QED
        BY <2>7, <3>1, <3>5, <3>6
    <2>9. CASE Reuse(c)
      <3>1. /\ Head(todo[c]) = "reuse" /\ UNCHANGED <<cmd, saved>>
            /\ todo[c] \in Seq(Calls) /\ todo[c] # << >>
        BY <1>0, <2>9 DEF Reuse, Call
      <3>2. Chained(todo[c], cmd[c].op) /\ cmd[c].op \in Own
        BY <2>1, <3>1, AboutSession DEF Leaving
      <3>3. cmd[c].op = "open"
        BY <3>1, <3>2, Successor DEF Never, Own
      <3>4. Goal(c)' = Found(c)
        BY <3>1, <3>3 DEF Goal, Found
      <3>5. ASSUME Continue(Found(c), Id(c)), Then(c, <<"save_sess">>) PROVE Sticks(s)'
        <4>1. Call(c, "save_sess")'
          BY <1>0, <3>5 DEF Then, Call
        <4> QED
          BY <2>7, <3>1, <3>4, <3>5, <4>1
      <3>6. UNCHANGED <<sess, given>> => Sticks(s)'
        BY <2>5, <3>1
      <3> QED
        BY <2>9, <3>5, <3>6 DEF Reuse
    <2>10. CASE Evict(c) \/ ClearSession(c) \/ Displace(c)
      <3>1. saved' = saved /\ (UNCHANGED <<sess, given>> \/ \E t : Vacate(t))
        BY <2>10 DEF Evict, ClearSession, Displace
      <3> QED
        BY <2>5, <2>6, <3>1
    <2>11. CASE ~(Adopt(c) \/ Reuse(c) \/ Evict(c) \/ ClearSession(c) \/ Displace(c))
      <3>1. UNCHANGED <<sess, given>> /\ saved'.sess \in {saved.sess, sess}
        BY <1>0, <1>2, <2>11 DEF Command, Check, Lookup, Fallback, Create, Link, Unlink, ReleaseChat,
             SaveSess, SaveBind, Reply, Card, stores, answerVars
      <3> QED
        BY <2>5, <3>1
    <2> QED
      BY <2>8, <2>9, <2>10, <2>11
  <1>3. ASSUME UNCHANGED <<todo, cmd>>, given'[s] \in {given[s], None},
               given[s] # None => sess'[s] = sess[s],
               saved'.sess \in {saved.sess, sess},
               given'[s] # None => \/ ending'[s] = << >>
                                   \/ Head(ending'[s]) # "set"
                                   \/ run'[s] = given[s]
                                   \/ (ending'[s] = ending[s] /\ run'[s] = run[s])
        PROVE  Sticks(s)'
    <2>1. \A d \in Commands : Call(d, "save_sess") =>
            Call(d, "save_sess")' /\ Goal(d)' = Goal(d) /\ Id(d)' = Id(d)
      BY <1>3 DEF Call, Goal, Id, Found, Chat
    <2> QED
      BY <1>0, <1>3, <2>1, GivenFrame
  <1>4. ASSUME NEW t \in Chats, RunBegins(t) PROVE Sticks(s)'
    <2>1. UNCHANGED <<sess, saved, todo, cmd>>
      BY <1>4 DEF RunBegins, stores
    <2>2. CASE s # t
      <3>1. given'[s] = given[s] /\ run'[s] = run[s] /\ ending'[s] = ending[s]
        BY <1>0, <1>4, <2>2 DEF RunBegins, Sessions, BindTypeOK
      <3> QED
        BY <1>3, <2>1, <3>1
    <2>3. CASE s = t
      <3>1. PICK x \in Ids : /\ run' = [run EXCEPT ![s] = x]
                            /\ given' = [given EXCEPT ![s] = IF sess[s] = x THEN @ ELSE None]
        BY <1>4, <2>3 DEF RunBegins
      <3>2. run'[s] = x /\ given'[s] = IF sess[s] = x THEN given[s] ELSE None
        BY <1>0, <3>1 DEF Sessions
      <3>3. given'[s] # None => run'[s] = given[s] /\ given'[s] = given[s]
        BY <1>0, <3>2 DEF Sticks
      <3> QED
        BY <1>3, <2>1, <3>2, <3>3
    <2> QED
      BY <2>2, <2>3
  <1>5. ASSUME NEW t \in Chats, RunFails(t) PROVE Sticks(s)'
    <2>1. UNCHANGED <<sess, saved, todo, cmd, run, given>>
      BY <1>5 DEF RunFails, stores, answerVars
    <2>2. ending'[s] = ending[s] \/ ending'[s] = <<"save_sess", "save_bind">>
      BY <1>5 DEF RunFails, BindTypeOK
    <2>3. ending'[s] = ending[s] \/ Head(ending'[s]) # "set"
      BY <2>2
    <2> QED
      BY <1>3, <2>1, <2>3
  <1>6. ASSUME NEW t \in Chats, RunEnds(t) PROVE Sticks(s)'
    <2>1. UNCHANGED <<todo, cmd, given>> /\ saved'.sess \in {saved.sess, sess}
      BY <1>0, <1>6 DEF RunEnds, answerVars
    <2>2. CASE s # t
      <3>1. ending'[s] = ending[s] /\ run'[s] = run[s] /\ sess'[s] = sess[s]
        BY <1>0, <1>6, <2>2 DEF RunEnds, Sessions, BindTypeOK
      <3> QED
        BY <1>3, <2>1, <3>1
    <2>3. CASE s = t
      <3>1. /\ ending[s] # << >> /\ ending'[s] = Tail(ending[s]) /\ ending[s] \in Endings
            /\ sess' = IF Head(ending[s]) = "set" THEN [sess EXCEPT ![s] = run[s]] ELSE sess
        BY <1>6, <2>3 DEF RunEnds, EndInv, BindTypeOK
      <3>2. ending'[s] = << >> \/ Head(ending'[s]) # "set"
        BY <3>1 DEF Endings, Ends
      <3>3. given[s] # None => sess'[s] = sess[s]
        BY <1>0, <3>1 DEF Sticks, Overwrites, Sessions
      <3> QED
        BY <1>3, <2>1, <3>2, <3>3
    <2> QED
      BY <2>2, <2>3
  <1>7. ASSUME NEW g \in Groups, LoseGroup(g) PROVE Sticks(s)'
    BY <1>3, <1>7 DEF LoseGroup, stores
  <1>8. ASSUME Crash PROVE Sticks(s)'
    <2>1. /\ sess' = saved.sess /\ saved' = saved /\ ending'[s] = << >>
          /\ given'[s] = IF Unsaved(s) THEN None ELSE given[s]
      BY <1>8 DEF Crash
    <2> QED
      BY <1>0, <2>1 DEF Sticks, Overwrites
  <1>9. CASE UNCHANGED bindVars
    BY <1>3, <1>9 DEF bindVars
  <1> QED
    BY <1>1, <1>2, <1>4, <1>5, <1>6, <1>7, <1>8, <1>9 DEF BindNext

LEMMA InitIInv == BindInit => IInv
  <1> SUFFICES ASSUME BindInit PROVE IInv
    OBVIOUS
  <1> USE Constants
  <1>1. /\ bind = Nowhere /\ told = Nowhere /\ chosen = Nowhere /\ given = Nothing /\ raced = {}
        /\ sess = Nothing /\ saved = [sess |-> sess, bind |-> bind]
        /\ todo = [c \in Commands |-> << >>] /\ cmd = [c \in Commands |-> Idle]
        /\ run = Nothing /\ ending = [s \in Chats |-> << >>]
        /\ budget \in PlanType
    BY DEF BindInit, PlanType
  <1>2. chats \in [Chats -> {"unknown", "live", "gone"}]
    BY DEF BindInit
  <1>3. Nowhere \in Bound /\ sess \in Sessions /\ run \in Sessions /\ given \in Sessions
    BY <1>1 DEF Nowhere, Nothing, Bound, Sessions
  <1>4. cmd \in [Commands -> Records]
    BY <1>1 DEF Idle, Records
  <1>5. saved \in [sess : Sessions, bind : Bound]
    BY <1>1, <1>3
  <1>6. /\ todo \in [Commands -> Seq(Calls)]
        /\ ending \in [Chats -> Seq({"set", "record", "save_sess", "save_bind"})]
    BY <1>1
  <1>7. BindTypeOK
    BY <1>1, <1>2, <1>3, <1>4, <1>5, <1>6 DEF BindTypeOK, Records, PlanType
  <1>8. \A c \in Commands : ~Works(c)
    BY <1>1 DEF Works
  <1>9. ShapeInv /\ AloneInv
    BY <1>8 DEF ShapeInv, Shaped, AloneInv
  <1>10. EndInv
    BY <1>1 DEF EndInv, Endings
  <1>11. \A x \in Ids : Kept(x)
    BY <1>1 DEF Kept, Nowhere
  <1>12. SureInv
    BY <1>8, <1>11 DEF SureInv, Sure
  <1>13. GivenInv
    BY <1>1 DEF GivenInv, Sticks, Nothing
  <1> QED
    BY <1>7, <1>9, <1>10, <1>12, <1>13 DEF IInv

\* The inductive invariant: the types, what a command's list can be, that a run
\* at its end has a session, that two commands on a session are noted as raced,
\* what is sure of a session that was not raced, and what sticks to a chat.
THEOREM Invariance == BindSpec => []IInv
  <1>1. IInv /\ [BindNext]_bindVars => IInv'
    BY TypeStep, ShapeStep, EndStep, AloneStep, SureStep, GivenStep DEF IInv
  <1> QED
    BY <1>1, InitIInv, PTL DEF BindSpec

\* Every variable keeps its type.
THEOREM BindTypeCorrect == BindSpec => []BindTypeOK
  <1>1. IInv => BindTypeOK
    BY DEF IInv
  <1> QED
    BY <1>1, Invariance, PTL

\* What /bind or /open answered stays true, in memory and on disk: the binding
\* whatever other commands, the ends of runs (recordGroupBinding) and restarts
\* do, and the session that the chat continues whatever runs and restarts do.
THEOREM ChosenStaysHolds == BindSpec => []ChosenStays
  <1>1. IInv => ChosenStays
    BY DEF IInv, SureInv, Sure, Kept, GivenInv, Sticks, ChosenStays
  <1> QED
    BY <1>1, Invariance, PTL

\* Once /open told of a group that it made for a session, no /open of the session
\* creates another, also after restarts.
THEOREM AnnouncedIsReusedHolds == BindSpec => AnnouncedIsReused
  <1> DEFINE Reused == \A c \in Commands :
               chats' # chats /\ Call(c, "create") /\ todo'[c] = Opening
               => told[Id(c)] = None \/ Id(c) \in raced
  <1>1. IInv => Reused
    <2>1. ASSUME IInv, NEW c \in Commands, Call(c, "create"), Id(c) \notin raced
          PROVE  told[Id(c)] = None
      <3>1. Works(c) /\ Head(todo[c]) = "create"
        BY <2>1 DEF Call, Works
      <3>2. Id(c) \in Ids
        BY <2>1, <3>1, AboutSession DEF IInv, Leaving
      <3>3. Stage(c, Id(c))
        BY <2>1, <3>1, <3>2 DEF IInv, SureInv, Sure
      <3> QED
        BY <3>1, <3>3 DEF Stage
    <2> QED
      BY <2>1
  <1>2. IInv /\ [BindNext]_bindVars => [Reused]_bindVars
    BY <1>1
  <1> HIDE DEF Reused
  <1>3. BindSpec => [][Reused]_bindVars
    BY <1>2, Invariance, PTL DEF BindSpec
  <1> QED
    BY <1>3 DEF AnnouncedIsReused, Reused
=============================================================================
