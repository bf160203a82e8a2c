-------------------- MODULE ProducerConsumerBuffer_proofs --------------------
(* Proofs about ProducerConsumerBuffer for every number of readers, block     *)
(* size and bound.  The inductive invariant is DataInv, about the blocks and  *)
(* the counters, and CallInv, about the calls in flight.                      *)
EXTENDS ProducerConsumerBuffer, SequenceTheorems, TLAPS

DataTypeOK ==
    /\ blocks \in Seq(Block)
    /\ total \in Nat /\ totalRead \in Nat /\ totalWritten \in Nat /\ synced \in Nat

\* No block ends beyond the write head, so the front block holds no more than
\* is available.
BelowWriteHead == \A i \in 1..Len(blocks) : blocks[i].wr <= totalWritten

DataInv == DataTypeOK /\ CountersAgree /\ BelowWriteHead

-----------------------------------------------------------------------------
(* The blocks.                                                                *)

LEMMA FunctionIsSeq ==
    ASSUME NEW S, NEW m \in Nat, NEW f \in [1..m -> S]
    PROVE  f \in Seq(S) /\ Len(f) = m
<1>1. f \in Seq(S)
  BY SeqDef
<1>2. Len(f) \in Nat /\ DOMAIN f = 1..Len(f)
  BY <1>1, LenProperties
<1>3. 1..Len(f) = 1..m
  BY <1>2
<1> QED
  BY <1>1, <1>2, <1>3

\* What the loop of read() can copy is what the counter m_total says.
LEMMA ReadableIsTotal ==
    ASSUME DataInv
    PROVE  Readable = total
<1>1. CASE blocks = <<>>
  BY <1>1 DEF DataInv, DataTypeOK, CountersAgree, BlocksContiguous, Readable
<1>2. CASE blocks # <<>>
  BY <1>2 DEF DataInv, DataTypeOK, CountersAgree, BlocksContiguous, Readable
<1> QED
  BY <1>1, <1>2

LEMMA ReadLenBound ==
    ASSUME DataInv, NEW n \in Nat
    PROVE  ReadLen(n) \in 0..total /\ ReadLen(n) = Smaller(n, total)
BY ReadableIsTotal DEF ReadLen, Smaller, DataInv, DataTypeOK

\* Moving the read head over characters that are there keeps the blocks and
\* the counters in agreement.
LEMMA UpdateReadHeadKeepsData ==
    ASSUME DataInv, NEW n \in 0..total, UpdateReadHead(n)
    PROVE  /\ DataInv'
           /\ total' = total - n
           /\ synced' <= synced
<1> DEFINE target == totalRead + n
<1>1. PICK k \in 1..(Len(blocks) + 1) :
        FirstKept(k, target) /\ blocks' = BlocksFrom(k, target)
  BY DEF UpdateReadHead
<1>2. /\ total' = total - n /\ totalRead' = target /\ totalWritten' = totalWritten
      /\ synced' = IF synced > n THEN synced - n ELSE 0
  BY DEF UpdateReadHead
<1>3. /\ total \in Nat /\ totalRead \in Nat /\ totalWritten \in Nat /\ synced \in Nat
      /\ total = totalWritten - totalRead /\ synced <= total
      /\ blocks \in Seq(Block) /\ Len(blocks) \in Nat
  BY DEF DataInv, DataTypeOK, CountersAgree
<1> DEFINE m == Len(blocks) + 1 - k
           b(i) == IF i = 1
                   THEN [rd |-> target, wr |-> blocks[k].wr, lim |-> blocks[k].lim]
                   ELSE blocks[i + k - 1]
<1>4. m \in Nat /\ blocks' = [i \in 1..m |-> b(i)]
  BY <1>1, <1>3 DEF BlocksFrom
<1>5. target \in Nat
  BY <1>3
<1>6. \A i \in 1..m : b(i) \in Block
  <2> SUFFICES ASSUME NEW i \in 1..m PROVE b(i) \in Block
    OBVIOUS
  <2>1. k \in 1..Len(blocks) /\ i + k - 1 \in 1..Len(blocks)
    BY <1>3
  <2>2. blocks[k] \in Block /\ blocks[i + k - 1] \in Block
    BY <1>3, <2>1, ElementOfSeq
  <2> QED
    BY <1>5, <2>2 DEF Block
<1>7. blocks' \in Seq(Block) /\ Len(blocks') = m
  <2>1. blocks' \in [1..m -> Block]
    BY <1>4, <1>6
  <2> QED
    BY <2>1, <1>4, FunctionIsSeq
<1>8. DataTypeOK'
  BY <1>2, <1>3, <1>5, <1>7 DEF DataTypeOK
<1>9. \A i \in 1..m : blocks'[i].wr = blocks[i + k - 1].wr /\ blocks'[i].lim = blocks[i + k - 1].lim
  <2> SUFFICES ASSUME NEW i \in 1..m
               PROVE  /\ blocks'[i].wr = blocks[i + k - 1].wr
                      /\ blocks'[i].lim = blocks[i + k - 1].lim
    OBVIOUS
  <2>1. blocks'[i] = b(i)
    BY <1>4
  <2>2. i = 1 => i + k - 1 = k
    BY <1>1
  <2> QED
    BY <2>1, <2>2
<1>10. m >= 1 => blocks'[1].rd = target
  BY <1>3, <1>4, <1>6, ElementOfSeq DEF Block
<1>11. \A i \in 2..m : blocks'[i].rd = blocks[i + k - 1].rd
  BY <1>3, <1>4, <1>6, ElementOfSeq DEF Block
<1>12. BlocksContiguous'
  <2>1. \A i \in 1..Len(blocks') : blocks'[i].rd <= blocks'[i].wr /\ blocks'[i].wr <= blocks'[i].lim
    <3> SUFFICES ASSUME NEW i \in 1..m
                 PROVE  blocks'[i].rd <= blocks'[i].wr /\ blocks'[i].wr <= blocks'[i].lim
      BY <1>7
    <3>1. i + k - 1 \in 1..Len(blocks)
      BY <1>3
    <3>2. /\ blocks[i + k - 1].rd <= blocks[i + k - 1].wr
          /\ blocks[i + k - 1].wr <= blocks[i + k - 1].lim
      BY <3>1 DEF DataInv, CountersAgree, BlocksContiguous
    <3>3. blocks[i + k - 1] \in Block
      BY <1>3, <3>1, ElementOfSeq
    <3>4. CASE i = 1
      <4>1. target < blocks[k].wr /\ i + k - 1 = k
        BY <1>1, <1>3, <3>1, <3>4 DEF FirstKept
      <4> QED
        BY <4>1, <1>5, <1>9, <1>10, <3>2, <3>3, <3>4 DEF Block
    <3>5. CASE i # 1
      <4>1. i \in 2..m
        BY <1>4, <3>5
      <4>2. /\ blocks'[i].rd = blocks[i + k - 1].rd
            /\ blocks'[i].wr = blocks[i + k - 1].wr
            /\ blocks'[i].lim = blocks[i + k - 1].lim
        BY <1>9, <1>11, <4>1
      <4> QED
        BY <3>2, <4>2
    <3> QED
      BY <3>4, <3>5
  <2>2. \A i \in 1..(Len(blocks') - 1) : blocks'[i + 1].rd = blocks'[i].wr
    <3> SUFFICES ASSUME NEW i \in 1..(m - 1) PROVE blocks'[i + 1].rd = blocks'[i].wr
      BY <1>7
    <3>1. blocks'[i + 1].rd = blocks[i + k].rd
      BY <1>3, <1>4, <1>11
    <3>2. blocks'[i].wr = blocks[i + k - 1].wr
      BY <1>3, <1>4, <1>9
    <3>3. i + k - 1 \in 1..(Len(blocks) - 1) /\ (i + k - 1) + 1 = i + k
      BY <1>3
    <3> QED
      BY <3>1, <3>2, <3>3 DEF DataInv, CountersAgree, BlocksContiguous
  <2>3. CASE m = 0
    <3>1. blocks' = <<>>
      BY <1>7, <2>3
    <3>2. totalWritten <= target
      BY <1>1, <1>3, <2>3 DEF FirstKept, DataInv, CountersAgree, BlocksContiguous, Back
    <3> QED
      BY <2>1, <2>2, <3>1, <3>2, <1>2, <1>3 DEF BlocksContiguous
  <2>4. CASE m # 0
    <3>1. blocks' # <<>> /\ blocks # <<>> /\ m >= 1
      <4>1. m \in Nat /\ Len(blocks) \in Nat /\ Len(blocks') = m /\ m # 0
        BY <1>3, <1>4, <1>7, <2>4
      <4>2. m >= 1 /\ Len(blocks) >= 1
        BY <4>1
      <4> HIDE DEF m
      <4> QED
        BY <1>3, <1>7, <4>1, <4>2, EmptySeq
    <3>2. Back' = blocks'[m] /\ Front' = blocks'[1]
      BY <1>7 DEF Back, Front
    <3>3. blocks'[m].wr = totalWritten
      <4>1. m \in 1..m /\ m + k - 1 = Len(blocks)
        BY <1>3, <1>4, <3>1
      <4> QED
        BY <4>1, <1>9, <3>1 DEF DataInv, CountersAgree, BlocksContiguous, Back
    <3> QED
      BY <2>1, <2>2, <3>1, <3>2, <3>3, <1>2, <1>10 DEF BlocksContiguous
  <2> QED
    BY <1>4, <2>3, <2>4
<1>13. BelowWriteHead'
  BY <1>2, <1>3, <1>4, <1>7, <1>9 DEF BelowWriteHead, DataInv
<1>14. CountersAgree'
  BY <1>2, <1>3, <1>5, <1>12 DEF CountersAgree
<1> QED
  BY <1>2, <1>3, <1>8, <1>13, <1>14 DEF DataInv

\* A new block at the write head, from write() or commit().
LEMMA AppendKeepsData ==
    ASSUME DataInv, NEW n \in Nat, NEW lim \in Nat, totalWritten + n <= lim,
           blocks' = Append(blocks, [rd |-> totalWritten, wr |-> totalWritten + n, lim |-> lim]),
           UpdateWriteHead(n)
    PROVE  DataInv'
<1> DEFINE new == [rd |-> totalWritten, wr |-> totalWritten + n, lim |-> lim]
<1>1. /\ total \in Nat /\ totalRead \in Nat /\ totalWritten \in Nat /\ synced \in Nat
      /\ total = totalWritten - totalRead /\ synced <= total
      /\ blocks \in Seq(Block) /\ Len(blocks) \in Nat
  BY DEF DataInv, DataTypeOK, CountersAgree
<1>2. /\ total' = total + n /\ totalWritten' = totalWritten + n
      /\ totalRead' = totalRead /\ synced' = synced
  BY DEF UpdateWriteHead
<1>3. new \in Block
  BY <1>1 DEF Block
<1>4. /\ blocks' \in Seq(Block)
      /\ Len(blocks') = Len(blocks) + 1
      /\ \A i \in 1..Len(blocks) : blocks'[i] = blocks[i]
      /\ blocks'[Len(blocks) + 1] = new
  <2> HIDE DEF new
  <2> QED
    BY <1>1, <1>3, AppendProperties DEF new
<1>5. \A i \in 1..Len(blocks) : blocks[i] \in Block
  BY <1>1, ElementOfSeq
<1>6. BlocksContiguous'
  <2>1. \A i \in 1..Len(blocks') : blocks'[i].rd <= blocks'[i].wr /\ blocks'[i].wr <= blocks'[i].lim
    BY <1>1, <1>4 DEF DataInv, CountersAgree, BlocksContiguous
  <2>2. \A i \in 1..(Len(blocks') - 1) : blocks'[i + 1].rd = blocks'[i].wr
    <3> SUFFICES ASSUME NEW i \in 1..Len(blocks) PROVE blocks'[i + 1].rd = blocks'[i].wr
      BY <1>1, <1>4
    <3>1. CASE i = Len(blocks)
      <4>1. blocks # <<>> /\ blocks[i].wr = totalWritten
        BY <3>1, <1>1, EmptySeq DEF DataInv, CountersAgree, BlocksContiguous, Back
      <4> QED
        BY <3>1, <4>1, <1>1, <1>4
    <3>2. CASE i < Len(blocks)
      BY <3>2, <1>1, <1>4 DEF DataInv, CountersAgree, BlocksContiguous
    <3> QED
      BY <1>1, <3>1, <3>2
  <2>3. blocks' # <<>> /\ Back'.wr = totalWritten'
    BY <1>1, <1>2, <1>4, EmptySeq DEF Back
  <2>4. Front'.rd = totalRead'
    <3>1. CASE blocks = <<>>
      BY <3>1, <1>1, <1>2, <1>4, EmptySeq DEF Front, DataInv, CountersAgree, BlocksContiguous
    <3>2. CASE blocks # <<>>
      <4>1. 1 \in 1..Len(blocks)
        BY <3>2, <1>1, EmptySeq
      <4> QED
        BY <3>2, <4>1, <1>2, <1>4 DEF Front, DataInv, CountersAgree, BlocksContiguous
    <3> QED
      BY <3>1, <3>2
  <2> QED
    BY <2>1, <2>2, <2>3, <2>4 DEF BlocksContiguous
<1>7. BelowWriteHead'
  <2> SUFFICES ASSUME NEW i \in 1..(Len(blocks) + 1) PROVE blocks'[i].wr <= totalWritten'
    BY <1>4 DEF BelowWriteHead
  <2>1. CASE i = Len(blocks) + 1
    BY <2>1, <1>1, <1>2, <1>4
  <2>2. CASE i # Len(blocks) + 1
    <3>1. i \in 1..Len(blocks) /\ blocks'[i] = blocks[i]
      BY <2>2, <1>1, <1>4
    <3>2. blocks[i].wr <= totalWritten /\ blocks[i].wr \in Nat
      BY <3>1, <1>5 DEF BelowWriteHead, DataInv, Block
    <3> QED
      BY <3>1, <3>2, <1>1, <1>2
  <2> QED
    BY <2>1, <2>2
<1>8. DataTypeOK' /\ CountersAgree'
  BY <1>1, <1>2, <1>4, <1>6 DEF DataTypeOK, CountersAgree
<1> QED
  BY <1>7, <1>8 DEF DataInv

\* More characters in the last block, from write().
LEMMA ExtendKeepsData ==
    ASSUME DataInv, NEW n \in Nat, blocks # <<>>, n <= Back.lim - Back.wr,
           blocks' = [blocks EXCEPT ![Len(blocks)].wr = @ + n],
           UpdateWriteHead(n)
    PROVE  DataInv'
<1> DEFINE L == Len(blocks)
           ext == [rd |-> blocks[L].rd, wr |-> blocks[L].wr + n, lim |-> blocks[L].lim]
<1>1. /\ total \in Nat /\ totalRead \in Nat /\ totalWritten \in Nat /\ synced \in Nat
      /\ total = totalWritten - totalRead /\ synced <= total
      /\ blocks \in Seq(Block) /\ L \in Nat \ {0}
  BY EmptySeq DEF DataInv, DataTypeOK, CountersAgree
<1>2. /\ total' = total + n /\ totalWritten' = totalWritten + n
      /\ totalRead' = totalRead /\ synced' = synced
  BY DEF UpdateWriteHead
<1>3. \A i \in 1..L : blocks[i] \in Block
  BY <1>1, ElementOfSeq
<1>4. /\ ext \in Block /\ ext.rd = blocks[L].rd /\ ext.lim = blocks[L].lim
      /\ ext.wr = blocks[L].wr + n
  <2>1. blocks[L] \in Block
    BY <1>1, <1>3
  <2> QED
    BY <2>1 DEF Block
<1>5. /\ blocks' \in Seq(Block) /\ Len(blocks') = L
      /\ \A i \in 1..L : blocks'[i] = IF i = L THEN ext ELSE blocks[i]
  <2>1. blocks' = [blocks EXCEPT ![L] = [blocks[L] EXCEPT !.wr = @ + n]]
    OBVIOUS
  <2>2. blocks[L] \in Block
    BY <1>1, <1>3
  <2>3. [blocks[L] EXCEPT !.wr = @ + n] = ext
    BY <2>2 DEF Block
  <2>4. blocks' = [blocks EXCEPT ![L] = ext]
    BY <2>1, <2>3, Zenon
  <2>5. L \in 1..Len(blocks)
    BY <1>1
  <2>6. ext \in Block /\ blocks \in Seq(Block)
    BY <1>1, <1>4
  <2> HIDE DEF ext
  <2>7. /\ [blocks EXCEPT ![L] = ext] \in Seq(Block)
        /\ Len([blocks EXCEPT ![L] = ext]) = L
        /\ \A i \in 1..L : [blocks EXCEPT ![L] = ext][i] = IF i = L THEN ext ELSE blocks[i]
    BY <2>5, <2>6, ExceptSeq
  <2> QED
    BY <2>4, <2>7, Zenon
<1> HIDE DEF ext
<1>6. blocks[L].wr = totalWritten /\ blocks[1].rd = totalRead
  BY DEF DataInv, CountersAgree, BlocksContiguous, Back, Front
<1>7. BlocksContiguous'
  <2>1. \A i \in 1..Len(blocks') : blocks'[i].rd <= blocks'[i].wr /\ blocks'[i].wr <= blocks'[i].lim
    <3> SUFFICES ASSUME NEW i \in 1..L
                 PROVE  blocks'[i].rd <= blocks'[i].wr /\ blocks'[i].wr <= blocks'[i].lim
      BY <1>5
    <3>1. blocks[i].rd <= blocks[i].wr /\ blocks[i].wr <= blocks[i].lim /\ blocks[i] \in Block
      BY <1>3 DEF DataInv, CountersAgree, BlocksContiguous
    <3> QED
      BY <3>1, <1>4, <1>5 DEF Back, Block
  <2>2. \A i \in 1..(Len(blocks') - 1) : blocks'[i + 1].rd = blocks'[i].wr
    BY <1>1, <1>4, <1>5 DEF DataInv, CountersAgree, BlocksContiguous
  <2>3. blocks' # <<>> /\ Back'.wr = totalWritten' /\ Front'.rd = totalRead'
    <3>1. blocks' # <<>> /\ 1 \in 1..L /\ L \in 1..L
      BY <1>1, <1>5, EmptySeq
    <3>2. Back'.wr = blocks[L].wr + n
      BY <3>1, <1>4, <1>5 DEF Back
    <3>3. Front'.rd = blocks[1].rd
      BY <3>1, <1>4, <1>5 DEF Front
    <3> QED
      BY <3>1, <3>2, <3>3, <1>2, <1>6
  <2> QED
    BY <2>1, <2>2, <2>3 DEF BlocksContiguous
<1>8. BelowWriteHead'
  <2> SUFFICES ASSUME NEW i \in 1..L PROVE blocks'[i].wr <= totalWritten'
    BY <1>5 DEF BelowWriteHead
  <2>1. blocks[i].wr <= totalWritten /\ blocks[i].wr \in Nat
    BY <1>3 DEF BelowWriteHead, DataInv, Block
  <2> QED
    BY <2>1, <1>1, <1>2, <1>4, <1>5, <1>6
<1>9. DataTypeOK' /\ CountersAgree'
  BY <1>1, <1>2, <1>5, <1>7 DEF DataTypeOK, CountersAgree
<1> QED
  BY <1>8, <1>9 DEF DataInv

LEMMA ReadStepKeepsData ==
    ASSUME DataInv, NEW o, o.count \in Nat, ReadStep(o)
    PROVE  DataInv' /\ total' <= total /\ synced' <= synced
<1>1. CASE Advances(o.kind)
  <2>1. UpdateReadHead(ReadLen(o.count)) /\ ReadLen(o.count) \in 0..total
    BY <1>1, ReadLenBound DEF ReadStep
  <2>2. total \in Nat
    BY DEF DataInv, DataTypeOK
  <2> QED
    BY <2>1, <2>2, UpdateReadHeadKeepsData
<1>2. CASE ~Advances(o.kind)
  <2>1. UNCHANGED data
    BY <1>2 DEF ReadStep
  <2> QED
    BY <2>1 DEF data, DataInv, DataTypeOK, CountersAgree, BlocksContiguous, BelowWriteHead, Front, Back
<1> QED
  BY <1>1, <1>2

LEMMA DataUnchanged ==
    ASSUME DataInv, UNCHANGED data
    PROVE  DataInv'
BY DEF data, DataInv, DataTypeOK, CountersAgree, BlocksContiguous, BelowWriteHead, Front, Back

-----------------------------------------------------------------------------
(* The calls in flight.                                                       *)

CallTypeOK ==
    /\ canRead \in BOOLEAN /\ canWrite \in BOOLEAN
    /\ eof \in BOOLEAN /\ exc \in BOOLEAN
    /\ requests \in Seq(Readers)
    /\ allocBlock \in Nat
    /\ writer \in Writer
    /\ op \in [Readers -> Op]
    /\ held \in Nat \cup {-1}
    /\ serial \in BOOLEAN

\* The queue holds distinct reads, all of them parked, and they all ask for
\* something.
QueueInv ==
    /\ \A i \in 1..Len(requests) : op[requests[i]].st = "parked"
    /\ \A i, j \in 1..Len(requests) : requests[i] = requests[j] => i = j
    /\ \A r \in Readers : op[r].st \in {"parked", "checked"} => op[r].count >= 1

\* Where the producer is when the stream is still open for writing.
WriterInv ==
    canWrite <=> \/ writer.pc \in {"idle", "put", "after", "flag"}
                 \/ writer.pc = "fulfil" /\ writer.next # "closed"

\* Nobody else reads while the consumer holds the front block.
HeldInv ==
    /\ held # -1 => \A r \in Readers : op[r].st = "idle"
    /\ AcquiredStable

CallInv == CallTypeOK /\ QueueInv /\ WriterInv /\ HeldInv /\ NoLostWakeup

Inv == DataInv /\ CallInv

LEMMA SizesPositive ==
    ASSUME NEW kind, NEW n \in Sizes(kind)
    PROVE  n \in Nat /\ n >= 1
BY BufferAssumption DEF Sizes, BufferAssumption

\* A consumer that releases part of its block moves over characters that are there.
LEMMA HeldIsAvailable ==
    ASSUME Inv, held # -1
    PROVE  held \in 0..total
<1>1. blocks # <<>> /\ held <= Front.wr - Front.rd /\ held \in Nat
  BY DEF Inv, CallInv, HeldInv, AcquiredStable, CallTypeOK
<1>2. 1 \in 1..Len(blocks) /\ blocks[1] \in Block
  BY <1>1, EmptySeq, ElementOfSeq DEF Inv, DataInv, DataTypeOK
<1>3. Front.wr <= totalWritten /\ Front.rd = totalRead /\ Front.wr \in Nat
  BY <1>1, <1>2 DEF Inv, DataInv, BelowWriteHead, CountersAgree, BlocksContiguous, Front, Block
<1> QED
  BY <1>1, <1>3 DEF Inv, DataInv, DataTypeOK, CountersAgree

LEMMA DataInvStep ==
    ASSUME Inv, [Next]_vars
    PROVE  DataInv'
<1> USE DEF Inv
<1>1. CASE PutLocked
  <2>1. writer.n \in Nat /\ AllocSize \in Nat
    BY BufferAssumption DEF BufferAssumption, CallInv, CallTypeOK, Writer
  <2>2. UpdateWriteHead(writer.n)
    BY <1>1 DEF PutLocked
  <2>3. CASE blocks = <<>> \/ Back.lim - Back.wr < writer.n
    <3> DEFINE lim == totalWritten + Larger(AllocSize, writer.n)
    <3>1. lim \in Nat /\ totalWritten + writer.n <= lim
      BY <2>1 DEF Larger, DataInv, DataTypeOK
    <3>2. blocks' = Append(blocks, [rd |-> totalWritten, wr |-> totalWritten + writer.n,
                                    lim |-> lim])
      BY <1>1, <2>3 DEF PutLocked
    <3> HIDE DEF lim
    <3> QED
      BY <2>1, <2>2, <3>1, <3>2, AppendKeepsData
  <2>4. CASE ~(blocks = <<>> \/ Back.lim - Back.wr < writer.n)
    <3>1. blocks' = [blocks EXCEPT ![Len(blocks)].wr = @ + writer.n]
      BY <1>1, <2>4 DEF PutLocked
    <3>2. Back \in Block
      BY <2>4, EmptySeq, ElementOfSeq DEF Back, DataInv, DataTypeOK
    <3>3. writer.n <= Back.lim - Back.wr
      BY <2>1, <2>4, <3>2 DEF Block
    <3> QED
      BY <2>1, <2>2, <2>4, <3>1, <3>3, ExtendKeepsData
  <2> QED
    BY <2>3, <2>4
<1>2. CASE Fulfil
  <2> DEFINE r == Head(requests)
  <2>1. r \in Readers /\ op[r].count \in Nat
    BY <1>2, HeadTailProperties DEF Fulfil, CallInv, CallTypeOK, Op
  <2>2. ReadStep(op[r])
    BY <1>2 DEF Fulfil
  <2> QED
    BY <2>1, <2>2, ReadStepKeepsData
<1>3. ASSUME NEW n \in 0..MaxCount, Commit(n) PROVE DataInv'
  <2>1. n \in Nat /\ allocBlock \in Nat /\ n <= allocBlock /\ totalWritten \in Nat
    BY <1>3, BufferAssumption DEF Commit, BufferAssumption, CallInv, CallTypeOK, DataInv, DataTypeOK
  <2>2. totalWritten + allocBlock \in Nat /\ totalWritten + n <= totalWritten + allocBlock
    BY <2>1
  <2>3. /\ UpdateWriteHead(n)
        /\ blocks' = Append(blocks, [rd |-> totalWritten, wr |-> totalWritten + n,
                                     lim |-> totalWritten + allocBlock])
    BY <1>3 DEF Commit
  <2> QED
    BY <2>1, <2>2, <2>3, AppendKeepsData
<1>4. CASE Sync
  BY <1>4 DEF Sync, DataInv, DataTypeOK, CountersAgree, BlocksContiguous, BelowWriteHead, Front, Back
<1>5. ASSUME NEW r \in Readers, NEW kind, NEW n \in Sizes(kind), StartAsync(r, kind, n)
      PROVE  DataInv'
  <2>1. Call("parked", kind, n).count = n /\ n \in Nat
    BY SizesPositive DEF Call
  <2>2. ReadStep(Call("parked", kind, n)) \/ UNCHANGED data
    BY <1>5 DEF StartAsync
  <2> QED
    BY <2>1, <2>2, ReadStepKeepsData, DataUnchanged
<1>6. ASSUME NEW r \in Readers, SyncRead(r) PROVE DataInv'
  <2>1. op[r].count \in Nat
    BY DEF CallInv, CallTypeOK, Op
  <2>2. ReadStep(op[r]) \/ UNCHANGED data
    BY <1>6 DEF SyncRead
  <2> QED
    BY <2>1, <2>2, ReadStepKeepsData, DataUnchanged
<1>7. ASSUME NEW n \in 0..MaxCount, Release(n) PROVE DataInv'
  <2>1. UpdateReadHead(n) /\ n <= held /\ held # -1
    BY <1>7 DEF Release
  <2>2. n \in 0..total
    BY <2>1, HeldIsAvailable, BufferAssumption DEF BufferAssumption, DataInv, DataTypeOK
  <2> QED
    BY <2>1, <2>2, UpdateReadHeadKeepsData
<1>8. CASE UNCHANGED data
  BY <1>8, DataUnchanged
<1> QED
  BY <1>1, <1>2, <1>3, <1>4, <1>5, <1>6, <1>7, <1>8
     DEF Next, Producer, Consumer, Continuation, PutBegin, Alloc, CloseBegin, FulfilEnd, PutEnd,
         CloseFlag, CloseLocked, SetEof, CheckEof, SyncCheck, SyncReturn, Acquire, CloseRead, vars

\* The answer to a read is a well-formed record that is no longer parked.
LEMMA AnswerType ==
    ASSUME DataInv, NEW o \in Op
    PROVE  /\ Answer(o) \in Op
           /\ Answer(o).st = "done" /\ Answer(o).count = 0
<1>1. /\ Readable \in Nat /\ totalRead \in Nat /\ o.count \in Nat
      /\ ReadLen(1) \in Nat /\ ReadLen(1) <= Readable
  BY ReadableIsTotal, ReadLenBound DEF DataInv, DataTypeOK, Op
<1> DEFINE skip == IF o.kind = "next" THEN ReadLen(1) ELSE 0
<1>2. skip \in Nat /\ skip <= Readable
  BY <1>1
<1>3. totalRead + skip \in Nat /\ Smaller(o.count, Readable - skip) \in Nat
  BY <1>1, <1>2 DEF Smaller
<1>4. Answer(o) = [st |-> "done", kind |-> "none", count |-> 0,
                   at |-> totalRead + skip, len |-> Smaller(o.count, Readable - skip)]
  BY DEF Answer
<1> HIDE DEF skip
<1> QED
  BY <1>3, <1>4 DEF Op

LEMMA WriterAtType ==
    ASSUME NEW pc \in {"idle", "put", "fulfil", "after", "flag", "closing", "closed"},
           NEW n \in Nat, NEW next \in {"idle", "after", "closed"}
    PROVE  /\ WriterAt(pc, n, next) \in Writer
           /\ WriterAt(pc, n, next).pc = pc /\ WriterAt(pc, n, next).next = next
BY DEF WriterAt, Writer

LEMMA CallTypeStep ==
    ASSUME Inv, [Next]_vars
    PROVE  CallTypeOK'
<1> USE DEF Inv, CallInv
<1> SUFFICES ASSUME Next PROVE CallTypeOK'
  BY DEF CallTypeOK, vars, flags
<1>1. ASSUME NEW n \in 1..MaxCount, PutBegin(n) \/ Alloc(n) PROVE CallTypeOK'
  <2>1. n \in Nat
    BY BufferAssumption DEF BufferAssumption
  <2>2. writer' \in Writer
    BY <1>1, <2>1, WriterAtType DEF PutBegin, Alloc, CallTypeOK
  <2> QED
    BY <1>1, <2>1, <2>2 DEF PutBegin, Alloc, CallTypeOK, flags
<1>2. ASSUME NEW n \in 0..MaxCount, Commit(n) PROVE CallTypeOK'
  BY <1>2, WriterAtType DEF Commit, CallTypeOK, flags
<1>3. ASSUME NEW e \in BOOLEAN, CloseBegin(e) PROVE CallTypeOK'
  BY <1>3, WriterAtType DEF CloseBegin, CallTypeOK, flags
<1>4. CASE PutLocked \/ PutEnd \/ Sync \/ CloseFlag \/ CloseLocked
  <2>1. writer' \in Writer
    BY <1>4, WriterAtType DEF PutLocked, PutEnd, Sync, CloseFlag, CloseLocked
  <2>2. CASE PutLocked \/ Sync \/ CloseLocked
    BY <2>1, <2>2 DEF PutLocked, Sync, CloseLocked, CallTypeOK, flags
  <2>3. CASE PutEnd \/ CloseFlag
    BY <2>1, <2>3 DEF PutEnd, CloseFlag, CallTypeOK
  <2> QED
    BY <1>4, <2>2, <2>3
<1>5. CASE FulfilEnd
  <2>1. writer.next \in {"idle", "after", "closed"}
    BY DEF CallTypeOK, Writer
  <2> QED
    BY <1>5, <2>1, WriterAtType DEF FulfilEnd, CallTypeOK, flags
<1>6. CASE Fulfil
  <2> DEFINE r == Head(requests)
  <2>1. r \in Readers /\ Tail(requests) \in Seq(Readers)
    BY <1>6, HeadTailProperties DEF Fulfil, CallTypeOK
  <2>2. op[r] \in Op
    BY <2>1 DEF CallTypeOK
  <2>3. Answer(op[r]) \in Op
    BY <2>2, AnswerType
  <2>4. op' = [op EXCEPT ![r] = Answer(op[r])]
    BY <1>6 DEF Fulfil
  <2> QED
    BY <1>6, <2>1, <2>3, <2>4 DEF Fulfil, CallTypeOK, flags
<1>7. ASSUME NEW r \in Readers, NEW kind \in AsyncReads, NEW n \in Sizes(kind),
             StartAsync(r, kind, n)
      PROVE  CallTypeOK'
  <2>1. Call("parked", kind, n) \in Op
    BY BufferAssumption, SizesPositive DEF BufferAssumption, Call, Idle, Op
  <2>2. Answer(Call("parked", kind, n)) \in Op
    BY <2>1, AnswerType
  <2>3. op' \in [Readers -> Op]
    BY <1>7, <2>1, <2>2 DEF StartAsync, CallTypeOK
  <2>4. requests' \in Seq(Readers)
    BY <1>7, AppendProperties DEF StartAsync, CallTypeOK
  <2> QED
    BY <1>7, <2>3, <2>4 DEF StartAsync, CallTypeOK, flags
<1>8. ASSUME NEW r \in Readers, NEW kind \in SyncReads, NEW n \in Sizes(kind),
             SyncCheck(r, kind, n)
      PROVE  CallTypeOK'
  <2>1. Call("checked", kind, n) \in Op
    BY BufferAssumption, SizesPositive DEF BufferAssumption, Call, Idle, Op
  <2> QED
    BY <1>8, <2>1 DEF SyncCheck, CallTypeOK, flags
<1>9. ASSUME NEW r \in Readers, Continuation(r) PROVE CallTypeOK'
  <2>1. /\ Idle \in Op /\ Call("ended", "none", 0) \in Op
        /\ Call("returning", "none", 0) \in Op
        /\ [op[r] EXCEPT !.st = "tested"] \in Op
    BY DEF Idle, Call, Op, CallTypeOK
  <2>2. CASE SetEof(r)
    <3>1. op' = [op EXCEPT ![r] = [op[r] EXCEPT !.st = "tested"]]
      BY <2>2 DEF SetEof
    <3> QED
      BY <2>1, <2>2, <3>1 DEF SetEof, CallTypeOK
  <2>3. CASE CheckEof(r)
    BY <2>1, <2>3 DEF CheckEof, CallTypeOK, flags
  <2>4. CASE SyncRead(r)
    BY <2>1, <2>4 DEF SyncRead, CallTypeOK, flags
  <2>5. CASE SyncReturn(r)
    BY <2>1, <2>5 DEF SyncReturn, CallTypeOK
  <2> QED
    BY <1>9, <2>2, <2>3, <2>4, <2>5 DEF Continuation
<1>10. CASE Acquire
  <2>1. Front \in Block /\ Front.rd <= Front.wr
    BY <1>10, EmptySeq, ElementOfSeq
       DEF Acquire, Front, DataInv, DataTypeOK, CountersAgree, BlocksContiguous
  <2>2. Front.wr - Front.rd \in Nat
    BY <2>1 DEF Block
  <2> QED
    BY <1>10, <2>2 DEF Acquire, CallTypeOK, flags
<1>11. ASSUME NEW n \in 0..MaxCount, Release(n) PROVE CallTypeOK'
  BY <1>11 DEF Release, CallTypeOK, flags
<1>12. CASE CloseRead
  BY <1>12 DEF CloseRead, CallTypeOK
<1> QED
  BY <1>1, <1>2, <1>3, <1>4, <1>5, <1>6, <1>7, <1>8, <1>9, <1>10, <1>11, <1>12
     DEF Next, Producer, Consumer

LEMMA WriterInvStep ==
    ASSUME Inv, [Next]_vars
    PROVE  WriterInv'
<1> USE DEF Inv, CallInv
<1>1. CASE Producer
  <2>1. \A pc, n, next : WriterAt(pc, n, next).pc = pc /\ WriterAt(pc, n, next).next = next
    BY DEF WriterAt
  <2>2. writer.next \in {"idle", "after", "closed"} /\ canWrite \in BOOLEAN
    BY DEF CallTypeOK, Writer
  <2>3. ASSUME NEW n \in Nat, PutBegin(n) \/ Alloc(n) \/ Commit(n) PROVE WriterInv'
    BY <2>1, <2>3 DEF PutBegin, Alloc, Commit, WriterInv, flags
  <2>4. ASSUME NEW e \in BOOLEAN, CloseBegin(e) PROVE WriterInv'
    BY <2>1, <2>4 DEF CloseBegin, WriterInv
  <2>5. CASE PutLocked \/ Sync
    BY <2>1, <2>5 DEF PutLocked, Sync, WriterInv, flags
  <2>6. CASE Fulfil
    BY <2>6 DEF Fulfil, WriterInv, flags
  <2>7. CASE FulfilEnd
    BY <2>1, <2>2, <2>7 DEF FulfilEnd, WriterInv, flags
  <2>8. CASE PutEnd \/ CloseFlag
    BY <2>1, <2>8 DEF PutEnd, CloseFlag, WriterInv
  <2>9. CASE CloseLocked
    BY <2>1, <2>9 DEF CloseLocked, WriterInv, flags
  <2> QED
    BY <1>1, <2>3, <2>4, <2>5, <2>6, <2>7, <2>8, <2>9, BufferAssumption
       DEF Producer, BufferAssumption
<1>2. CASE Consumer \/ UNCHANGED vars
  BY <1>2 DEF Consumer, Continuation, StartAsync, SyncCheck, SetEof, CheckEof, SyncRead,
              SyncReturn, Acquire, Release, CloseRead, WriterInv, vars, flags
<1> QED
  BY <1>1, <1>2 DEF Next

LEMMA QueueInvStep ==
    ASSUME Inv, [Next]_vars
    PROVE  QueueInv'
<1> USE DEF Inv, CallInv
<1>0. requests \in Seq(Readers) /\ op \in [Readers -> Op] /\ Len(requests) \in Nat
      /\ \A i \in 1..Len(requests) : requests[i] \in Readers
  BY ElementOfSeq DEF CallTypeOK
<1>1. CASE UNCHANGED <<op, requests>>
  BY <1>1 DEF QueueInv
<1>2. CASE Fulfil
  <2> DEFINE r == Head(requests)
  <2>1. /\ requests # <<>> /\ requests' = Tail(requests)
        /\ op' = [op EXCEPT ![r] = Answer(op[r])]
    BY <1>2 DEF Fulfil
  <2>2. r \in Readers /\ r = requests[1] /\ 1 \in 1..Len(requests)
    BY <1>0, <2>1, HeadTailProperties, EmptySeq
  <2>3. Len(requests') = Len(requests) - 1
        /\ \A i \in 1..Len(requests') : requests'[i] = requests[i + 1]
    BY <1>0, <2>1, HeadTailProperties
  <2>4. Answer(op[r]).st = "done"
    BY <1>0, <2>2, AnswerType
  <2>5. \A i \in 1..Len(requests') : requests'[i] \in Readers /\ requests'[i] # r
    <3> HIDE DEF r
    <3> SUFFICES ASSUME NEW i \in 1..Len(requests')
                 PROVE  requests'[i] \in Readers /\ requests'[i] # r
      OBVIOUS
    <3>1. i + 1 \in 1..Len(requests) /\ i + 1 # 1 /\ requests'[i] = requests[i + 1]
      BY <1>0, <2>3
    <3>2. requests[i + 1] # requests[1]
      BY <2>2, <3>1 DEF QueueInv
    <3> QED
      BY <1>0, <2>2, <3>1, <3>2
  <2> HIDE DEF r
  <2> QED
    BY <1>0, <2>1, <2>2, <2>3, <2>4, <2>5 DEF QueueInv
<1>3. ASSUME NEW r \in Readers, NEW kind \in AsyncReads, NEW n \in Sizes(kind),
             StartAsync(r, kind, n)
      PROVE  QueueInv'
  <2> DEFINE o == Call("parked", kind, n)
  <2>1. o.st = "parked" /\ o.count >= 1 /\ o \in Op
    BY SizesPositive, BufferAssumption DEF BufferAssumption, Call, Op
  <2>2. Answer(o).st = "done"
    BY <2>1, AnswerType
  <2>3. \A i \in 1..Len(requests) : requests[i] # r
    BY <1>3 DEF StartAsync, MayStart, QueueInv
  <2>4. CASE CanSatisfy(n)
    <3>1. op' = [op EXCEPT ![r] = Answer(o)] /\ requests' = requests
      BY <1>3, <2>4 DEF StartAsync
    <3> HIDE DEF o
    <3> QED
      BY <1>0, <2>2, <2>3, <3>1 DEF QueueInv
  <2>5. CASE ~CanSatisfy(n)
    <3>1. op' = [op EXCEPT ![r] = o] /\ requests' = Append(requests, r)
      BY <1>3, <2>5 DEF StartAsync
    <3>2. /\ Len(requests') = Len(requests) + 1
          /\ \A i \in 1..Len(requests) : requests'[i] = requests[i]
          /\ requests'[Len(requests) + 1] = r
      BY <1>0, <3>1, AppendProperties
    <3>3. \A i \in 1..Len(requests') : i = Len(requests) + 1 \/ i \in 1..Len(requests)
      BY <1>0, <3>2
    <3> HIDE DEF o
    <3> QED
      BY <1>0, <2>1, <2>3, <3>1, <3>2, <3>3 DEF QueueInv
  <2> QED
    BY <2>4, <2>5
<1>4. ASSUME NEW r \in Readers, op[r].st # "parked", requests' = requests,
             NEW o, op' = [op EXCEPT ![r] = o],
             o.st # "parked", o.st = "checked" => o.count >= 1
      PROVE  QueueInv'
  BY <1>0, <1>4 DEF QueueInv
<1>5. ASSUME NEW r \in Readers, NEW kind \in SyncReads, NEW n \in Sizes(kind),
             SyncCheck(r, kind, n)
      PROVE  QueueInv'
  <2> DEFINE o == Call("checked", kind, n)
  <2>1. o.st = "checked" /\ o.count = n
    BY DEF Call
  <2>2. op[r].st = "idle" /\ op' = [op EXCEPT ![r] = o] /\ requests' = requests
    BY <1>5 DEF SyncCheck, MayStart
  <2>3. n >= 1
    BY SizesPositive
  <2> HIDE DEF o
  <2> QED
    BY <2>1, <2>2, <2>3, <1>4
<1>6. ASSUME NEW r \in Readers, Continuation(r)
      PROVE  QueueInv'
  <2>1. CASE SetEof(r)
    <3>1. op' = [op EXCEPT ![r] = [op[r] EXCEPT !.st = "tested"]]
      BY <2>1 DEF SetEof
    <3>2. [op[r] EXCEPT !.st = "tested"].st = "tested"
      BY <1>0 DEF Op
    <3> QED
      BY <2>1, <3>1, <3>2, <1>4 DEF SetEof
  <2>2. CASE CheckEof(r) \/ SyncRead(r) \/ SyncReturn(r)
    <3>1. PICK o \in {Idle, Call("ended", "none", 0), Call("returning", "none", 0)} :
            op' = [op EXCEPT ![r] = o]
      BY <2>2 DEF CheckEof, SyncRead, SyncReturn
    <3>2. o.st \notin {"parked", "checked"}
      BY DEF Idle, Call
    <3>3. requests' = requests /\ op[r].st # "parked"
      BY <2>2 DEF CheckEof, SyncRead, SyncReturn
    <3> QED
      BY <1>4, <3>1, <3>2, <3>3
  <2> QED
    BY <1>6, <2>1, <2>2 DEF Continuation
<1> QED
  BY <1>1, <1>2, <1>3, <1>5, <1>6
     DEF Next, Producer, Consumer, PutBegin, Alloc, Commit, CloseBegin, PutLocked, FulfilEnd,
         PutEnd, Sync, CloseFlag, CloseLocked, Acquire, Release, CloseRead, vars

LEMMA HeldInvStep ==
    ASSUME Inv, [Next]_vars
    PROVE  HeldInv'
<1> USE DEF Inv, CallInv
<1>1. CASE UNCHANGED <<op, held, blocks>>
  BY <1>1 DEF HeldInv, AcquiredStable, Front
<1>2. CASE held' = -1
  BY <1>2 DEF HeldInv, AcquiredStable
\* Whoever answers or starts a read finds no block acquired.
<1>3. ASSUME NEW r \in Readers, op[r].st # "idle" \/ held = -1, held' = held
      PROVE  HeldInv'
  BY <1>2, <1>3 DEF HeldInv
<1>4. CASE Fulfil
  <2>1. Head(requests) \in Readers /\ op[Head(requests)].st = "parked"
    <3>1. requests # <<>> /\ requests \in Seq(Readers)
      BY <1>4 DEF Fulfil, CallTypeOK
    <3>2. Head(requests) \in Readers /\ Head(requests) = requests[1] /\ 1 \in 1..Len(requests)
      BY <3>1, HeadTailProperties, EmptySeq
    <3> QED
      BY <3>2 DEF QueueInv
  <2> QED
    BY <1>3, <1>4, <2>1 DEF Fulfil
<1>5. ASSUME NEW r \in Readers, Continuation(r) PROVE HeldInv'
  BY <1>3, <1>5 DEF Continuation, SetEof, CheckEof, SyncRead, SyncReturn
<1>6. ASSUME NEW r \in Readers, NEW kind, NEW n, StartAsync(r, kind, n) \/ SyncCheck(r, kind, n)
      PROVE  HeldInv'
  BY <1>3, <1>6 DEF StartAsync, SyncCheck, MayStart
<1>7. CASE Acquire
  BY <1>7 DEF Acquire, HeldInv, AcquiredStable, Front, data, CallTypeOK
<1>8. ASSUME NEW n, Release(n) PROVE HeldInv'
  BY <1>2, <1>8 DEF Release
\* A write leaves the front block where it is, or lengthens it.
<1>9. ASSUME held' = held, op' = op, held # -1,
             blocks # <<>> => blocks' # <<>> /\ Front' \in Block
                              /\ Front'.rd = Front.rd /\ Front'.wr >= Front.wr
      PROVE  HeldInv'
  <2>1. blocks # <<>> /\ held <= Front.wr - Front.rd /\ held \in Nat
    BY <1>9 DEF HeldInv, AcquiredStable, CallTypeOK
  <2>2. Front \in Block
    BY <2>1, EmptySeq, ElementOfSeq DEF Front, DataInv, DataTypeOK
  <2>3. held' <= Front'.wr - Front'.rd
    BY <2>1, <2>2, <1>9 DEF Block
  <2> QED
    BY <2>1, <2>3, <1>9 DEF HeldInv, AcquiredStable
<1>10. ASSUME held' = held, op' = op, NEW new \in Block, blocks' = Append(blocks, new)
       PROVE  HeldInv'
  <2>1. blocks # <<>> => blocks' # <<>> /\ Front' = Front /\ Front \in Block
    <3> SUFFICES ASSUME blocks # <<>> PROVE blocks' # <<>> /\ Front' = Front /\ Front \in Block
      OBVIOUS
    <3>1. blocks \in Seq(Block) /\ 1 \in 1..Len(blocks) /\ Len(blocks) \in Nat
      BY EmptySeq DEF DataInv, DataTypeOK
    <3>2. /\ blocks' \in Seq(Block) /\ Len(blocks') = Len(blocks) + 1
          /\ \A i \in 1..Len(blocks) : blocks'[i] = blocks[i]
      BY <1>10, <3>1, AppendProperties
    <3>3. blocks' # <<>>
      BY <3>1, <3>2, EmptySeq
    <3> QED
      BY <3>1, <3>2, <3>3, ElementOfSeq DEF Front
  <2>2. CASE held = -1
    BY <1>2, <1>10, <2>2
  <2>3. CASE held # -1
    BY <1>9, <1>10, <2>1, <2>3 DEF Block
  <2> QED
    BY <2>2, <2>3
<1>11. ASSUME NEW n \in Nat, NEW lim \in Nat
       PROVE  [rd |-> totalWritten, wr |-> totalWritten + n, lim |-> totalWritten + lim] \in Block
  BY DEF Block, DataInv, DataTypeOK
<1>12. CASE PutLocked
  <2>1. writer.n \in Nat /\ Larger(AllocSize, writer.n) \in Nat
    BY BufferAssumption DEF BufferAssumption, CallTypeOK, Writer, Larger
  <2>2. CASE blocks = <<>> \/ Back.lim - Back.wr < writer.n
    BY <1>10, <1>11, <1>12, <2>1, <2>2 DEF PutLocked
  <2>3. CASE ~(blocks = <<>> \/ Back.lim - Back.wr < writer.n)
    <3>1. blocks' = [blocks EXCEPT ![Len(blocks)].wr = @ + writer.n]
      BY <1>12, <2>3 DEF PutLocked
    <3>2. blocks \in Seq(Block) /\ 1 \in 1..Len(blocks) /\ Len(blocks) \in 1..Len(blocks)
      BY <2>3, EmptySeq DEF DataInv, DataTypeOK
    <3>3. blocks[1] \in Block /\ blocks' # <<>>
      <4>1. Len(blocks) = Len(blocks') /\ blocks' \in Seq(Block)
        <5>1. blocks[Len(blocks)] \in Block
          BY <3>2, ElementOfSeq
        <5>2. [blocks[Len(blocks)] EXCEPT !.wr = @ + writer.n] \in Block
          BY <5>1, <2>1 DEF Block
        <5>3. blocks' = [blocks EXCEPT ![Len(blocks)] = [blocks[Len(blocks)] EXCEPT !.wr = @ + writer.n]]
          BY <3>1
        <5> DEFINE e == [blocks[Len(blocks)] EXCEPT !.wr = @ + writer.n]
        <5>4. e \in Block /\ blocks' = [blocks EXCEPT ![Len(blocks)] = e]
          BY <5>2, <5>3, Zenon
        <5> HIDE DEF e
        <5> QED
          BY <3>2, <5>4, ExceptSeq
      <4> QED
        BY <3>2, <4>1, ElementOfSeq, EmptySeq
    <3>4. blocks'[1].rd = blocks[1].rd /\ blocks'[1].wr >= blocks[1].wr /\ blocks'[1] \in Block
      BY <2>1, <3>1, <3>2, <3>3 DEF Block
    <3>5. CASE held = -1
      BY <1>2, <1>12, <3>5 DEF PutLocked
    <3>6. CASE held # -1
      BY <1>9, <1>12, <3>3, <3>4, <3>6 DEF PutLocked, Front
    <3> QED
      BY <3>5, <3>6
  <2> QED
    BY <2>2, <2>3
<1>13. ASSUME NEW n \in 0..MaxCount, Commit(n) PROVE HeldInv'
  <2>1. n \in Nat /\ allocBlock \in Nat
    BY BufferAssumption DEF BufferAssumption, CallTypeOK
  <2> QED
    BY <1>10, <1>11, <1>13, <2>1 DEF Commit
<1>14. CASE CloseRead
  BY <1>1, <1>14 DEF CloseRead, data
<1> QED
  BY <1>1, <1>4, <1>5, <1>6, <1>7, <1>8, <1>12, <1>13, <1>14
     DEF Next, Producer, Consumer, PutBegin, Alloc, CloseBegin, FulfilEnd,
         PutEnd, Sync, CloseFlag, CloseLocked, vars, data

LEMMA NoLostWakeupStep ==
    ASSUME Inv, [Next]_vars
    PROVE  NoLostWakeup'
<1> USE DEF Inv, CallInv
<1> DEFINE h == Head(requests)
<1>0. /\ requests \in Seq(Readers) /\ op \in [Readers -> Op] /\ Len(requests) \in Nat
      /\ \A i \in 1..Len(requests) : requests[i] \in Readers
      /\ requests # <<>> => h = requests[1] /\ h \in Readers /\ op[h].st = "parked"
                            /\ op[h].count \in Nat
  <2>1. requests \in Seq(Readers) /\ op \in [Readers -> Op]
    BY DEF CallTypeOK
  <2>2. ASSUME requests # <<>>
        PROVE  h = requests[1] /\ h \in Readers /\ op[h].st = "parked" /\ op[h].count \in Nat
    <3>1. 1 \in 1..Len(requests) /\ h = requests[1] /\ h \in Readers
      BY <2>1, <2>2, EmptySeq, HeadTailProperties
    <3> QED
      BY <2>1, <3>1 DEF QueueInv, Op
  <2> QED
    BY <2>1, <2>2, ElementOfSeq
\* The lock is held, or the producer is about to take it.
<1>1. CASE writer'.pc \in {"fulfil", "closing"}
  BY <1>1 DEF NoLostWakeup
<1>2. ASSUME UNCHANGED <<requests, canWrite, total, synced>>,
             writer.pc \notin {"fulfil", "closing"},
             requests # <<>> => op'[h].count = op[h].count
      PROVE  NoLostWakeup'
  BY <1>2 DEF NoLostWakeup, CanSatisfy
\* The lock is released only when the oldest parked read has to wait.
<1>3. CASE FulfilEnd
  BY <1>3 DEF FulfilEnd, NoLostWakeup, CanSatisfy, flags, data
\* A read that runs ahead of the parked ones makes nothing available to them.
<1>4. ASSUME writer' = writer, canWrite' = canWrite, requests' = requests,
             requests # <<>> => op'[h].count = op[h].count,
             DataInv', total' <= total, synced' <= synced
      PROVE  NoLostWakeup'
  <2> SUFFICES ASSUME writer.pc \notin {"fulfil", "closing"}, requests # <<>>
               PROVE  ~CanSatisfy(op[h].count)'
    BY <1>4 DEF NoLostWakeup
  <2>1. ~CanSatisfy(op[h].count) /\ op[h].count \in Nat
    BY <1>0 DEF NoLostWakeup
  <2> DEFINE c == op[h].count
  <2>2. c' = c
    BY <1>4
  <2>3. ~(synced > 0 \/ total >= c \/ ~canWrite) /\ c \in Nat
    BY <2>1 DEF CanSatisfy
  <2>4. ~(synced' > 0 \/ total' >= c \/ ~canWrite')
    BY <1>4, <2>3 DEF DataInv, DataTypeOK
  <2> HIDE DEF c
  <2>5. ~CanSatisfy(c)'
    BY <2>2, <2>4 DEF CanSatisfy
  <2> QED
    BY <2>5 DEF c
\* A read made while the lock is free, answered or parked.
<1>5. ASSUME NEW r \in Readers, NEW kind \in AsyncReads, NEW n \in Sizes(kind),
             StartAsync(r, kind, n)
      PROVE  NoLostWakeup'
  <2> DEFINE o == Call("parked", kind, n)
  <2>1. o.count = n /\ n \in Nat
    BY SizesPositive DEF Call
  <2>2. writer' = writer /\ canWrite' = canWrite /\ writer.pc # "fulfil"
    BY <1>5 DEF StartAsync, Unlocked, flags
  <2>3. requests # <<>> => h # r
    BY <1>0, <1>5 DEF StartAsync, MayStart
  <2>4. CASE CanSatisfy(n)
    <3>1. op' = [op EXCEPT ![r] = Answer(o)] /\ requests' = requests /\ ReadStep(o)
      BY <1>5, <2>4 DEF StartAsync
    <3>2. DataInv' /\ total' <= total /\ synced' <= synced
      BY <2>1, <3>1, ReadStepKeepsData
    <3>3. requests # <<>> => op'[h].count = op[h].count
      BY <1>0, <2>3, <3>1
    <3> QED
      BY <1>4, <2>2, <3>1, <3>2, <3>3
  <2>5. CASE ~CanSatisfy(n)
    <3>1. op' = [op EXCEPT ![r] = o] /\ requests' = Append(requests, r) /\ UNCHANGED data
      BY <1>5, <2>5 DEF StartAsync
    <3>2. requests' # <<>>
          /\ Head(requests') = IF requests = <<>> THEN r ELSE h
      <4>1. /\ requests' \in Seq(Readers) /\ Len(requests') = Len(requests) + 1
            /\ \A i \in 1..Len(requests) : requests'[i] = requests[i]
            /\ requests'[Len(requests) + 1] = r
        BY <1>0, <3>1, AppendProperties
      <4>2. requests' # <<>>
        BY <1>0, <4>1, EmptySeq
      <4>3. Head(requests') = requests'[1]
        BY <4>1, <4>2, HeadTailProperties
      <4>4. CASE requests = <<>>
        BY <1>0, <4>1, <4>2, <4>3, <4>4, EmptySeq
      <4>5. CASE requests # <<>>
        BY <1>0, <4>1, <4>2, <4>3, <4>5, EmptySeq
      <4> QED
        BY <4>4, <4>5
    <3>3. op'[r].count = n /\ (requests # <<>> => op'[h].count = op[h].count)
      BY <1>0, <2>1, <2>3, <3>1
    <3> HIDE DEF o
    <3> QED
      BY <2>2, <2>5, <3>1, <3>2, <3>3 DEF NoLostWakeup, CanSatisfy, data
  <2> QED
    BY <2>4, <2>5
<1>6. ASSUME NEW r \in Readers, SyncRead(r) PROVE NoLostWakeup'
  <2>1. op[r].count \in Nat /\ op[r].st = "checked"
    BY <1>0, <1>6 DEF SyncRead, Op
  <2>2. ReadStep(op[r]) \/ UNCHANGED data
    BY <1>6 DEF SyncRead
  <2>3. DataInv' /\ total' <= total /\ synced' <= synced
    <3>1. CASE ReadStep(op[r])
      BY <2>1, <3>1, ReadStepKeepsData
    <3>2. CASE UNCHANGED data
      BY <3>2, DataUnchanged DEF data, DataInv, DataTypeOK
    <3> QED
      BY <2>2, <3>1, <3>2
  <2>4. requests # <<>> => op'[h].count = op[h].count
    BY <1>0, <1>6, <2>1 DEF SyncRead
  <2> QED
    BY <1>4, <1>6, <2>3, <2>4 DEF SyncRead, flags
<1>7. ASSUME NEW n \in 0..MaxCount, Release(n) PROVE NoLostWakeup'
  <2>1. n \in 0..total /\ UpdateReadHead(n)
    BY <1>7, HeldIsAvailable, BufferAssumption DEF Release, BufferAssumption, DataInv, DataTypeOK
  <2>2. DataInv' /\ total' <= total /\ synced' <= synced
    BY <2>1, UpdateReadHeadKeepsData DEF DataInv, DataTypeOK
  <2> QED
    BY <1>4, <1>7, <2>2 DEF Release, flags
\* Steps of a call other than the parked ones.
<1>8. ASSUME NEW r \in Readers, op[r].st # "parked", UNCHANGED <<requests, canWrite, data, writer>>,
             NEW o, op' = [op EXCEPT ![r] = o]
      PROVE  NoLostWakeup'
  <2>1. requests # <<>> => op'[h] = op[h]
    BY <1>0, <1>8
  <2> QED
    BY <1>8, <2>1 DEF NoLostWakeup, CanSatisfy, data
<1>9. ASSUME NEW r \in Readers, SetEof(r) \/ CheckEof(r) \/ SyncReturn(r) PROVE NoLostWakeup'
  <2>1. PICK o : op' = [op EXCEPT ![r] = o]
    BY <1>9 DEF SetEof, CheckEof, SyncReturn
  <2> QED
    BY <1>8, <1>9, <2>1 DEF SetEof, CheckEof, SyncReturn, flags
<1>10. ASSUME NEW r \in Readers, NEW kind, NEW n, SyncCheck(r, kind, n) PROVE NoLostWakeup'
  BY <1>8, <1>10 DEF SyncCheck, MayStart, flags
\* The producer's steps outside the lock, and the consumer's others.
<1>11. ASSUME NEW n, PutBegin(n) \/ Alloc(n) PROVE NoLostWakeup'
  BY <1>2, <1>11 DEF PutBegin, Alloc, flags, data
<1>12. ASSUME NEW e, CloseBegin(e) PROVE NoLostWakeup'
  BY <1>2, <1>12 DEF CloseBegin, data
<1>13. CASE PutEnd
  BY <1>2, <1>13 DEF PutEnd, data
<1>14. CASE Acquire \/ CloseRead \/ UNCHANGED vars
  BY <1>14 DEF Acquire, CloseRead, NoLostWakeup, CanSatisfy, flags, data, vars
\* The rest run under the lock, or end with the producer about to take it.
<1>15. ASSUME NEW n, Commit(n) PROVE NoLostWakeup'
  BY <1>1, <1>15 DEF Commit, WriterAt
<1>16. CASE PutLocked \/ Fulfil \/ Sync \/ CloseFlag \/ CloseLocked
  BY <1>1, <1>16 DEF PutLocked, Fulfil, Sync, CloseFlag, CloseLocked, WriterAt
<1> QED
  BY <1>3, <1>5, <1>6, <1>7, <1>9, <1>10, <1>11, <1>12, <1>13, <1>14, <1>15, <1>16
     DEF Next, Producer, Consumer, Continuation

-----------------------------------------------------------------------------
(* The theorems.                                                              *)

LEMMA InvInit == Init => Inv
<1> SUFFICES ASSUME Init PROVE Inv
  OBVIOUS
<1> USE DEF Init
<1>1. DataInv
  BY EmptySeq DEF DataInv, DataTypeOK, CountersAgree, BlocksContiguous, BelowWriteHead
<1>2. CallTypeOK
  BY WriterAtType, EmptySeq DEF CallTypeOK, Idle, Call, Op
<1>3. QueueInv /\ WriterInv /\ HeldInv /\ NoLostWakeup
  BY DEF QueueInv, WriterInv, WriterAt, HeldInv, AcquiredStable, NoLostWakeup, Idle, Call
<1> QED
  BY <1>1, <1>2, <1>3 DEF Inv, CallInv

LEMMA InvStep == Inv /\ [Next]_vars => Inv'
BY DataInvStep, CallTypeStep, QueueInvStep, WriterInvStep, HeldInvStep, NoLostWakeupStep
   DEF Inv, CallInv

LEMMA InvHolds == Spec => []Inv
BY InvInit, InvStep, PTL DEF Spec

\* Every variable keeps the type the code gives it: in particular no unsigned
\* counter is ever taken below zero by a read (update_read_head() subtracts
\* from m_total without a test).
THEOREM TypeCorrect == Spec => []TypeOK
<1>1. Inv => TypeOK
  BY DEF Inv, DataInv, DataTypeOK, CallInv, CallTypeOK, TypeOK
<1> QED
  BY <1>1, InvHolds, PTL

\* The blocks and the counters of the buffer agree, whatever the block size,
\* the counts and the interleaving of producer and consumers.
THEOREM CountersAlwaysAgree == Spec => []CountersAgree
<1>1. Inv => CountersAgree
  BY DEF Inv, DataInv
<1> QED
  BY <1>1, InvHolds, PTL

\* No wake-up is lost: a read stays parked only while what it asks for is not
\* there, for any number of readers.
THEOREM NoWakeupIsLost == Spec => []NoLostWakeup
<1>1. Inv => NoLostWakeup
  BY DEF Inv, CallInv
<1> QED
  BY <1>1, InvHolds, PTL

\* A block handed out by acquire() stays at the head of the queue, with the
\* characters the consumer was promised, until it is released.
THEOREM AcquiredBlockIsStable == Spec => []AcquiredStable
<1>1. Inv => AcquiredStable
  BY DEF Inv, CallInv, HeldInv
<1> QED
  BY <1>1, InvHolds, PTL

-----------------------------------------------------------------------------
(* The end of the stream, for consumers that do not use nextc: it peeks at a  *)
(* character it did not wait for.                                             *)

\* The producer has closed and everything it wrote was consumed, for ever.
Ended == ~canWrite /\ total = 0

CallSound(o) ==
    /\ o.st = "parked" => o.kind # "next"
    /\ o.st \notin {"done", "tested"} => o.at = 0 /\ o.len = 0
    /\ o.st \in {"done", "tested"} /\ o.len = 0 => Ended
    /\ o.st = "ended" => Ended
    /\ o.st = "tested" /\ serial => (eof <=> o.len = 0)

\* A consumer that awaits each read has at most one call in flight.
OneCall ==
    serial => \A r \in Readers :
        op[r].st # "idle" => \A q \in Readers \ {r} : op[q].st = "idle"

EndInv == (eof => Ended) /\ (\A r \in Readers : CallSound(op[r])) /\ OneCall

\* Only a write makes characters available, and only while the stream is open.
LEMMA EndedStays ==
    ASSUME Inv, [Next]_vars
    PROVE  /\ Ended => Ended'
           /\ serial' = serial
<1> USE DEF Inv, CallInv
<1>0. total \in Nat
  BY DEF DataInv, DataTypeOK
<1>1. CASE PutLocked \/ \E n \in 0..MaxCount : Commit(n)
  <2>1. canWrite
    BY <1>1 DEF PutLocked, Commit, WriterInv
  <2> QED
    BY <1>1, <2>1 DEF Ended, PutLocked, Commit
<1>2. ASSUME NEW o, o.count \in Nat, ReadStep(o) \/ UNCHANGED data PROVE total = 0 => total' = 0
  <2>1. CASE ReadStep(o)
    <3>1. DataInv' /\ total' <= total
      BY <1>2, <2>1, ReadStepKeepsData
    <3> QED
      BY <1>0, <3>1 DEF DataInv, DataTypeOK
  <2> QED
    BY <1>2, <2>1 DEF data
<1>3. CASE Fulfil
  <2> DEFINE r == Head(requests)
  <2>1. r \in Readers /\ op[r].count \in Nat
    BY <1>3, HeadTailProperties DEF Fulfil, CallTypeOK, Op
  <2>2. ReadStep(op[r]) /\ canWrite' = canWrite /\ serial' = serial
    BY <1>3 DEF Fulfil, flags
  <2> QED
    BY <1>2, <2>1, <2>2 DEF Ended
<1>4. ASSUME NEW r \in Readers, NEW kind, NEW n \in Sizes(kind), StartAsync(r, kind, n)
      PROVE  (Ended => Ended') /\ serial' = serial
  <2>1. Call("parked", kind, n).count \in Nat
    BY SizesPositive DEF Call
  <2>2. ReadStep(Call("parked", kind, n)) \/ UNCHANGED data
    BY <1>4 DEF StartAsync
  <2> QED
    BY <1>2, <1>4, <2>1, <2>2 DEF StartAsync, flags, Ended
<1>5. ASSUME NEW r \in Readers, SyncRead(r) PROVE (Ended => Ended') /\ serial' = serial
  <2>1. op[r].count \in Nat
    BY DEF CallTypeOK, Op
  <2>2. ReadStep(op[r]) \/ UNCHANGED data
    BY <1>5 DEF SyncRead
  <2> QED
    BY <1>2, <1>5, <2>1, <2>2 DEF SyncRead, flags, Ended
<1>6. ASSUME NEW n \in 0..MaxCount, Release(n) PROVE (Ended => Ended') /\ serial' = serial
  <2>1. n \in 0..total /\ UpdateReadHead(n)
    BY <1>6, HeldIsAvailable, BufferAssumption DEF Release, BufferAssumption, DataInv, DataTypeOK
  <2>2. total' = total - n
    BY <2>1 DEF UpdateReadHead
  <2> QED
    BY <1>0, <1>6, <2>1, <2>2 DEF Release, flags, Ended
<1>7. CASE \/ \E n \in 1..MaxCount : PutBegin(n) \/ Alloc(n)
           \/ \E e \in BOOLEAN : CloseBegin(e)
           \/ FulfilEnd \/ PutEnd \/ Sync \/ CloseFlag \/ CloseLocked \/ Acquire \/ CloseRead
           \/ \E r \in Readers : SetEof(r) \/ CheckEof(r) \/ SyncReturn(r)
           \/ \E r \in Readers : \E kind, n : SyncCheck(r, kind, n)
           \/ UNCHANGED vars
  BY <1>7 DEF PutBegin, Alloc, CloseBegin, FulfilEnd, PutEnd, Sync, CloseFlag, CloseLocked,
              Acquire, CloseRead, SetEof, CheckEof, SyncReturn, SyncCheck, Ended, flags, data, vars
<1>8. (PutLocked \/ \E n \in 0..MaxCount : Commit(n)) => serial' = serial
  BY DEF PutLocked, Commit
<1> QED
  BY <1>1, <1>3, <1>4, <1>5, <1>6, <1>7, <1>8 DEF Next, Producer, Consumer, Continuation

\* A read that is answered with nothing has met the end of the stream.
LEMMA AnswerIsExact ==
    ASSUME DataInv, NEW o \in Op, o.kind # "next", o.count >= 1, CanSatisfy(o.count), ReadStep(o)
    PROVE  /\ Answer(o).st = "done" /\ Answer(o).at = totalRead
           /\ Answer(o).len = Smaller(o.count, total)
           /\ Answer(o).len = 0 => ~canWrite /\ total = 0
<1>1. total \in Nat /\ synced \in Nat /\ synced <= total /\ o.count \in Nat /\ totalRead \in Nat
  BY DEF DataInv, DataTypeOK, CountersAgree, Op
<1>2. Readable - 0 = total
  BY <1>1, ReadableIsTotal
<1>3. Answer(o) = [st |-> "done", kind |-> "none", count |-> 0, at |-> totalRead + 0,
                   len |-> Smaller(o.count, Readable - 0)]
  BY DEF Answer
<1>4. /\ Answer(o).st = "done" /\ Answer(o).at = totalRead
      /\ Answer(o).len = Smaller(o.count, total)
  BY <1>1, <1>2, <1>3
<1>5. Smaller(o.count, total) = 0 => total = 0 /\ synced = 0
  BY <1>1 DEF Smaller
<1> QED
  BY <1>1, <1>4, <1>5 DEF CanSatisfy

\* One call changes; the flag is stored by it, or stays.
LEMMA EndInvMoves ==
    ASSUME Inv, EndInv, [Next]_vars, NEW r \in Readers, NEW o \in Op,
           op' = [op EXCEPT ![r] = o],
           o.st = "parked" => o.kind # "next",
           o.st \notin {"done", "tested"} => o.at = 0 /\ o.len = 0,
           (o.st \in {"done", "tested"} /\ o.len = 0) \/ o.st = "ended" => Ended',
           o.st = "tested" => (eof' <=> o.len = 0),
           op[r].st # "idle" \/ o.st = "idle"
               \/ (serial => \A q \in Readers : op[q].st = "idle"),
           eof' = eof \/ ((eof' => Ended') /\ op[r].st # "idle")
    PROVE  EndInv'
<1>1. op \in [Readers -> Op]
  BY DEF Inv, CallInv, CallTypeOK
<1>2. op'[r] = o /\ \A q \in Readers \ {r} : op'[q] = op[q]
  BY <1>1
<1>3. (Ended => Ended') /\ serial' = serial
  BY EndedStays
<1>4. eof' => Ended'
  BY <1>3 DEF EndInv
<1>5. OneCall'
  BY <1>2, <1>3 DEF EndInv, OneCall
<1>6. ASSUME NEW q \in Readers PROVE CallSound(op[q])'
  <2>1. CASE q = r
    BY <1>2, <2>1 DEF CallSound
  <2>2. CASE q # r
    <3>1. op'[q] = op[q] /\ CallSound(op[q])
      BY <1>2, <2>2 DEF EndInv
    <3>2. op[q].st = "tested" /\ serial => eof' = eof
      BY <2>2 DEF EndInv, OneCall
    <3> QED
      BY <1>3, <3>1, <3>2 DEF CallSound
  <2> QED
    BY <2>1, <2>2
<1> QED
  BY <1>4, <1>5, <1>6 DEF EndInv

\* A step that changes no call.  A write ends by clearing the flag, and only
\* while the stream is open.
LEMMA EndInvKept ==
    ASSUME Inv, EndInv, [Next]_vars, op' = op, eof' = eof \/ (~eof' /\ canWrite)
    PROVE  EndInv'
<1>1. (Ended => Ended') /\ serial' = serial
  BY EndedStays
<1>2. ASSUME NEW q \in Readers PROVE CallSound(op[q])'
  <2>1. CallSound(op[q])
    BY DEF EndInv
  <2>2. op[q].st = "tested" /\ serial => (eof' <=> op[q].len = 0)
    BY <2>1 DEF CallSound, Ended
  <2> QED
    BY <1>1, <2>1, <2>2 DEF CallSound
<1> QED
  BY <1>1, <1>2 DEF EndInv, OneCall

LEMMA EndInvStep ==
    ASSUME "next" \notin AsyncReads, Inv, EndInv, [Next]_vars
    PROVE  EndInv'
<1>0. /\ op \in [Readers -> Op] /\ DataInv /\ eof \in BOOLEAN
      /\ \A r \in Readers : op[r] \in Op /\ op[r].count \in Nat /\ op[r].len \in Nat
  BY DEF Inv, CallInv, CallTypeOK, Op
<1>1. (Ended => Ended') /\ \A r \in Readers : CallSound(op[r])
  BY EndedStays DEF EndInv
\* A read that is answered with nothing leaves nothing.
<1>2. ASSUME NEW o \in Op, o.kind # "next", o.count >= 1, CanSatisfy(o.count), ReadStep(o),
             canWrite' = canWrite
      PROVE  Answer(o).len = 0 => Ended'
  <2>1. Answer(o).len = 0 => Ended
    BY <1>0, <1>2, AnswerIsExact DEF Ended
  <2> QED
    BY <1>1, <2>1
<1>3. CASE Fulfil
  <2> DEFINE r == Head(requests)
             o == Answer(op[r])
  <2>1. r \in Readers /\ op[r].st = "parked" /\ op[r].count >= 1
    <3>1. requests # <<>> /\ requests \in Seq(Readers)
      BY <1>3 DEF Fulfil, Inv, CallInv, CallTypeOK
    <3>2. r \in Readers /\ r = requests[1] /\ 1 \in 1..Len(requests)
      BY <3>1, HeadTailProperties, EmptySeq
    <3> QED
      BY <3>2 DEF Inv, CallInv, QueueInv
  <2>2. /\ CanSatisfy(op[r].count) /\ ReadStep(op[r])
        /\ op' = [op EXCEPT ![r] = o] /\ canWrite' = canWrite /\ eof' = eof
    BY <1>3 DEF Fulfil, flags
  <2>3. op[r].kind # "next" /\ op[r] \in Op
    BY <1>0, <1>1, <2>1 DEF CallSound
  <2>4. o.st = "done" /\ (o.len = 0 => Ended') /\ o \in Op
    BY <1>0, <1>2, <2>1, <2>2, <2>3, AnswerType
  <2> HIDE DEF r, o
  <2> QED
    BY <2>1, <2>2, <2>4, EndInvMoves
<1>4. ASSUME NEW r \in Readers, NEW kind \in AsyncReads, NEW n \in Sizes(kind),
             StartAsync(r, kind, n)
      PROVE  EndInv'
  <2> DEFINE o == Call("parked", kind, n)
             a == Answer(o)
  <2>1. o \in Op /\ o.st = "parked" /\ o.kind = kind /\ o.count = n /\ o.at = 0 /\ o.len = 0
    BY SizesPositive, BufferAssumption DEF BufferAssumption, Call, Op
  <2>2. kind # "next" /\ n >= 1
    BY SizesPositive
  <2>3. /\ MayStart(r) /\ eof' = eof /\ canWrite' = canWrite
        /\ CanSatisfy(n) => ReadStep(o) /\ op' = [op EXCEPT ![r] = a]
        /\ ~CanSatisfy(n) => op' = [op EXCEPT ![r] = o]
    BY <1>4 DEF StartAsync, flags
  <2>4. serial => \A q \in Readers : op[q].st = "idle"
    BY <2>3 DEF MayStart
  <2>5. CASE CanSatisfy(n)
    <3>1. a \in Op /\ a.st = "done" /\ (a.len = 0 => Ended')
      BY <1>0, <1>2, <2>1, <2>2, <2>3, <2>5, AnswerType
    <3> HIDE DEF a, o
    <3> QED
      BY <2>3, <2>4, <2>5, <3>1, EndInvMoves
  <2>6. CASE ~CanSatisfy(n)
    <3> HIDE DEF a, o
    <3> QED
      BY <2>1, <2>2, <2>3, <2>4, <2>6, EndInvMoves
  <2> QED
    BY <2>5, <2>6
<1>5. ASSUME NEW r \in Readers, NEW kind \in SyncReads, NEW n \in Sizes(kind),
             SyncCheck(r, kind, n)
      PROVE  EndInv'
  <2> DEFINE o == Call("checked", kind, n)
  <2>1. o \in Op /\ o.st = "checked" /\ o.at = 0 /\ o.len = 0
    BY SizesPositive, BufferAssumption DEF BufferAssumption, Call, Op
  <2>2. /\ op' = [op EXCEPT ![r] = o] /\ eof' = eof
        /\ serial => \A q \in Readers : op[q].st = "idle"
    BY <1>5 DEF SyncCheck, MayStart, flags
  <2> HIDE DEF o
  <2> QED
    BY <2>1, <2>2, EndInvMoves
<1>6. ASSUME NEW r \in Readers, SetEof(r) PROVE EndInv'
  <2> DEFINE o == [op[r] EXCEPT !.st = "tested"]
  <2>1. /\ op[r].st = "done" /\ op' = [op EXCEPT ![r] = o]
        /\ eof' = (op[r].len = 0)
    BY <1>6 DEF SetEof
  <2>2. o \in Op /\ o.st = "tested" /\ o.len = op[r].len
    BY <1>0 DEF Op
  <2>3. op[r].len = 0 => Ended'
    BY <1>1, <2>1 DEF CallSound
  <2> HIDE DEF o
  <2> QED
    BY <2>1, <2>2, <2>3, EndInvMoves
<1>7. \A st \in {"idle", "ended", "returning"} :
        LET o == Call(st, "none", 0) IN o \in Op /\ o.st = st /\ o.at = 0 /\ o.len = 0
  BY DEF Call, Op
<1>8. ASSUME NEW r \in Readers, CheckEof(r) PROVE EndInv'
  <2>1. op' = [op EXCEPT ![r] = Idle] /\ eof' = eof
    BY <1>8 DEF CheckEof, flags
  <2>2. Idle \in Op /\ Idle.st = "idle" /\ Idle.at = 0 /\ Idle.len = 0
    BY <1>7 DEF Idle
  <2> QED
    BY <2>1, <2>2, EndInvMoves
<1>9. ASSUME NEW r \in Readers, SyncReturn(r) PROVE EndInv'
  <2>1. /\ op' = [op EXCEPT ![r] = Idle] /\ op[r].st \in {"ended", "returning"}
        /\ eof' = (op[r].st = "ended")
    BY <1>9 DEF SyncReturn
  <2>2. Idle \in Op /\ Idle.st = "idle" /\ Idle.at = 0 /\ Idle.len = 0
    BY <1>7 DEF Idle
  <2>3. eof' => Ended'
    BY <1>1, <2>1 DEF CallSound
  <2> QED
    BY <2>1, <2>2, <2>3, EndInvMoves
<1>10. ASSUME NEW r \in Readers, SyncRead(r) PROVE EndInv'
  <2>1. /\ op[r].st = "checked" /\ op[r].count \in Nat /\ op[r].count >= 1
        /\ eof' = eof
    BY <1>0, <1>10 DEF SyncRead, flags, Inv, CallInv, QueueInv
  <2>2. PICK st \in {"idle", "ended", "returning"} :
            /\ op' = [op EXCEPT ![r] = Call(st, "none", 0)]
            /\ st = "ended" => CanSatisfy(op[r].count) /\ ReadLen(op[r].count) = 0
    BY <1>10 DEF SyncRead, Idle
  <2>3. st = "ended" => Ended
    <3>1. ReadLen(op[r].count) = Smaller(op[r].count, total)
      BY <1>0, <2>1, ReadLenBound
    <3>2. total \in Nat /\ synced \in Nat /\ synced <= total
      BY <1>0 DEF DataInv, DataTypeOK, CountersAgree
    <3> QED
      BY <2>1, <2>2, <3>1, <3>2 DEF Smaller, CanSatisfy, Ended
  <2> DEFINE o == Call(st, "none", 0)
  <2>4. o \in Op /\ o.st = st /\ o.at = 0 /\ o.len = 0
    BY <1>7
  <2>5. op' = [op EXCEPT ![r] = o]
    BY <2>2
  <2> HIDE DEF o
  <2> QED
    BY <1>1, <2>1, <2>3, <2>4, <2>5, EndInvMoves
<1>11. CASE PutEnd
  <2>1. canWrite /\ op' = op /\ ~eof'
    BY <1>11 DEF PutEnd, Inv, CallInv, WriterInv
  <2> QED
    BY <2>1, EndInvKept
<1>12. CASE op' = op /\ eof' = eof
  BY <1>12, EndInvKept
<1> QED
  BY <1>3, <1>4, <1>5, <1>6, <1>8, <1>9, <1>10, <1>11, <1>12
     DEF Next, Producer, Consumer, Continuation, PutBegin, Alloc, Commit, CloseBegin, PutLocked,
         FulfilEnd, Sync, CloseFlag, CloseLocked, Acquire, Release, CloseRead, vars, flags

\* A consumer that awaits its reads, or overlaps them, and does not use nextc
\* learns of the end of the stream, and of the exception it was closed with,
\* exactly when there is nothing more to come.
THEOREM EndOfStreamIsSound ==
    ASSUME "next" \notin AsyncReads
    PROVE  Spec => []EndIsSound
<1>1. Init => EndInv
  BY DEF Init, EndInv, CallSound, OneCall, Idle, Call
<1>2. Inv /\ EndInv /\ [Next]_vars => EndInv'
  BY EndInvStep
<1>3. Inv /\ EndInv => EndIsSound
  <2> SUFFICES ASSUME Inv, EndInv PROVE EndIsSound
    OBVIOUS
  <2>1. EofFlagSound
    BY DEF EndInv, EofFlagSound, Ended
  <2>2. ASSUME NEW r \in Readers, op[r].st = "tested", serial
        PROVE  Outcome(r) = IF op[r].len > 0 THEN "data" ELSE IF exc THEN "error" ELSE "eof"
    <3>1. op[r].len \in Nat /\ (eof <=> op[r].len = 0)
      BY <2>2 DEF EndInv, CallSound, Inv, CallInv, CallTypeOK, Op
    <3> QED
      BY <3>1 DEF Outcome
  <2> QED
    BY <2>1, <2>2 DEF EndIsSound, OutcomeSound
<1> QED
  BY <1>1, <1>2, <1>3, InvHolds, PTL DEF Spec

-----------------------------------------------------------------------------
(* The buffer implements CharStream.                                          *)

callBar == [r \in Readers |-> CallOf(op[r])]
failedBar == exc /\ ~canWrite

LEMMA CallOfFields ==
    ASSUME NEW o \in Op
    PROVE  /\ o.st \notin {"parked", "done", "tested"} /\ o.at = 0 /\ o.len = 0 =>
                CallOf(o) = Abstract!NoCall
           /\ o.st = "parked" /\ o.at = 0 /\ o.len = 0 =>
                CallOf(o) = Abstract!Waiting(Advances(o.kind), o.count)
           /\ o.st \in {"done", "tested"} => CallOf(o) = Abstract!Answered(o.at, o.len)
<1> DEFINE s == CASE o.st = "parked" -> "waiting"
                  [] o.st \in {"done", "tested"} -> "answered"
                  [] OTHER -> "none"
           b == o.st = "parked" /\ Advances(o.kind)
           n == IF o.st = "parked" THEN o.count ELSE 0
<1>1. CallOf(o) = [st |-> s, consume |-> b, count |-> n, at |-> o.at, len |-> o.len]
  BY Zenon DEF CallOf
<1>2. /\ o.st = "parked" => s = "waiting" /\ n = o.count
      /\ o.st \in {"done", "tested"} => s = "answered" /\ n = 0
      /\ o.st \notin {"parked", "done", "tested"} => s = "none" /\ n = 0
  OBVIOUS
<1>3. o.st # "parked" => b = FALSE
  BY Zenon
<1>4. o.st = "parked" => b = Advances(o.kind)
  BY DEF Advances
<1>5. o.st \in {"done", "tested"} => o.st # "parked"
  OBVIOUS
<1> HIDE DEF s, b, n
<1>6. CASE o.st \notin {"parked", "done", "tested"}
  BY <1>1, <1>2, <1>3, <1>6, Zenon DEF Abstract!NoCall
<1>7. CASE o.st = "parked"
  BY <1>1, <1>2, <1>4, <1>7, Zenon DEF Abstract!Waiting
<1>8. CASE o.st \in {"done", "tested"}
  BY <1>1, <1>2, <1>3, <1>5, <1>8, Zenon DEF Abstract!Answered
<1> QED
  BY <1>5, <1>6, <1>7, <1>8, Zenon

\* What a step has to show to be one of the abstract stream.
Silent == callBar' = callBar /\ requests' = requests
SameStream == canWrite' = canWrite /\ failedBar' = failedBar
SameHeads == totalRead' = totalRead /\ synced' = synced
Reads(n) ==
    /\ totalRead' = totalRead + n
    /\ synced' = IF synced > n THEN synced - n ELSE 0
Answers(r, consume, n) ==
    /\ totalWritten - totalRead >= n \/ synced > 0 \/ ~canWrite
    /\ IF consume THEN Reads(Abstract!Least(n, totalWritten - totalRead)) ELSE SameHeads
    /\ callBar' = [callBar EXCEPT ![r] =
                    Abstract!Answered(totalRead, Abstract!Least(n, totalWritten - totalRead))]

LEMMA AnswersIsDeliver ==
    \A r, consume, n : Answers(r, consume, n) => Abstract!Deliver(r, consume, n)
BY Zenon DEF Answers, Abstract!Deliver, Abstract!Ready, Abstract!Left, Abstract!Consume, Reads,
             SameHeads, callBar

LEMMA StreamActions ==
    /\ canWrite /\ totalWritten' \in Nat /\ totalWritten' >= totalWritten
       /\ SameHeads /\ SameStream /\ Silent => Abstract!Send
    /\ canWrite /\ synced' = totalWritten - totalRead /\ totalWritten' = totalWritten
       /\ totalRead' = totalRead /\ SameStream /\ Silent => Abstract!Flush
    /\ canWrite /\ canWrite' = FALSE /\ failedBar' \in BOOLEAN /\ totalWritten' = totalWritten
       /\ SameHeads /\ Silent => Abstract!Close
    /\ \A r, consume, n :
          callBar[r].st = "none" /\ Answers(r, consume, n) /\ requests' = requests
          /\ totalWritten' = totalWritten /\ SameStream => Abstract!Ask(r, consume, n)
    /\ \A r, consume, n :
          callBar[r].st = "none" /\ ~(totalWritten - totalRead >= n \/ synced > 0 \/ ~canWrite)
          /\ requests' = Append(requests, r)
          /\ callBar' = [callBar EXCEPT ![r] = Abstract!Waiting(consume, n)]
          /\ SameHeads /\ totalWritten' = totalWritten /\ SameStream => Abstract!Ask(r, consume, n)
    /\ requests # <<>> /\ requests' = Tail(requests)
       /\ Answers(Head(requests), callBar[Head(requests)].consume, callBar[Head(requests)].count)
       /\ totalWritten' = totalWritten /\ SameStream => Abstract!Reply
    /\ \A r : callBar[r].st = "answered"
              /\ callBar' = [callBar EXCEPT ![r] = Abstract!NoCall] /\ requests' = requests
              /\ SameHeads /\ totalWritten' = totalWritten /\ SameStream => Abstract!Finish(r)
    /\ \A n \in 0..(totalWritten - totalRead) :
          Reads(n) /\ totalWritten' = totalWritten /\ SameStream /\ Silent => Abstract!Pull
    /\ SameHeads /\ totalWritten' = totalWritten /\ SameStream /\ Silent
       => UNCHANGED Abstract!svars
<1>1. canWrite /\ totalWritten' \in Nat /\ totalWritten' >= totalWritten
      /\ SameHeads /\ SameStream /\ Silent => Abstract!Send
  BY Zenon DEF Abstract!Send, callBar, failedBar, SameHeads, SameStream, Silent
<1>2. canWrite /\ synced' = totalWritten - totalRead /\ totalWritten' = totalWritten
      /\ totalRead' = totalRead /\ SameStream /\ Silent => Abstract!Flush
  BY Zenon DEF Abstract!Flush, Abstract!Left, callBar, failedBar, SameStream, Silent
<1>3. canWrite /\ canWrite' = FALSE /\ failedBar' \in BOOLEAN /\ totalWritten' = totalWritten
      /\ SameHeads /\ Silent => Abstract!Close
  BY Zenon DEF Abstract!Close, callBar, failedBar, SameHeads, Silent
<1>4. \A r, consume, n :
          callBar[r].st = "none" /\ Answers(r, consume, n) /\ requests' = requests
          /\ totalWritten' = totalWritten /\ SameStream => Abstract!Ask(r, consume, n)
  BY AnswersIsDeliver, Zenon DEF Abstract!Ask, callBar, failedBar, SameStream
<1>5. \A r, consume, n :
          callBar[r].st = "none" /\ ~(totalWritten - totalRead >= n \/ synced > 0 \/ ~canWrite)
          /\ requests' = Append(requests, r)
          /\ callBar' = [callBar EXCEPT ![r] = Abstract!Waiting(consume, n)]
          /\ SameHeads /\ totalWritten' = totalWritten /\ SameStream => Abstract!Ask(r, consume, n)
  BY Zenon DEF Abstract!Ask, Abstract!Ready, Abstract!Left, callBar, failedBar, SameHeads, SameStream
<1>6. requests # <<>> /\ requests' = Tail(requests)
      /\ Answers(Head(requests), callBar[Head(requests)].consume, callBar[Head(requests)].count)
      /\ totalWritten' = totalWritten /\ SameStream => Abstract!Reply
  BY AnswersIsDeliver, Zenon DEF Abstract!Reply, callBar, failedBar, SameStream
<1>7. \A r : callBar[r].st = "answered"
             /\ callBar' = [callBar EXCEPT ![r] = Abstract!NoCall] /\ requests' = requests
             /\ SameHeads /\ totalWritten' = totalWritten /\ SameStream => Abstract!Finish(r)
  BY Zenon DEF Abstract!Finish, callBar, failedBar, SameHeads, SameStream
<1>8. \A n \in 0..(totalWritten - totalRead) :
          Reads(n) /\ totalWritten' = totalWritten /\ SameStream /\ Silent => Abstract!Pull
  BY Zenon DEF Abstract!Pull, Abstract!Consume, Abstract!Left, callBar, failedBar, Reads,
               SameStream, Silent
<1>9. SameHeads /\ totalWritten' = totalWritten /\ SameStream /\ Silent
      => UNCHANGED Abstract!svars
  BY Zenon DEF Abstract!svars, callBar, failedBar, SameHeads, SameStream, Silent
<1> QED
  BY <1>1, <1>2, <1>3, <1>4, <1>5, <1>6, <1>7, <1>8, <1>9

LEMMA CallBarMoves ==
    ASSUME NEW r \in Readers, NEW o, op \in [Readers -> Op], op' = [op EXCEPT ![r] = o]
    PROVE  /\ callBar[r] = CallOf(op[r])
           /\ callBar' = [callBar EXCEPT ![r] = CallOf(o)]
           /\ CallOf(o) = CallOf(op[r]) => callBar' = callBar
<1>1. /\ op'[r] = o /\ DOMAIN op' = Readers
      /\ \A q \in Readers \ {r} : op'[q] = op[q]
  OBVIOUS
<1> QED
  BY <1>1 DEF callBar

\* The blocks and the reads that run ahead of the parked ones.
LEMMA ReadStepReads ==
    ASSUME DataInv, NEW o, o.count \in Nat, ReadStep(o)
    PROVE  /\ totalWritten' = totalWritten
           /\ Smaller(o.count, total) \in 0..(totalWritten - totalRead)
           /\ IF Advances(o.kind) THEN Reads(Smaller(o.count, total)) ELSE SameHeads
<1>1. /\ total \in Nat /\ total = totalWritten - totalRead
      /\ ReadLen(o.count) = Smaller(o.count, total)
  BY ReadLenBound DEF DataInv, DataTypeOK, CountersAgree
<1>2. Smaller(o.count, total) \in 0..(totalWritten - totalRead)
  BY <1>1 DEF Smaller
<1>3. CASE Advances(o.kind)
  BY <1>1, <1>2, <1>3 DEF ReadStep, UpdateReadHead, Reads
<1>4. CASE ~Advances(o.kind)
  BY <1>2, <1>4 DEF ReadStep, data, SameHeads
<1> QED
  BY <1>3, <1>4

\* A read that can be satisfied is delivered.
LEMMA ReadIsAnswered ==
    ASSUME DataInv, op \in [Readers -> Op], NEW r \in Readers, NEW o \in Op, o.kind # "next",
           o.count >= 1, CanSatisfy(o.count), ReadStep(o), op' = [op EXCEPT ![r] = Answer(o)]
    PROVE  Answers(r, Advances(o.kind), o.count) /\ totalWritten' = totalWritten
<1>1. /\ total \in Nat /\ total = totalWritten - totalRead /\ o.count \in Nat
  BY DEF DataInv, DataTypeOK, CountersAgree, Op
<1>2. Abstract!Least(o.count, totalWritten - totalRead) = Smaller(o.count, total)
  BY <1>1 DEF Abstract!Least, Smaller
<1>3. /\ totalWritten' = totalWritten
      /\ IF Advances(o.kind) THEN Reads(Smaller(o.count, total)) ELSE SameHeads
  BY <1>1, ReadStepReads
<1>4. CallOf(Answer(o)) = Abstract!Answered(totalRead, Smaller(o.count, total))
  <2>1. /\ Answer(o) \in Op /\ Answer(o).st = "done" /\ Answer(o).at = totalRead
        /\ Answer(o).len = Smaller(o.count, total)
    BY AnswerIsExact, AnswerType
  <2> QED
    BY <2>1, CallOfFields
<1>5. callBar' = [callBar EXCEPT ![r] = CallOf(Answer(o))]
  BY CallBarMoves
<1>6. totalWritten - totalRead >= o.count \/ synced > 0 \/ ~canWrite
  BY <1>1 DEF CanSatisfy
<1> QED
  BY <1>2, <1>3, <1>4, <1>5, <1>6 DEF Answers

LEMMA StreamStep ==
    ASSUME "next" \notin AsyncReads, Inv, EndInv, [Next]_vars
    PROVE  [Abstract!Next]_(Abstract!svars)
<1>0. /\ op \in [Readers -> Op] /\ DataInv
      /\ total \in Nat /\ totalWritten \in Nat /\ total = totalWritten - totalRead
      /\ \A r \in Readers : op[r] \in Op /\ op[r].count \in Nat /\ CallSound(op[r])
  BY DEF Inv, CallInv, CallTypeOK, DataInv, DataTypeOK, CountersAgree, Op, EndInv
\* Steps that the stream does not see.
<1>1. ASSUME SameHeads, totalWritten' = totalWritten, SameStream, Silent
      PROVE  [Abstract!Next]_(Abstract!svars)
  BY <1>1, StreamActions
<1>2. ASSUME UNCHANGED data, canWrite' = canWrite, exc' = exc, requests' = requests,
             op' = op \/ \E r \in Readers : \E o \in Op :
                            op' = [op EXCEPT ![r] = o] /\ CallOf(o) = CallOf(op[r])
      PROVE  [Abstract!Next]_(Abstract!svars)
  <2>1. callBar' = callBar
    BY <1>0, <1>2, CallBarMoves DEF callBar
  <2> QED
    BY <1>1, <1>2, <2>1 DEF data, SameHeads, SameStream, Silent, failedBar
\* The producer.
<1>3. CASE PutLocked \/ \E n \in 0..MaxCount : Commit(n)
  <2>1. PICK n \in Nat : UpdateWriteHead(n)
    <3>1. CASE PutLocked
      BY <3>1 DEF PutLocked, Inv, CallInv, CallTypeOK, Writer
    <3>2. ASSUME NEW n \in 0..MaxCount, Commit(n) PROVE n \in Nat /\ UpdateWriteHead(n)
      BY <3>2, BufferAssumption DEF Commit, BufferAssumption
    <3> QED
      BY <1>3, <3>1, <3>2
  <2>2. canWrite /\ canWrite' = canWrite /\ exc' = exc /\ requests' = requests /\ op' = op
    BY <1>3 DEF PutLocked, Commit, Inv, CallInv, WriterInv, flags
  <2>3. totalWritten' \in Nat /\ totalWritten' >= totalWritten /\ SameHeads
    BY <1>0, <2>1 DEF UpdateWriteHead, SameHeads
  <2>4. SameStream /\ Silent
    BY <2>2 DEF SameStream, Silent, failedBar, callBar
  <2> QED
    BY <2>2, <2>3, <2>4, StreamActions DEF Abstract!Next
<1>4. CASE Sync
  <2>1. /\ canWrite /\ synced' = totalWritten - totalRead /\ totalWritten' = totalWritten
        /\ totalRead' = totalRead
    BY <1>0, <1>4 DEF Sync
  <2>2. SameStream /\ Silent
    BY <1>4 DEF Sync, flags, SameStream, Silent, failedBar, callBar
  <2> QED
    BY <2>1, <2>2, StreamActions DEF Abstract!Next
<1>5. CASE CloseFlag
  <2>1. canWrite /\ canWrite' = FALSE /\ exc' = exc
    BY <1>5 DEF CloseFlag, Inv, CallInv, WriterInv
  <2>2. failedBar' \in BOOLEAN
    BY DEF failedBar
  <2>3. totalWritten' = totalWritten /\ SameHeads /\ Silent
    BY <1>5 DEF CloseFlag, data, SameHeads, Silent, callBar
  <2> QED
    BY <2>1, <2>2, <2>3, StreamActions DEF Abstract!Next
<1>6. ASSUME NEW e \in BOOLEAN, CloseBegin(e) PROVE [Abstract!Next]_(Abstract!svars)
  <2>1. SameHeads /\ totalWritten' = totalWritten /\ Silent
    BY <1>6 DEF CloseBegin, data, SameHeads, Silent, callBar
  <2>2. SameStream
    BY <1>6 DEF CloseBegin, SameStream, failedBar
  <2> QED
    BY <1>1, <2>1, <2>2
<1>7. CASE Fulfil
  <2> DEFINE r == Head(requests)
             o == op[r]
  <2>1. r \in Readers /\ o.st = "parked" /\ o.count >= 1
    <3>1. requests # <<>> /\ requests \in Seq(Readers)
      BY <1>7 DEF Fulfil, Inv, CallInv, CallTypeOK
    <3>2. r \in Readers /\ r = requests[1] /\ 1 \in 1..Len(requests)
      BY <3>1, HeadTailProperties, EmptySeq
    <3> QED
      BY <3>2 DEF Inv, CallInv, QueueInv
  <2>2. /\ CanSatisfy(o.count) /\ ReadStep(o) /\ op' = [op EXCEPT ![r] = Answer(o)]
        /\ requests # <<>> /\ requests' = Tail(requests) /\ SameStream
    BY <1>7 DEF Fulfil, flags, SameStream, failedBar
  <2>3. o.kind # "next" /\ o \in Op /\ o.at = 0 /\ o.len = 0
    BY <1>0, <2>1 DEF CallSound
  <2>4. callBar[r] = Abstract!Waiting(Advances(o.kind), o.count)
    BY <2>1, <2>3, CallOfFields DEF callBar
  <2>5. callBar[r].consume = Advances(o.kind) /\ callBar[r].count = o.count
    <3>1. \A x, b, n : x = Abstract!Waiting(b, n) => x.consume = b /\ x.count = n
      BY DEF Abstract!Waiting
    <3> QED
      BY <2>4, <3>1
  <2> HIDE DEF r, o
  <2>6. Answers(r, Advances(o.kind), o.count) /\ totalWritten' = totalWritten
    BY <1>0, <2>1, <2>2, <2>3, ReadIsAnswered
  <2>7. Answers(r, callBar[r].consume, callBar[r].count)
    BY <2>5, <2>6, Zenon
  <2>8. Abstract!Reply
    BY <2>2, <2>6, <2>7, StreamActions DEF r
  <2> QED
    BY <2>8 DEF Abstract!Next
\* The consumer.
<1>8. ASSUME NEW r \in Readers, NEW kind \in AsyncReads, NEW n \in Sizes(kind),
             StartAsync(r, kind, n)
      PROVE  [Abstract!Next]_(Abstract!svars)
  <2> DEFINE o == Call("parked", kind, n)
             c == Advances(kind)
  <2>1. o \in Op /\ o.st = "parked" /\ o.kind = kind /\ o.count = n /\ o.at = 0 /\ o.len = 0
    BY SizesPositive, BufferAssumption DEF BufferAssumption, Call, Op
  <2>2. kind # "next" /\ n >= 1 /\ n \in Nat /\ n \in 1..MaxCount /\ c \in BOOLEAN
    BY SizesPositive, BufferAssumption DEF BufferAssumption, Sizes, Advances
  <2>3. /\ op[r].st = "idle" /\ SameStream
        /\ CanSatisfy(n) => ReadStep(o) /\ op' = [op EXCEPT ![r] = Answer(o)]
                            /\ requests' = requests
        /\ ~CanSatisfy(n) => op' = [op EXCEPT ![r] = o] /\ requests' = Append(requests, r)
                             /\ UNCHANGED data
    BY <1>8 DEF StartAsync, MayStart, flags, SameStream, failedBar
  <2>4. callBar[r] = Abstract!NoCall
    BY <1>0, <2>3, CallOfFields DEF callBar, CallSound
  <2>5. callBar[r].st = "none"
    BY <2>4 DEF Abstract!NoCall
  <2>6. CASE CanSatisfy(n)
    <3> HIDE DEF o
    <3>1. Answers(r, c, n) /\ totalWritten' = totalWritten
      BY <1>0, <2>1, <2>2, <2>3, <2>6, ReadIsAnswered
    <3>2. Abstract!Ask(r, c, n)
      BY <2>3, <2>5, <2>6, <3>1, StreamActions
    <3> QED
      BY <2>2, <3>2 DEF Abstract!Next
  <2>7. CASE ~CanSatisfy(n)
    <3>1. CallOf(o) = Abstract!Waiting(c, n)
      BY <2>1, CallOfFields
    <3> HIDE DEF o
    <3>2. callBar' = [callBar EXCEPT ![r] = Abstract!Waiting(c, n)]
      BY <1>0, <2>3, <2>7, <3>1, CallBarMoves
    <3>3. SameHeads /\ totalWritten' = totalWritten /\ requests' = Append(requests, r)
      BY <2>3, <2>7 DEF data, SameHeads
    <3>4. ~(totalWritten - totalRead >= n \/ synced > 0 \/ ~canWrite)
      BY <1>0, <2>7 DEF CanSatisfy
    <3>5. Abstract!Ask(r, c, n)
      BY <2>3, <2>5, <3>2, <3>3, <3>4, StreamActions
    <3> QED
      BY <2>2, <3>5 DEF Abstract!Next
  <2> QED
    BY <2>6, <2>7
<1>9. ASSUME NEW r \in Readers, NEW kind \in SyncReads, NEW n \in Sizes(kind),
             SyncCheck(r, kind, n)
      PROVE  [Abstract!Next]_(Abstract!svars)
  <2> DEFINE o == Call("checked", kind, n)
  <2>1. o \in Op /\ o.st = "checked" /\ o.at = 0 /\ o.len = 0
    BY SizesPositive, BufferAssumption DEF BufferAssumption, Call, Op
  <2>2. /\ op[r].st = "idle" /\ op' = [op EXCEPT ![r] = o]
        /\ UNCHANGED data /\ canWrite' = canWrite /\ exc' = exc /\ requests' = requests
    BY <1>9 DEF SyncCheck, MayStart, flags
  <2>3. CallOf(op[r]) = Abstract!NoCall
    BY <1>0, <2>2, CallOfFields DEF CallSound
  <2>4. CallOf(o) = Abstract!NoCall
    BY <2>1, CallOfFields
  <2> HIDE DEF o
  <2> QED
    BY <1>2, <2>1, <2>2, <2>3, <2>4
<1>10. ASSUME NEW r \in Readers, SetEof(r) PROVE [Abstract!Next]_(Abstract!svars)
  <2> DEFINE o == [op[r] EXCEPT !.st = "tested"]
  <2>1. /\ op[r].st = "done" /\ op' = [op EXCEPT ![r] = o]
        /\ UNCHANGED data /\ canWrite' = canWrite /\ exc' = exc /\ requests' = requests
    BY <1>10 DEF SetEof
  <2>2. o \in Op /\ o.st = "tested" /\ o.at = op[r].at /\ o.len = op[r].len
    BY <1>0 DEF Op
  <2> HIDE DEF o
  <2>3. CallOf(o) = CallOf(op[r])
    BY <1>0, <2>1, <2>2, CallOfFields
  <2> QED
    BY <1>2, <2>1, <2>2, <2>3
<1>11. \A st \in {"idle", "ended", "returning"} :
        Call(st, "none", 0) \in Op /\ CallOf(Call(st, "none", 0)) = Abstract!NoCall
  <2> SUFFICES ASSUME NEW st \in {"idle", "ended", "returning"}
               PROVE  Call(st, "none", 0) \in Op
                      /\ CallOf(Call(st, "none", 0)) = Abstract!NoCall
    OBVIOUS
  <2> DEFINE o == Call(st, "none", 0)
  <2>1. o \in Op /\ o.st = st /\ o.at = 0 /\ o.len = 0
    BY DEF Call, Op
  <2> HIDE DEF o
  <2>2. CallOf(o) = Abstract!NoCall
    BY <2>1, CallOfFields
  <2> QED
    BY <2>1, <2>2 DEF o
<1>12. ASSUME NEW r \in Readers, CheckEof(r) PROVE [Abstract!Next]_(Abstract!svars)
  <2>1. /\ op[r].st = "tested" /\ op' = [op EXCEPT ![r] = Idle] /\ requests' = requests
        /\ SameHeads /\ totalWritten' = totalWritten /\ SameStream
    BY <1>12 DEF CheckEof, data, flags, SameHeads, SameStream, failedBar
  <2>2. callBar[r] = Abstract!Answered(op[r].at, op[r].len)
    BY <1>0, <2>1, CallOfFields DEF callBar
  <2>3. callBar[r].st = "answered"
    BY <2>2 DEF Abstract!Answered
  <2>4. callBar' = [callBar EXCEPT ![r] = Abstract!NoCall]
    BY <1>0, <1>11, <2>1, CallBarMoves DEF Idle
  <2>5. Abstract!Finish(r)
    BY <2>1, <2>3, <2>4, StreamActions
  <2> QED
    BY <2>5 DEF Abstract!Next
<1>13. ASSUME NEW r \in Readers, SyncReturn(r) PROVE [Abstract!Next]_(Abstract!svars)
  <2>1. /\ op[r].st \in {"ended", "returning"} /\ op' = [op EXCEPT ![r] = Idle]
        /\ UNCHANGED data /\ canWrite' = canWrite /\ exc' = exc /\ requests' = requests
    BY <1>13 DEF SyncReturn
  <2>2. CallOf(op[r]) = Abstract!NoCall
    BY <1>0, <2>1, CallOfFields DEF CallSound
  <2>3. Idle \in Op /\ CallOf(Idle) = Abstract!NoCall
    BY <1>11 DEF Idle
  <2> QED
    BY <1>2, <2>1, <2>2, <2>3
<1>14. ASSUME NEW r \in Readers, SyncRead(r) PROVE [Abstract!Next]_(Abstract!svars)
  <2>1. /\ op[r].st = "checked" /\ requests' = requests /\ SameStream
        /\ ReadStep(op[r]) \/ UNCHANGED data
    BY <1>14 DEF SyncRead, flags, SameStream, failedBar
  <2>2. PICK st \in {"idle", "ended", "returning"} : op' = [op EXCEPT ![r] = Call(st, "none", 0)]
    BY <1>14 DEF SyncRead, Idle
  <2>3. CallOf(op[r]) = Abstract!NoCall
    BY <1>0, <2>1, CallOfFields DEF CallSound
  <2>4. Silent
    BY <1>0, <1>11, <2>1, <2>2, <2>3, CallBarMoves DEF Silent
  <2>5. CASE UNCHANGED data
    BY <1>1, <2>1, <2>4, <2>5 DEF data, SameHeads
  <2>6. CASE ReadStep(op[r])
    <3> DEFINE n == Smaller(op[r].count, total)
    <3>1. /\ totalWritten' = totalWritten /\ n \in 0..(totalWritten - totalRead)
          /\ Reads(n) \/ SameHeads
      BY <1>0, <2>6, ReadStepReads
    <3> HIDE DEF n
    <3>2. CASE SameHeads
      BY <1>1, <2>1, <2>4, <3>1, <3>2
    <3>3. CASE Reads(n)
      <4>1. Abstract!Pull
        BY <2>1, <2>4, <3>1, <3>3, StreamActions
      <4> QED
        BY <4>1 DEF Abstract!Next
    <3> QED
      BY <3>1, <3>2, <3>3
  <2> QED
    BY <2>1, <2>5, <2>6
<1>15. ASSUME NEW n \in 0..MaxCount, Release(n) PROVE [Abstract!Next]_(Abstract!svars)
  <2>1. n \in 0..total /\ UpdateReadHead(n)
    BY <1>0, <1>15, HeldIsAvailable, BufferAssumption DEF Release, BufferAssumption
  <2>2. Reads(n) /\ totalWritten' = totalWritten /\ n \in 0..(totalWritten - totalRead)
    BY <1>0, <2>1 DEF UpdateReadHead, Reads
  <2>3. SameStream /\ Silent
    BY <1>15 DEF Release, flags, SameStream, Silent, failedBar, callBar
  <2>4. Abstract!Pull
    BY <2>2, <2>3, StreamActions
  <2> QED
    BY <2>4 DEF Abstract!Next
<1>16. CASE \/ \E n \in 1..MaxCount : PutBegin(n) \/ Alloc(n)
            \/ FulfilEnd \/ PutEnd \/ CloseLocked \/ Acquire \/ CloseRead \/ UNCHANGED vars
  <2>1. UNCHANGED data /\ canWrite' = canWrite /\ exc' = exc /\ requests' = requests /\ op' = op
    BY <1>16 DEF PutBegin, Alloc, FulfilEnd, PutEnd, CloseLocked, Acquire, CloseRead, vars, flags
  <2> QED
    BY <1>2, <2>1
<1> QED
  BY <1>3, <1>4, <1>5, <1>6, <1>7, <1>8, <1>9, <1>10, <1>12, <1>13, <1>14, <1>15, <1>16
     DEF Next, Producer, Consumer, Continuation

\* Without nextc, the buffer is the character stream it promises to be: whatever
\* the blocks and the interleaving, every character is delivered once and in
\* order, the parked reads are answered oldest first, and a read returns fewer
\* characters than it asked for only after a flush or a close.
THEOREM BufferImplementsStream ==
    ASSUME "next" \notin AsyncReads
    PROVE  Spec => ImplementsCharStream
<1>1. Init => EndInv /\ Abstract!Init
  <2> SUFFICES ASSUME Init PROVE EndInv /\ Abstract!Init
    OBVIOUS
  <2>1. EndInv
    BY DEF Init, EndInv, CallSound, OneCall, Idle, Call
  <2>2. Idle \in Op /\ Idle.st = "idle" /\ Idle.at = 0 /\ Idle.len = 0
    BY DEF Idle, Call, Op
  <2>3. CallOf(Idle) = Abstract!NoCall
    BY <2>2, CallOfFields
  <2>4. callBar = [r \in Readers |-> Abstract!NoCall]
    BY <2>3 DEF Init, callBar
  <2>5. failedBar = FALSE
    BY Zenon DEF Init, failedBar
  <2>6. /\ totalWritten = 0 /\ totalRead = 0 /\ synced = 0 /\ canWrite = TRUE /\ requests = <<>>
    BY DEF Init
  <2>7. Abstract!Init
    BY <2>4, <2>5, <2>6, Zenon DEF Abstract!Init, callBar, failedBar
  <2> QED
    BY <2>1, <2>7
<1>2. Inv /\ EndInv /\ [Next]_vars => EndInv' /\ [Abstract!Next]_(Abstract!svars)
  BY EndInvStep, StreamStep
<1> QED
  BY <1>1, <1>2, InvHolds, PTL DEF Spec, ImplementsCharStream, Abstract!Spec
=============================================================================
