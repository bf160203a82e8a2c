---------------------- MODULE MCProducerConsumerBuffer ----------------------
(* Model checking of ProducerConsumerBuffer, with the loops of read() and     *)
(* update_read_head() written out as the code has them, for comparison with   *)
(* the closed forms the specification uses.                                   *)
EXTENDS ProducerConsumerBuffer

\* Characters that the loop of read() copies from the blocks of bs.
RECURSIVE LoopCopied(_, _)
LoopCopied(bs, count) ==
    IF bs = <<>> \/ count = 0 THEN 0
    ELSE LET fromBlock == Smaller(Head(bs).wr - Head(bs).rd, count)
         IN  fromBlock + LoopCopied(Tail(bs), count - fromBlock)

\* The blocks after that loop, each advanced by what was copied from it.
RECURSIVE LoopAdvanced(_, _)
LoopAdvanced(bs, count) ==
    IF bs = <<>> \/ count = 0 THEN bs
    ELSE LET fromBlock == Smaller(Head(bs).wr - Head(bs).rd, count)
         IN  <<[Head(bs) EXCEPT !.rd = @ + fromBlock]>>
             \o LoopAdvanced(Tail(bs), count - fromBlock)

\* The loop of update_read_head().
RECURSIVE LoopPurged(_)
LoopPurged(bs) ==
    IF bs = <<>> \/ Head(bs).wr - Head(bs).rd > 0 THEN bs ELSE LoopPurged(Tail(bs))

\* The block loops of the code copy and leave what the closed forms say, in
\* every queue of blocks that occurs and for every count.
LoopsAgree ==
    \A n \in 0..MaxWritten :
        /\ LoopCopied(blocks, n) = ReadLen(n)
        /\ n <= Readable =>
            \A k \in 1..(Len(blocks) + 1) :
                FirstKept(k, totalRead + n) =>
                    BlocksFrom(k, totalRead + n) = LoopPurged(LoopAdvanced(blocks, n))
=============================================================================
