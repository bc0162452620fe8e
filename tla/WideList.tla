------------------------------- MODULE WideList -------------------------------
(***************************************************************************)
(* The list in which pass 0 records the file offsets of wide instructions, *)
(* and from which the later passes read them back.  It is a chain of       *)
(* blocks, here a sequence, of which only the last is not full; pointers   *)
(* into it are positions: a block and an index in that block.              *)
(***************************************************************************)
EXTENDS Integers, Sequences

CONSTANT BlockSize     \* entries of instrs[] in one block, 128 in the code

ASSUME BlockAssumption == BlockSize \in Nat \ {0}

Blocks == Seq(Seq(Int))
Position == [block : Nat, index : Nat]
At(b, i) == [block |-> b, index |-> i]
NoPosition == At(0, 0)     \* NULL

Offset(blocks, at) == blocks[at.block][at.index]

\* wide_instr_add_at, in a list that is not empty.
AddAt(blocks) == At(Len(blocks), Len(blocks[Len(blocks)]) + 1)

BlockIsFull(blocks) == blocks = <<>> \/ AddAt(blocks).index = BlockSize + 1

AddEntry(blocks, fpos) ==
    IF BlockIsFull(blocks)
    THEN Append(blocks, <<fpos>>)
    ELSE [blocks EXCEPT ![Len(blocks)] = Append(@, fpos)]

\* Faulty variant: the end of a block is taken for the end of the list.
BehindInSameBlock(blocks, at) ==
    IF at = NoPosition THEN At(1, 1)
    ELSE IF at.index = BlockSize THEN AddAt(blocks)
    ELSE At(at.block, at.index + 1)

\* The position behind at, or wide_instr_add_at at the end of the list.
Behind(blocks, at) ==
    LET next == At(at.block, at.index + 1)
    IN  IF at = NoPosition THEN At(1, 1)
        ELSE IF next # AddAt(blocks) /\ next.index = BlockSize + 1
        THEN At(at.block + 1, 1)
        ELSE next

\* is_wide_instr_in_pass_2(): its answer, where it leaves wide_instr_read_at, and
\* whether it prints "oops: bad instr order".  Offsets are read back in the order
\* recorded: only the one at `at', read last, and the one behind it are compared.
Query(blocks, at, fpos) ==
    LET again == at # NoPosition /\ fpos = Offset(blocks, at)
        before == at # NoPosition /\ fpos < Offset(blocks, at)
        behind == Behind(blocks, at)
        more == ~again /\ ~before /\ blocks # <<>> /\ behind # AddAt(blocks)
        reached == more /\ fpos = Offset(blocks, behind)
        missed == more /\ fpos > Offset(blocks, behind)
    IN  [wide |-> again \/ reached,
         read_at |-> IF reached THEN behind ELSE at,
         bad_order |-> before \/ missed]

=============================================================================
