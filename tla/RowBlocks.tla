------------------------------ MODULE RowBlocks ------------------------------
(***************************************************************************)
(* A block of consecutive rows of one loop iteration (RowBlock,            *)
(* core/vectorizer.h): block idx of the blocks of one width, counted from  *)
(* the first row of the iteration.  Cutting, enclosing and copying blocks  *)
(* is how the vectorizer and the lowering to MIR say which rows a vector   *)
(* node works on.                                                          *)
(***************************************************************************)
EXTENDS Integers

RowBlock == [width : Nat \ {0}, idx : Nat]

row_offset(b) == b.width * b.idx

RowsOf(b) == row_offset(b) .. row_offset(b) + b.width - 1

nth_slice(b, n, count) == [width |-> b.width \div count, idx |-> b.idx * count + n]

lhs_half(b) == nth_slice(b, 0, 2)

\* Mutant: both halves are the low one.
MutLowHalfTwice(b) == nth_slice(b, 0, 2)

rhs_half(b) == nth_slice(b, 1, 2)

containing_block(b, width) == [width |-> width, idx |-> b.idx \div (width \div b.width)]

index_in_containing_block(b, width) == b.idx % (width \div b.width)

\* Mutant: copies follow each other as if the root had one block only.
MutAdjacentCopies(b, n, copy_width) == [b EXCEPT !.idx = @ + n]

nth_copy(b, n, copy_width) == [b EXCEPT !.idx = @ + n * (copy_width \div b.width)]
=============================================================================
