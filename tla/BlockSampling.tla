---------------------------- MODULE BlockSampling ----------------------------
(***************************************************************************)
(* Block sampling: of every Frequency consecutive blocks of a grid one is  *)
(* traced, the one at a random offset.  The launch callback draws the      *)
(* offset, the device filters its blocks by it, and the synchronisation at *)
(* the end of the launch computes how many threads will never report.      *)
(***************************************************************************)
EXTENDS Widths, FiniteSets

\* Mutant: the offset is drawn among the blocks of the grid.
OffsetsInGrid(grid, frequency) == 0..(grid - 1)

\* rand() % grid_dim % block_sampling_frequency, whatever rand() returns.
Offsets(grid, frequency) == {r % frequency : r \in 0..(grid - 1)}

\* The blocks the instrumented kernel traces; none when it is not sampled.
TracedBlocks(grid, frequency, offset) ==
  {b \in 0..(grid - 1) : frequency # 0 /\ b % frequency = offset}

\* Mutant: a block at the offset that the last, short run just misses counts.
SamplingBlocksLate(grid, frequency, offset) ==
  LET modBlocks == grid % frequency
  IN  IF modBlocks = 0
        THEN (grid - 1) \div frequency + 1
        ELSE (grid - 1) \div frequency + (IF offset > modBlocks THEN 0 ELSE 1)

\* Mutant: the last block of a short run does not count.
SamplingBlocksEarly(grid, frequency, offset) ==
  LET modBlocks == grid % frequency
  IN  IF modBlocks = 0
        THEN (grid - 1) \div frequency + 1
        ELSE (grid - 1) \div frequency + (IF offset + 1 >= modBlocks THEN 0 ELSE 1)

\* sampling_blocks of sanitizer_kernel_launch_sync, for a grid that an int holds.
SamplingBlocks(grid, frequency, offset) ==
  LET modBlocks == grid % frequency
  IN  IF modBlocks = 0
        THEN (grid - 1) \div frequency + 1
        ELSE (grid - 1) \div frequency + (IF offset >= modBlocks THEN 0 ELSE 1)

\* num_left_threads, what num_threads counts down to: the products are ints, and
\* their difference a size_t.
LeftThreads(grid, block, frequency, offset) ==
  Size(SInt(grid * block) - SInt(SamplingBlocks(grid, frequency, offset) * block))

==============================================================================
