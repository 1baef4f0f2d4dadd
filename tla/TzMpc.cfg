\* A range that shares a word of the table with other blocks.
CONSTANTS
  BlockSize = 2
  Width = 4
  Words = 2
SPECIFICATION Spec
INVARIANT OnlyTheRange
