------------------------------- MODULE MCAHCI -------------------------------
(***************************************************************************)
(* Two drives of blocks of two bytes: one of three blocks with a partition *)
(* on the last two, and one of a single block.                             *)
(***************************************************************************)
EXTENDS AHCI

CONSTANTS whole, part, other

MCDiskPort    == [d \in Disk |-> IF d = other THEN 1 ELSE 0]
MCBlockOffset == [d \in Disk |-> IF d = part THEN 1 ELSE 0]
MCBlocks      == [d \in Disk |-> IF d = whole THEN 3 ELSE IF d = part THEN 2 ELSE 1]
MCBlockSize   == [p \in Port |-> 2]

Call(d, w, o, n) ==
  [disk |-> d, write |-> w, offset |-> o, length |-> n, aligned |-> TRUE, pinned |-> TRUE]

\* The first packet keeps the first drive busy for two blocks, the second and
\* the third wait for it, on either side of one another, go to the second
\* drive or are refused.
MCCalls == [r \in Packet |->
  CASE r = 1 -> {Call(part, TRUE, 0, 6)}
    [] r = 2 -> {Call(whole, FALSE, 0, 2), Call(whole, FALSE, 4, 2), Call(part, TRUE, 4, 2),
                 Call(part, FALSE, 6, 2)}
    [] r = 3 -> {Call(whole, FALSE, 2, 4), Call(other, TRUE, 0, 2),
                 [Call(whole, TRUE, 2, 2) EXCEPT !.pinned = FALSE],
                 Call(whole, TRUE, 1, 2)}]
=============================================================================
