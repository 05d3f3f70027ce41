----------------------------- MODULE MCSession ------------------------------
(***************************************************************************)
(* Session for TLC, with the sizes of the code: a frame holds 1 MiB and    *)
(* encryption adds 28 bytes.  The sizes are a pump's chunk, the largest    *)
(* that fits a frame, the smallest that does not, the largest Encrypt      *)
(* takes, and the smallest it refuses.                                     *)
(***************************************************************************)
EXTENDS Session

FrameLimit    == 1048576
SealOverhead  == 12 + 16
BoundarySizes == {32768, FrameLimit - SealOverhead, FrameLimit - SealOverhead + 1,
                  FrameLimit, FrameLimit + 1}
MostlyLeft    == [e \in Ends |-> IF e = "left" THEN 3 ELSE 1]

=============================================================================
