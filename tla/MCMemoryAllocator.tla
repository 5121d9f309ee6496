-------------------------- MODULE MCMemoryAllocator --------------------------
(***************************************************************************)
(* Instances of MemoryAllocator for TLC.  256 stands for 2^32.             *)
(***************************************************************************)
EXTENDS MemoryAllocator

(* Five headers, the root's included: chains and trees of owners up to    *)
(* four deep, with ends between two paragraphs.                            *)
MCLengths  == {0, 8}
MCPointers == {16 * i : i \in 2 .. 6}

(* 255 is -1, with which programs ask for all there is; 240 is -16, the    *)
(* least length that the size of a header makes wrap.                      *)
WrappingLengths == {0, 24, 240, 255}
==============================================================================
