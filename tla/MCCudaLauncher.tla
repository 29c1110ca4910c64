--------------------------- MODULE MCCudaLauncher ---------------------------
(***************************************************************************)
(* Cairo on files of up to three functions of two kernel names and one     *)
(* device name, and on sizes around what an unsigned (below 4 here) and a *)
(* vector can hold.                                                        *)
(***************************************************************************)
EXTENDS CudaLauncher

Pointer(i) == [op |-> "pointer", index |-> i]
CallOf(f, n) == [op |-> "call", callee |-> f, passed |-> n]
Misuse == [op |-> "misuse"]

McKernelNames == {"kernel_a", "kernel_b"}
McFunctions ==
  [name : {"kernel_a"}, params : 0 .. 2, body : {{}, {Pointer(0), Pointer(1)}, {CallOf("f", 1)}}]
  \union [name : {"kernel_b"}, params : {1}, body : {{Pointer(0)}, {CallOf("kernel_a", 0)}}]
  \union [name : {"f"}, params : {0, 1}, body : {{}, {Pointer(0)}, {CallOf("f", 1)}, {Misuse}}]

McSizes == {1, 3, 4, 5, 7, 8, 127}
=============================================================================
