---------------------------- MODULE CudaLauncher ----------------------------
(***************************************************************************)
(* cairo --run (main, CUDALauncher): the kernel chosen before code was     *)
(* generated is launched with one buffer per argument and one thread per   *)
(* element.  The CUDA driver is external: every call may fail, and then    *)
(* runKernel returns from where it is, with the buffers it has; only the   *)
(* destructor is sure to come.  Without CUDA support the launcher is one   *)
(* that never gets a context.                                              *)
(*                                                                         *)
(* A buffer holds "garbage", "input" or "result", the vector on the host   *)
(* "input" or "result".  The number of elements is a std::size_t, which is *)
(* passed on as an unsigned; both wrap around at their range.              *)
(***************************************************************************)
EXTENDS CairoCompiler

CONSTANTS
  UnsignedRange, SizeRange,  (* 2^32 and 2^64                              *)
  ElementBytes,              (* sizeof(double): 8                          *)
  Sizes                      (* values of --run-size                       *)

ASSUME LauncherAssumption ==
  /\ UnsignedRange \in Nat \ {0} /\ SizeRange \in Nat \ {0, 1} /\ ElementBytes \in Nat \ {0}
  /\ Sizes \subseteq 1 .. SizeRange - 1

VARIABLES
  elementCount,
  context, cuModule,  (* "none", "live", "gone"; a context that could not  *)
                      (* be destroyed is "kept"                            *)
  arg,                (* the argument a loop of runKernel is at            *)
  host, device,       (* per argument: contents; "none", "gone"            *)
  bytes, grid,        (* what cuMemAlloc and cuLaunchKernel were told      *)
  ok

driverVars == <<elementCount, context, cuModule, arg, host, device, bytes, grid, ok>>
vars == <<compilerVars, driverVars>>

CompilerSame == UNCHANGED <<files, kernel, done, kernelParams>>
Arguments == 1 .. kernel.argCount
Live == {a \in DOMAIN device : device[a] \notin {"none", "gone"}}

(* runKernel or loadPTX returns false, or true: the destructor is next.    *)
Return(result) == ok' = result /\ GoTo("destroy") /\ CompilerSame
LeaveBuffers == UNCHANGED <<arg, host, device, bytes, grid>>

(* Mutant of More: one argument too many.                                  *)
MoreOrSame == arg <= kernel.argCount
More == arg < kernel.argCount
NextArg(loop, after) == IF More THEN arg' = arg + 1 /\ GoTo(loop) ELSE arg' = 1 /\ GoTo(after)

-----------------------------------------------------------------------------
Construct ==
  /\ At("launcher")
  /\ context' \in {"none", "live"}
  /\ GoTo("loadPTX")
  /\ CompilerSame /\ LeaveBuffers /\ UNCHANGED <<elementCount, cuModule, ok>>

LoadPTX ==
  /\ At("loadPTX")
  /\ \/ Return(FALSE) /\ UNCHANGED cuModule
     \/ context = "live" /\ cuModule' = "live" /\ GoTo("getFunction") /\ CompilerSame /\ UNCHANGED ok
  /\ LeaveBuffers /\ UNCHANGED <<elementCount, context>>

Entries == {k \in Kernels : program[k].name = kernel.name}

GetFunction ==
  /\ At("getFunction")
  /\ \/ Return(FALSE) /\ LeaveBuffers
     \/ /\ Entries # {}
        /\ host' = [a \in Arguments |-> "none"]
        /\ device' = [a \in Arguments |-> "none"]
        /\ arg' = 1
        /\ GoTo(IF kernel.argCount = 0 THEN "launch" ELSE "alloc")
        /\ CompilerSame /\ UNCHANGED <<bytes, grid, ok>>
  /\ UNCHANGED <<elementCount, context, cuModule>>

(* resize throws when memory runs out or the size is above max_size(),     *)
(* which nothing catches.                                                  *)
MaxSize == (SizeRange \div 2 - 1) \div ElementBytes

HostRunsOut ==
  /\ At("alloc")
  /\ outcome' = "aborted"
  /\ UNCHANGED <<pc, driverVars>> /\ CompilerSame

Alloc ==
  /\ At("alloc") /\ elementCount <= MaxSize
  /\ host' = [host EXCEPT ![arg] = "input"]
  /\ bytes' = (elementCount * ElementBytes) % SizeRange
  /\ \/ Return(FALSE) /\ UNCHANGED device
     \/ device' = [device EXCEPT ![arg] = "garbage"] /\ GoTo("copyIn") /\ CompilerSame /\ UNCHANGED ok
  /\ UNCHANGED <<elementCount, context, cuModule, arg, grid>>

CopyIn ==
  /\ At("copyIn")
  /\ \/ Return(FALSE) /\ UNCHANGED <<device, arg>>
     \/ device' = [device EXCEPT ![arg] = "input"] /\ NextArg("alloc", "launch") /\ CompilerSame /\ UNCHANGED ok
  /\ UNCHANGED <<elementCount, context, cuModule, host, bytes, grid>>

(* A grid of no blocks is refused.                                         *)
Launch ==
  /\ At("launch")
  /\ grid' = elementCount % UnsignedRange
  /\ \/ ok' = FALSE /\ GoTo("free")
     \/ grid' > 0 /\ ok' = TRUE /\ GoTo("synchronize")
  /\ CompilerSame /\ UNCHANGED <<elementCount, context, cuModule, arg, host, device, bytes>>

Synchronize ==
  /\ At("synchronize")
  /\ \/ ok' = FALSE /\ GoTo("free") /\ UNCHANGED device
     \/ /\ device' = [a \in Arguments |-> "result"]
        /\ GoTo(IF kernel.argCount = 0 THEN "free" ELSE "copyOut")
        /\ UNCHANGED ok
  /\ CompilerSame /\ UNCHANGED <<elementCount, context, cuModule, arg, host, bytes, grid>>

(* Mutant of StillOk: the last copy decides.                               *)
StillOkLast(copied) == copied
StillOk(copied) == copied /\ ok

(* The loop goes on behind a failure.                                      *)
CopyOut ==
  /\ At("copyOut")
  /\ \E copied \in BOOLEAN :
       /\ host' = IF copied THEN [host EXCEPT ![arg] = device[arg]] ELSE host
       /\ ok' = StillOk(copied)
  /\ NextArg("copyOut", "free")
  /\ CompilerSame /\ UNCHANGED <<elementCount, context, cuModule, device, bytes, grid>>

(* cuMemFree may fail as well, unnoticed.                                  *)
Free ==
  /\ At("free")
  /\ \E freed \in SUBSET Live : device' = [a \in DOMAIN device |-> IF a \in freed THEN "gone" ELSE device[a]]
  /\ IF ok THEN GoTo("print") ELSE GoTo("destroy")
  /\ CompilerSame /\ UNCHANGED <<elementCount, context, cuModule, arg, host, bytes, grid, ok>>

(* What is printed is the buffer argCount - 1, an unsigned: with no        *)
(* arguments it is read far outside of host.                               *)
PrintResult ==
  /\ At("print")
  /\ IF kernel.argCount = 0 THEN outcome' = "undefined" /\ UNCHANGED pc ELSE GoTo("destroy")
  /\ CompilerSame /\ UNCHANGED driverVars

(* Mutant of Destroyed: the context is left alone.                         *)
DestroyedNever(destroyed) == context
Destroyed(destroyed) ==
  IF context = "live" THEN (IF destroyed THEN "gone" ELSE "kept") ELSE context

(* The destructor: a context takes its buffers and modules with it.  That  *)
(* cuModuleUnload or cuCtxDestroy fails goes unnoticed.                    *)
Destroy ==
  /\ At("destroy")
  /\ \E unloaded, destroyed \in BOOLEAN :
       /\ context' = Destroyed(destroyed)
       /\ cuModule' = IF cuModule = "live" /\ (unloaded \/ context' = "gone") THEN "gone" ELSE cuModule
  /\ device' = IF context' = "gone" THEN [a \in DOMAIN device |-> IF a \in Live THEN "gone" ELSE device[a]]
               ELSE device
  /\ outcome' = IF ok THEN "success" ELSE "error"
  /\ UNCHANGED pc
  /\ CompilerSame /\ UNCHANGED <<elementCount, arg, host, bytes, grid, ok>>

-----------------------------------------------------------------------------
Compile == CompilerNext /\ UNCHANGED driverVars

Init ==
  /\ CompilerInit
  /\ elementCount \in Sizes
  /\ context = "none" /\ cuModule = "none"
  /\ arg = 1
  /\ host = <<>> /\ device = <<>>
  /\ bytes = 0 /\ grid = 0
  /\ ok = TRUE

Next ==
  \/ Compile \/ Construct \/ LoadPTX \/ GetFunction
  \/ HostRunsOut \/ Alloc \/ CopyIn \/ Launch \/ Synchronize
  \/ CopyOut \/ Free \/ PrintResult \/ Destroy

Spec == Init /\ [][Next]_vars

-----------------------------------------------------------------------------
Places == {"select", "generate", "launcher", "loadPTX", "getFunction", "alloc", "copyIn",
           "launch", "synchronize", "copyOut", "free", "print", "destroy"}

TypeOK ==
  /\ pc \in Places
  /\ outcome \in {"running", "error", "printed", "success", "undefined", "aborted"}
  /\ done \in 0 .. Len(program)
  /\ kernel.argCount \in Nat
  /\ pc \notin {"select", "generate"} => Kernels # {}
  /\ context \in {"none", "live", "gone", "kept"} /\ cuModule \in {"none", "live", "gone"}
  /\ pc \in {"alloc", "copyIn", "copyOut"} => arg \in Arguments
  /\ pc \in {"alloc", "copyIn", "launch", "synchronize", "copyOut", "free", "print"} =>
       /\ host \in [Arguments -> {"none", "input", "result"}]
       /\ device \in [Arguments -> {"none", "garbage", "input", "result", "gone"}]
  /\ ok \in BOOLEAN

(* main, runKernel: what is launched is the first kernel of the file, with *)
(* as many pointers as it has parameters, although it was chosen before    *)
(* code was generated and is found by name; every index its body uses has  *)
(* a buffer, all of them of elementCount elements and filled; and there    *)
(* are as many threads as elements ("exactly one thread per element"), at  *)
(* most, and fewer only where the count does not fit an unsigned.          *)
LaunchMatchesKernel ==
  pc \in {"synchronize", "copyOut"} =>
    LET k == First(Entries)
    IN  /\ k = First(Kernels) /\ program[k].params = kernel.argCount
        /\ \A op \in program[k].body : op.op = "pointer" => op.index + 1 \in Live
        /\ Live = Arguments
        /\ \A a \in Live : device[a] = IF pc = "synchronize" THEN "input" ELSE "result"
        /\ Live # {} => bytes = elementCount * ElementBytes
        /\ grid \in 1 .. elementCount
        /\ elementCount < UnsignedRange => grid = elementCount

(* CUDALauncher: buffers and modules do not outlive their context, and     *)
(* whatever fails where, nothing is left on the device when main returns,  *)
(* unless cuCtxDestroy itself fails.                                       *)
DeviceMemoryIsOwned ==
  /\ Live # {} => context = "kept" \/ (context = "live" /\ cuModule = "live")
  /\ cuModule = "live" => context \in {"live", "kept"}
  /\ outcome \in {"success", "error", "printed"} =>
       context # "live" /\ (context # "kept" => Live = {} /\ cuModule # "live")

(* runKernel: success is only reported after a launch all of whose buffers *)
(* came back, the one that is printed among them; a kernel without         *)
(* parameters is the only one whose report is undefined.                   *)
ReportsWhatRan ==
  /\ outcome = "success" \/ (pc = "print" /\ ok) =>
       grid > 0 /\ \A a \in DOMAIN host : host[a] = "result"
  /\ outcome = "success" => kernel.argCount \in DOMAIN host
  /\ outcome = "undefined" => kernel.argCount = 0
=============================================================================
