------------------------- MODULE CudaLauncherProofs -------------------------
(***************************************************************************)
(* Proofs about CudaLauncher, for any program, any width of the integers   *)
(* and any driver: what is compiled, what is launched, what is left on the *)
(* device and what is reported.                                            *)
(***************************************************************************)
EXTENDS CudaLauncher, Minima, SequenceTheorems, TLAPS

-----------------------------------------------------------------------------
(* Numbers.                                                                *)

(* First(S) is the least element of S, and the only one.                   *)
LEMMA FirstIsLeast ==
  ASSUME NEW S, S \subseteq Nat, S # {}
  PROVE  First(S) \in S /\ \A j \in S : First(S) <= j
BY LeastExists DEF First

LEMMA FirstIsUnique ==
  ASSUME NEW S, S \subseteq Nat, NEW m \in S, \A j \in S : m <= j
  PROVE  First(S) = m
<1>1. First(S) \in S /\ First(S) <= m
  BY FirstIsLeast
<1>2. m <= First(S)
  BY <1>1
<1>3. m \in Nat /\ First(S) \in Nat
  BY <1>1
<1> QED BY <1>1, <1>2, <1>3

(* Below a range, wrapping around changes nothing; above it, it only makes *)
(* a number smaller.                                                       *)
LEMMA Wraps ==
  ASSUME NEW n \in Nat, NEW r \in Nat \ {0}
  PROVE  n % r \in Nat /\ n % r <= n /\ (n < r => n % r = n)
OBVIOUS

LEMMA Fits ==
  ASSUME NEW n \in Nat, NEW d \in Nat \ {0}, NEW q \in Nat, q <= n \div d
  PROVE  q * d <= n
OBVIOUS

-----------------------------------------------------------------------------
(* The inductive invariant.                                                *)

Selected ==
  IF Kernels = {} THEN NoKernel
  ELSE [name |-> program[First(Kernels)].name, argCount |-> program[First(Kernels)].params]

Early == {"select", "generate"}

ProgramOK ==
  /\ program \in Seq(Functions)
  /\ elementCount \in Sizes
  /\ done \in 0 .. Len(program)

KernelOK ==
  /\ kernel.argCount \in Nat
  /\ pc # "select" => kernel = Selected
  /\ pc = "generate" /\ runOnGPU /\ outcome = "running" => Kernels # {}
  /\ pc \notin Early => Kernels # {} /\ done = Len(program)

(* The pointers are those of a kernel that has been generated.             *)
IsTable(table, k) == table = <<>> \/ \E j \in 1 .. k : IsKernel(j) /\ table = Pointers(j)

TableOK == pc \in Early /\ outcome = "running" => IsTable(kernelParams, done)

PlaceOK ==
  /\ pc \in Places
  /\ outcome \in {"running", "error", "printed", "success", "undefined", "aborted"}
  /\ ok \in BOOLEAN
  /\ context \in {"none", "live", "gone", "kept"} /\ cuModule \in {"none", "live", "gone"}

(* Before there are buffers.                                               *)
BeforeOK ==
  /\ pc \in {"select", "generate", "launcher", "loadPTX", "getFunction"} => device = <<>>
  /\ pc \in {"select", "generate", "launcher", "loadPTX"} => cuModule = "none"
  /\ pc \in {"select", "generate", "launcher"} => context = "none"
  /\ pc = "loadPTX" => context \in {"none", "live"}

Loops == {"alloc", "copyIn", "copyOut"}
InRunKernel == Loops \union {"launch", "synchronize", "free", "print"}

ContextOK ==
  /\ pc \in InRunKernel \union {"getFunction"} => context = "live" /\ cuModule = "live"
  /\ pc \in InRunKernel =>
       /\ host \in [Arguments -> {"none", "input", "result"}]
       /\ device \in [Arguments -> {"none", "garbage", "input", "result", "gone"}]
  /\ pc \in Loops => arg \in Arguments
  /\ pc \in {"launch", "synchronize"} => arg = 1

(* What the buffers hold.                                                  *)
DeviceOK ==
  /\ pc \in {"alloc", "copyIn"} => \A a \in Arguments : a < arg => device[a] = "input"
  /\ pc = "copyIn" => device[arg] = "garbage"
  /\ pc \in {"launch", "synchronize"} => \A a \in Arguments : device[a] = "input"
  /\ pc = "copyOut" => \A a \in Arguments : device[a] = "result"

HostOK ==
  /\ pc = "copyOut" /\ ok => \A a \in Arguments : a < arg => host[a] = "result"
  /\ pc \in {"free", "print", "destroy"} /\ ok => \A a \in DOMAIN host : host[a] = "result"
  /\ pc = "destroy" /\ ok => kernel.argCount \in DOMAIN host

SizesOK ==
  /\ pc = "alloc" => arg = 1 \/ bytes = elementCount * ElementBytes
  /\ pc = "copyIn" => bytes = elementCount * ElementBytes
  /\ pc \in {"launch", "synchronize", "copyOut"} =>
       kernel.argCount = 0 \/ bytes = elementCount * ElementBytes
  /\ pc \in {"synchronize", "copyOut"} =>
       grid \in 1 .. elementCount /\ (elementCount < UnsignedRange => grid = elementCount)
  /\ pc \in {"free", "print", "destroy"} /\ ok => grid > 0

EndOK ==
  /\ outcome \in {"error", "printed"} => pc \in Early \union {"destroy"}
  /\ outcome = "success" => pc = "destroy" /\ ok
  /\ pc = "destroy" /\ outcome = "running" => context \in {"none", "live"}
  /\ outcome = "undefined" => kernel.argCount = 0

IInv ==
  /\ ProgramOK /\ KernelOK /\ TableOK /\ CompilesClosedPrograms
  /\ PlaceOK /\ BeforeOK /\ ContextOK /\ DeviceOK /\ HostOK /\ SizesOK /\ EndOK
  /\ DeviceMemoryIsOwned

-----------------------------------------------------------------------------
(* Compilation: under these hypotheses a function is generated and         *)
(* verified exactly if it is closed.                                       *)

LEMMA FunctionsTyped ==
  ASSUME ProgramOK
  PROVE  /\ Len(program) \in Nat
         /\ \A k \in 1 .. Len(program) :
              /\ program[k].params \in Nat
              /\ \A op \in program[k].body : /\ op.op \in {"pointer", "call", "misuse"}
                                             /\ op.op = "pointer" => op.index \in Nat
<1>1. Len(program) \in Nat /\ program \in [1 .. Len(program) -> Functions]
  BY LenProperties DEF ProgramOK
<1>2. \A k \in 1 .. Len(program) : program[k] \in Functions
  BY <1>1
<1> QED BY <1>1, <1>2, CompilerAssumption

LEMMA PointersTable ==
  ASSUME ProgramOK, NEW k \in 1 .. Len(program)
  PROVE  /\ Len(Pointers(k)) = program[k].params
         /\ \A i \in 1 .. program[k].params : Pointers(k)[i].owner = k
<1> DEFINE n == program[k].params
<1>1. n \in Nat
  BY FunctionsTyped
<1>2. Pointers(k) \in [1 .. n -> {[owner |-> k, index |-> i] : i \in 1 .. n}]
  BY DEF Pointers
<1>3. Pointers(k) \in Seq({[owner |-> k, index |-> i] : i \in 1 .. n})
  BY <1>1, <1>2, SeqDef
<1>4. DOMAIN Pointers(k) = 1 .. n /\ DOMAIN Pointers(k) = 1 .. Len(Pointers(k))
  BY <1>2, <1>3, LenProperties
<1>5. Len(Pointers(k)) \in Nat
  BY <1>3, LenProperties
<1> QED BY <1>1, <1>4, <1>5 DEF Pointers

LEMMA ClosedIfGenerated ==
  ASSUME ProgramOK, NEW k \in 1 .. Len(program), NEW table, IsTable(table, k),
         IsKernel(k) => table = Pointers(k), GenBody(k, table), Verifies(k, table)
  PROVE  Closed(k)
<1> SUFFICES ASSUME NEW op \in program[k].body
             PROVE  \/ op.op = "pointer" /\ IsKernel(k) /\ op.index < program[k].params
                    \/ /\ op.op = "call"
                       /\ \E j \in 1 .. k : /\ program[j].name = op.callee /\ ~IsKernel(j)
                                            /\ program[j].params = op.passed
                                            /\ \A i \in 1 .. j - 1 : program[i].name # op.callee
  BY DEF Closed
<1>1. CASE op.op = "pointer"
  <2>1. op.index \in Nat /\ op.index < Len(table) /\ table[op.index + 1].owner = k
    BY <1>1, FunctionsTyped DEF GenBody, Verifies
  <2>2. table # <<>>
    BY <2>1
  <2>3. PICK j \in 1 .. k : IsKernel(j) /\ table = Pointers(j)
    BY <2>2 DEF IsTable
  <2>4. j \in 1 .. Len(program)
    BY FunctionsTyped
  <2>5. op.index < program[j].params /\ program[j].params \in Nat
    BY <2>1, <2>3, <2>4, PointersTable, FunctionsTyped
  <2>6. table[op.index + 1].owner = j
    BY <2>1, <2>3, <2>4, <2>5, PointersTable
  <2> QED BY <1>1, <2>1, <2>3, <2>5, <2>6
<1>2. CASE op.op = "call"
  <2> DEFINE S == Named(op.callee, k)
             c == First(S)
  <2>1. S # {} /\ S \subseteq Nat
    BY <1>2 DEF GenBody, Named
  <2>2. c \in S /\ \A j \in S : c <= j
    BY <2>1, FirstIsLeast
  <2>3. ~IsKernel(c) /\ program[c].params = op.passed
    BY <1>2 DEF Verifies
  <2>4. c \in 1 .. k /\ program[c].name = op.callee
    BY <2>2 DEF Named
  <2>5. ASSUME NEW i \in 1 .. c - 1, program[i].name = op.callee PROVE FALSE
    <3>1. i \in 1 .. k /\ ~(c <= i)
      BY <2>4
    <3>2. i \in S
      BY <3>1, <2>5 DEF Named
    <3> QED BY <2>2, <3>1, <3>2
  <2> HIDE DEF c
  <2> QED BY <1>2, <2>3, <2>4, <2>5
<1>3. op.op # "misuse"
  BY DEF GenBody
<1>4. \A o \in program[k].body : o.op \in {"pointer", "call", "misuse"}
  BY FunctionsTyped
<1> QED BY <1>1, <1>2, <1>3, <1>4

LEMMA GeneratedIfClosed ==
  ASSUME ProgramOK, NEW k \in 1 .. Len(program), NEW table,
         IsKernel(k) => table = Pointers(k), Closed(k)
  PROVE  GenBody(k, table) /\ Verifies(k, table)
<1>1. ASSUME NEW op \in program[k].body, op.op = "pointer"
      PROVE  op.index < Len(table) /\ table[op.index + 1].owner = k
  <2>1. IsKernel(k) /\ op.index < program[k].params
    BY <1>1 DEF Closed
  <2>2. op.index \in Nat /\ program[k].params \in Nat
    BY <1>1, FunctionsTyped
  <2>3. op.index + 1 \in 1 .. program[k].params
    BY <2>1, <2>2
  <2> QED BY <2>1, <2>3, PointersTable
<1>2. ASSUME NEW op \in program[k].body, op.op = "call"
      PROVE  /\ Named(op.callee, k) # {}
             /\ ~IsKernel(First(Named(op.callee, k)))
             /\ program[First(Named(op.callee, k))].params = op.passed
  <2> DEFINE S == Named(op.callee, k)
  <2>1. PICK j \in 1 .. k : /\ program[j].name = op.callee /\ ~IsKernel(j)
                            /\ program[j].params = op.passed
                            /\ \A i \in 1 .. j - 1 : program[i].name # op.callee
    BY <1>2 DEF Closed
  <2>2. j \in S /\ S \subseteq Nat
    BY <2>1 DEF Named
  <2>3. \A i \in S : j <= i
    BY <2>1 DEF Named
  <2>4. First(S) = j
    BY <2>2, <2>3, FirstIsUnique
  <2> HIDE DEF S
  <2>5. S # {} /\ ~IsKernel(First(S)) /\ program[First(S)].params = op.passed
    BY <2>1, <2>2, <2>4
  <2> QED BY <2>5 DEF S
<1>3. \A op \in program[k].body : op.op # "misuse"
  BY DEF Closed
<1> QED BY <1>1, <1>2, <1>3 DEF GenBody, Verifies

-----------------------------------------------------------------------------
(* Steps of main up to the launcher preserve the invariant.                *)

(* The program stays, and with it what is derived from it.                 *)
LEMMA ProgramStays ==
  ASSUME program' = program
  PROVE  /\ Kernels' = Kernels /\ Selected' = Selected
         /\ \A k : (IsKernel(k) <=> IsKernel(k)') /\ (Closed(k) <=> Closed(k)')
         /\ \A k : Pointers(k)' = Pointers(k)
BY DEF Kernels, Selected, IsKernel, Closed, First, Pointers, NoKernel

LEMMA NoDomain == DOMAIN <<>> = {}
<1>1. <<>> \in Seq({}) /\ Len(<<>>) = 0
  BY EmptySeq
<1>2. DOMAIN <<>> = 1 .. Len(<<>>)
  BY <1>1, LenProperties
<1> QED BY <1>1, <1>2

LEMMA SelectedTyped ==
  ASSUME ProgramOK
  PROVE  /\ Selected.argCount \in Nat
         /\ Selected.name = "" <=> Kernels = {}
<1>1. Kernels \subseteq 1 .. Len(program) /\ Kernels \subseteq Nat
  BY DEF Kernels
<1>2. CASE Kernels = {}
  BY <1>2 DEF Selected, NoKernel
<1>3. CASE Kernels # {}
  <2>1. First(Kernels) \in Kernels
    BY <1>1, <1>3, FirstIsLeast
  <2>2. program[First(Kernels)].params \in Nat
    BY <1>1, <2>1, FunctionsTyped
  <2>3. program[First(Kernels)].name \in KernelNames
    BY <2>1 DEF Kernels, IsKernel
  <2> QED BY <1>3, <2>2, <2>3, CompilerAssumption DEF Selected
<1> QED BY <1>2, <1>3

LEMMA SelectStep ==
  ASSUME IInv, FindFirstKernel, UNCHANGED driverVars
  PROVE  IInv'
<1> USE DEF FindFirstKernel, At, Fail, GoTo, files, driverVars
<1>1. program' = program
  OBVIOUS
<1>2. kernel' = Selected
  BY DEF Selected, Chosen
<1>3. pc = "select" /\ outcome = "running" /\ outcome' \in {"running", "error"}
  OBVIOUS
<1>4. \/ pc' = "generate" /\ outcome' = "running" /\ (runOnGPU => Kernels # {})
      \/ pc' = "select" /\ outcome' = "error"
  <2>1. Selected.name = "" <=> Kernels = {}
    BY SelectedTyped DEF IInv
  <2>2. CASE program = <<>> \/ (runOnGPU /\ kernel'.name = "")
    BY <1>3, <2>2
  <2>3. CASE ~(program = <<>> \/ (runOnGPU /\ kernel'.name = ""))
    <3>1. ~(runOnGPU /\ Selected.name = "")
      BY <1>2, <2>3
    <3> QED BY <1>3, <2>1, <2>3, <3>1
  <2> QED BY <2>2, <2>3
<1>5. ProgramOK'
  BY <1>1 DEF IInv, ProgramOK
<1>6. KernelOK'
  BY <1>1, <1>2, <1>4, ProgramStays, SelectedTyped DEF IInv, KernelOK, Early
<1>7. TableOK'
  BY <1>1, <1>3, ProgramStays DEF IInv, TableOK, IsTable, Early
<1>8. CompilesClosedPrograms'
  BY <1>1, <1>4, ProgramStays DEF IInv, CompilesClosedPrograms
<1>9. PlaceOK' /\ BeforeOK'
  BY <1>3, <1>4 DEF IInv, PlaceOK, BeforeOK, Places
<1>10. ContextOK' /\ DeviceOK' /\ HostOK' /\ SizesOK'
  BY <1>4 DEF ContextOK, DeviceOK, HostOK, SizesOK, InRunKernel, Loops
<1>11. EndOK'
  BY <1>4 DEF EndOK, Early
<1>12. device' = <<>> /\ context' = "none" /\ cuModule' = "none"
  BY <1>3 DEF IInv, BeforeOK
<1>13. Live' = {}
  BY <1>12, NoDomain DEF Live
<1>14. DeviceMemoryIsOwned'
  BY <1>12, <1>13 DEF DeviceMemoryIsOwned
<1> QED BY <1>5, <1>6, <1>7, <1>8, <1>9, <1>10, <1>11, <1>14 DEF IInv

LEMMA GenerateStep ==
  ASSUME IInv, GenFunction, UNCHANGED driverVars
  PROVE  IInv'
<1> DEFINE k == done + 1
           table == Table(k)
<1> USE DEF At, Fail, GoTo, files, driverVars
<1>1. /\ program' = program /\ kernel' = kernel /\ runOnGPU' = runOnGPU
      /\ pc = "generate" /\ pc' = "generate" /\ outcome = "running"
      /\ elementCount' = elementCount
  BY DEF GenFunction
<1>2. ProgramOK /\ k \in 1 .. Len(program) /\ done \in Nat
  BY FunctionsTyped DEF IInv, ProgramOK, GenFunction
<1>3. IsTable(table, k) /\ (IsKernel(k) => table = Pointers(k))
  <2>1. IsTable(kernelParams, done)
    BY <1>1 DEF IInv, TableOK, Early
  <2>2. IsTable(kernelParams, k)
    BY <2>1, <1>2 DEF IsTable
  <2>3. CASE IsKernel(k)
    BY <2>3, <1>2 DEF Table, IsTable
  <2>4. CASE ~IsKernel(k)
    BY <2>2, <2>4 DEF Table
  <2> QED BY <2>3, <2>4
<1>4. kernelParams' = table
  BY DEF GenFunction
<1>5. \/ Closed(k) /\ done' = k /\ outcome' = "running"
      \/ ~Closed(k) /\ done' = done /\ outcome' = "error"
  <2>1. CASE GenBody(k, table) /\ Verifies(k, table)
    <3>1. Closed(k)
      BY <1>2, <1>3, <2>1, ClosedIfGenerated
    <3> QED BY <1>1, <2>1, <3>1 DEF GenFunction
  <2>2. CASE ~(GenBody(k, table) /\ Verifies(k, table))
    <3>1. ~Closed(k)
      BY <1>2, <1>3, <2>2, GeneratedIfClosed
    <3> QED BY <2>2, <3>1 DEF GenFunction
  <2> QED BY <2>1, <2>2
<1> HIDE DEF table
<1>6. ProgramOK'
  BY <1>1, <1>2, <1>5 DEF ProgramOK
<1>7. KernelOK'
  BY <1>1, <1>5, ProgramStays DEF IInv, KernelOK, Early
<1>8. TableOK'
  <2> SUFFICES ASSUME outcome' = "running" PROVE IsTable(kernelParams, done)'
    BY DEF TableOK
  <2>1. done' = k
    BY <1>5
  <2> QED BY <1>1, <1>3, <1>4, <2>1, ProgramStays DEF IsTable
<1>9. CompilesClosedPrograms'
  <2>1. \A i \in 1 .. done : Closed(i)
    BY DEF IInv, CompilesClosedPrograms
  <2>2. \A i \in 1 .. done' : Closed(i)
    BY <1>2, <1>5, <2>1
  <2> QED BY <1>1, <1>5, <2>2, ProgramStays DEF CompilesClosedPrograms
<1>10. PlaceOK' /\ BeforeOK'
  BY <1>1, <1>5 DEF IInv, PlaceOK, BeforeOK
<1>11. ContextOK' /\ DeviceOK' /\ HostOK' /\ SizesOK'
  BY <1>1 DEF ContextOK, DeviceOK, HostOK, SizesOK, InRunKernel, Loops
<1>12. EndOK'
  BY <1>1, <1>5 DEF EndOK, Early
<1>13. device' = <<>> /\ context' = "none" /\ cuModule' = "none"
  BY <1>1 DEF IInv, BeforeOK
<1>14. Live' = {}
  BY <1>13, NoDomain DEF Live
<1>15. DeviceMemoryIsOwned'
  BY <1>13, <1>14 DEF DeviceMemoryIsOwned
<1> QED BY <1>6, <1>7, <1>8, <1>9, <1>10, <1>11, <1>12, <1>15 DEF IInv

LEMMA EmitStep ==
  ASSUME IInv, Emit, UNCHANGED driverVars
  PROVE  IInv'
<1> USE DEF At, Fail, GoTo, files, driverVars
<1>1. /\ program' = program /\ kernel' = kernel /\ runOnGPU' = runOnGPU
      /\ done' = done /\ elementCount' = elementCount
      /\ pc = "generate" /\ outcome = "running" /\ done = Len(program)
  BY DEF Emit
<1>2. \/ pc' = "generate" /\ outcome' \in {"printed", "error"}
      \/ pc' = "launcher" /\ outcome' = "running" /\ runOnGPU
  BY <1>1 DEF Emit
<1>3. ProgramOK'
  BY <1>1 DEF IInv, ProgramOK
<1>4. KernelOK'
  BY <1>1, <1>2, ProgramStays DEF IInv, KernelOK, Early
<1>5. TableOK'
  BY <1>2 DEF TableOK, Early
<1>6. CompilesClosedPrograms'
  <2>1. Len(program) \in Nat
    BY FunctionsTyped DEF IInv
  <2>2. ~(done' < Len(program'))
    BY <1>1, <2>1
  <2>3. \A i \in 1 .. done' : Closed(i)'
    BY <1>1, ProgramStays DEF IInv, CompilesClosedPrograms
  <2> QED BY <2>2, <2>3 DEF CompilesClosedPrograms
<1>7. PlaceOK' /\ BeforeOK'
  BY <1>1, <1>2 DEF IInv, PlaceOK, BeforeOK, Places
<1>8. ContextOK' /\ DeviceOK' /\ HostOK' /\ SizesOK'
  BY <1>2 DEF ContextOK, DeviceOK, HostOK, SizesOK, InRunKernel, Loops
<1>9. EndOK'
  BY <1>2 DEF EndOK, Early
<1>10. device' = <<>> /\ context' = "none" /\ cuModule' = "none"
  BY <1>1 DEF IInv, BeforeOK
<1>11. Live' = {}
  BY <1>10, NoDomain DEF Live
<1>12. DeviceMemoryIsOwned'
  BY <1>10, <1>11 DEF DeviceMemoryIsOwned
<1> QED BY <1>3, <1>4, <1>5, <1>6, <1>7, <1>8, <1>9, <1>12 DEF IInv

-----------------------------------------------------------------------------
(* Steps of the launcher preserve the invariant.                           *)

LEMMA ProgramPart ==
  ASSUME IInv, CompilerSame, elementCount' = elementCount, pc \notin Early, pc' \notin Early
  PROVE  /\ ProgramOK' /\ KernelOK' /\ TableOK' /\ CompilesClosedPrograms'
         /\ kernel' = kernel /\ Arguments' = Arguments
<1>1. program' = program /\ kernel' = kernel /\ done' = done
  BY DEF CompilerSame, files
<1>2. ProgramOK'
  BY <1>1 DEF IInv, ProgramOK
<1>3. KernelOK'
  BY <1>1, ProgramStays DEF IInv, KernelOK, Early
<1>4. TableOK'
  BY DEF TableOK
<1>5. CompilesClosedPrograms'
  BY <1>1, ProgramStays DEF IInv, CompilesClosedPrograms, Early
<1>6. Arguments' = Arguments
  BY <1>1 DEF Arguments
<1> QED BY <1>1, <1>2, <1>3, <1>4, <1>5, <1>6

(* A failed call: the destructor is next, with the context as it is.       *)
LEMMA ReturnPart ==
  ASSUME IInv, outcome = "running", Return(FALSE), elementCount' = elementCount,
         UNCHANGED <<context, cuModule>>, (context = "live" /\ cuModule = "live") \/ UNCHANGED device,
         pc \notin Early, context \in {"none", "live"}
  PROVE  IInv'
<1> USE DEF Return, GoTo
<1>1. pc' = "destroy" /\ outcome' = "running" /\ ok' = FALSE /\ CompilerSame
  OBVIOUS
<1>2. ProgramOK' /\ KernelOK' /\ TableOK' /\ CompilesClosedPrograms'
  BY <1>1, ProgramPart DEF Early
<1>3. PlaceOK' /\ BeforeOK' /\ ContextOK'
  BY <1>1 DEF IInv, PlaceOK, BeforeOK, ContextOK, InRunKernel, Loops, Places
<1>4. DeviceOK' /\ HostOK' /\ SizesOK' /\ EndOK'
  BY <1>1 DEF DeviceOK, HostOK, SizesOK, EndOK
<1>5. DeviceMemoryIsOwned'
  <2>1. CASE context = "live" /\ cuModule = "live"
    BY <1>1, <2>1 DEF DeviceMemoryIsOwned
  <2>2. CASE UNCHANGED device
    <3>1. Live' = Live
      BY <2>2 DEF Live
    <3> QED BY <1>1, <3>1 DEF IInv, DeviceMemoryIsOwned
  <2> QED BY <2>1, <2>2
<1> QED BY <1>2, <1>3, <1>4, <1>5 DEF IInv

LEMMA ConstructStep ==
  ASSUME IInv, Construct
  PROVE  IInv'
<1> USE DEF At, GoTo, LeaveBuffers
<1>1. /\ pc = "launcher" /\ pc' = "loadPTX" /\ outcome = "running" /\ outcome' = "running"
      /\ device' = device /\ cuModule' = cuModule /\ context' \in {"none", "live"}
      /\ ok' = ok
  BY DEF Construct
<1>2. ProgramOK' /\ KernelOK' /\ TableOK' /\ CompilesClosedPrograms'
  BY <1>1, ProgramPart DEF Construct, Early
<1>3. PlaceOK' /\ BeforeOK' /\ ContextOK'
  BY <1>1 DEF IInv, PlaceOK, BeforeOK, ContextOK, InRunKernel, Loops, Places
<1>4. DeviceOK' /\ HostOK' /\ SizesOK' /\ EndOK'
  BY <1>1 DEF DeviceOK, HostOK, SizesOK, EndOK
<1>5. device' = <<>> /\ cuModule' = "none"
  BY <1>1 DEF IInv, BeforeOK
<1>6. Live' = {}
  BY <1>5, NoDomain DEF Live
<1>7. DeviceMemoryIsOwned'
  BY <1>1, <1>5, <1>6 DEF DeviceMemoryIsOwned
<1> QED BY <1>2, <1>3, <1>4, <1>7 DEF IInv

LEMMA LoadPTXStep ==
  ASSUME IInv, LoadPTX
  PROVE  IInv'
<1> USE DEF At, GoTo, LeaveBuffers
<1>1. /\ pc = "loadPTX" /\ outcome = "running" /\ context \in {"none", "live"}
      /\ device' = device /\ context' = context /\ elementCount' = elementCount
  BY DEF LoadPTX, IInv, BeforeOK
<1>2. CASE Return(FALSE) /\ UNCHANGED cuModule
  BY <1>1, <1>2, ReturnPart DEF Early
<1>3. CASE context = "live" /\ cuModule' = "live" /\ GoTo("getFunction") /\ CompilerSame /\ UNCHANGED ok
  <2>1. ProgramOK' /\ KernelOK' /\ TableOK' /\ CompilesClosedPrograms'
    BY <1>1, <1>3, ProgramPart DEF Early
  <2>2. PlaceOK' /\ BeforeOK' /\ ContextOK'
    BY <1>1, <1>3 DEF IInv, PlaceOK, BeforeOK, ContextOK, InRunKernel, Loops, Places
  <2>3. DeviceOK' /\ HostOK' /\ SizesOK' /\ EndOK'
    BY <1>1, <1>3 DEF DeviceOK, HostOK, SizesOK, EndOK
  <2>4. DeviceMemoryIsOwned'
    BY <1>1, <1>3 DEF DeviceMemoryIsOwned
  <2> QED BY <2>1, <2>2, <2>3, <2>4 DEF IInv
<1> QED BY <1>2, <1>3 DEF LoadPTX

LEMMA ArgumentsTyped ==
  ASSUME KernelOK
  PROVE  /\ kernel.argCount \in Nat
         /\ Arguments \subseteq Nat \ {0}
         /\ kernel.argCount = 0 => Arguments = {}
         /\ kernel.argCount # 0 => 1 \in Arguments /\ kernel.argCount \in Arguments
BY DEF KernelOK, Arguments

LEMMA GetFunctionStep ==
  ASSUME IInv, GetFunction
  PROVE  IInv'
<1> USE DEF At, GoTo, LeaveBuffers
<1>1. /\ pc = "getFunction" /\ outcome = "running" /\ context = "live" /\ cuModule = "live"
      /\ context' = context /\ cuModule' = cuModule /\ elementCount' = elementCount
  BY DEF GetFunction, IInv, ContextOK
<1>2. CASE Return(FALSE)
  BY <1>1, <1>2, ReturnPart DEF Early
<1>3. CASE ~Return(FALSE)
  <2>1. /\ host' = [a \in Arguments |-> "none"]
        /\ device' = [a \in Arguments |-> "none"]
        /\ arg' = 1 /\ outcome' = "running" /\ ok' = ok /\ CompilerSame
        /\ \/ kernel.argCount = 0 /\ pc' = "launch"
           \/ kernel.argCount # 0 /\ pc' = "alloc"
    BY <1>1, <1>3 DEF GetFunction
  <2>2. ProgramOK' /\ KernelOK' /\ TableOK' /\ CompilesClosedPrograms' /\ kernel' = kernel /\ Arguments' = Arguments
    BY <1>1, <2>1, ProgramPart DEF Early
  <2>3. PlaceOK' /\ BeforeOK'
    BY <1>1, <2>1 DEF IInv, PlaceOK, BeforeOK, Places
  <2>4. ContextOK'
    BY <1>1, <2>1, <2>2, ArgumentsTyped DEF IInv, ContextOK, InRunKernel, Loops
  <2>5. \A a \in Arguments : ~(a < 1)
    BY ArgumentsTyped DEF IInv
  <2>6. DeviceOK'
    BY <2>1, <2>2, <2>5, ArgumentsTyped DEF IInv, DeviceOK
  <2>7. HostOK' /\ SizesOK' /\ EndOK'
    BY <1>1, <2>1, <2>2 DEF HostOK, SizesOK, EndOK
  <2>8. DeviceMemoryIsOwned'
    BY <1>1, <2>1 DEF DeviceMemoryIsOwned
  <2> QED BY <2>2, <2>3, <2>4, <2>6, <2>7, <2>8 DEF IInv
<1> QED BY <1>2, <1>3

(* In runKernel the context stays, and the invariant is what is said of    *)
(* the buffers.                                                            *)
LEMMA RunPart ==
  ASSUME IInv, outcome = "running", outcome' = "running", pc \in InRunKernel, pc' \in InRunKernel,
         CompilerSame, UNCHANGED <<elementCount, context, cuModule>>, ok' \in BOOLEAN,
         host' \in [Arguments -> {"none", "input", "result"}],
         device' \in [Arguments -> {"none", "garbage", "input", "result", "gone"}],
         pc' \in Loops => arg' \in Arguments, pc' \in {"launch", "synchronize"} => arg' = 1,
         DeviceOK', HostOK', SizesOK'
  PROVE  IInv'
<1>1. context = "live" /\ cuModule = "live" /\ context' = "live" /\ cuModule' = "live"
  BY DEF IInv, ContextOK
<1>2. pc \notin Early /\ pc' \notin Early
  BY DEF InRunKernel, Loops, Early
<1>3. ProgramOK' /\ KernelOK' /\ TableOK' /\ CompilesClosedPrograms' /\ Arguments' = Arguments
  BY <1>2, ProgramPart
<1>4. PlaceOK' /\ BeforeOK' /\ EndOK'
  BY <1>1 DEF InRunKernel, Loops, PlaceOK, BeforeOK, EndOK, Places
<1>5. ContextOK'
  BY <1>1, <1>3 DEF ContextOK
<1>6. DeviceMemoryIsOwned'
  BY <1>1 DEF DeviceMemoryIsOwned
<1> QED BY <1>3, <1>4, <1>5, <1>6 DEF IInv

LEMMA HostRunsOutStep ==
  ASSUME IInv, HostRunsOut
  PROVE  IInv'
<1>1. /\ pc = "alloc" /\ pc' = "alloc" /\ outcome' = "aborted" /\ UNCHANGED driverVars /\ CompilerSame
  BY DEF HostRunsOut, At
<1> USE DEF driverVars
<1>2. ProgramOK' /\ KernelOK' /\ TableOK' /\ CompilesClosedPrograms' /\ kernel' = kernel /\ Arguments' = Arguments
  BY <1>1, ProgramPart DEF Early
<1>3. PlaceOK' /\ BeforeOK'
  BY <1>1 DEF IInv, PlaceOK, BeforeOK
<1>4. ContextOK' /\ DeviceOK'
  BY <1>1, <1>2 DEF IInv, ContextOK, DeviceOK
<1>5. HostOK' /\ SizesOK' /\ EndOK'
  BY <1>1, <1>2 DEF IInv, HostOK, SizesOK, EndOK
<1>6. Live' = Live
  BY <1>1 DEF Live
<1>7. DeviceMemoryIsOwned'
  BY <1>1, <1>6 DEF IInv, DeviceMemoryIsOwned
<1> QED BY <1>2, <1>3, <1>4, <1>5, <1>7 DEF IInv

(* A size that a vector can have is passed on unharmed.                    *)
LEMMA BytesFit ==
  ASSUME elementCount \in Sizes, elementCount <= MaxSize
  PROVE  (elementCount * ElementBytes) % SizeRange = elementCount * ElementBytes
<1> DEFINE half == SizeRange \div 2 - 1
<1>1. elementCount \in Nat /\ SizeRange \in Nat \ {0, 1} /\ ElementBytes \in Nat \ {0}
  BY LauncherAssumption
<1>2. half \in Nat /\ half < SizeRange
  BY <1>1
<1>3. elementCount <= half \div ElementBytes
  BY DEF MaxSize
<1> HIDE DEF half
<1>4. elementCount * ElementBytes <= half
  BY <1>1, <1>2, <1>3, Fits
<1>5. elementCount * ElementBytes \in Nat
  BY <1>1
<1>6. elementCount * ElementBytes < SizeRange
  BY <1>1, <1>2, <1>4, <1>5
<1>7. SizeRange \in Nat \ {0}
  BY <1>1
<1> QED BY <1>5, <1>6, <1>7, Wraps

LEMMA AllocStep ==
  ASSUME IInv, Alloc
  PROVE  IInv'
<1> USE DEF At, GoTo
<1>1. /\ pc = "alloc" /\ outcome = "running" /\ context = "live" /\ cuModule = "live"
      /\ UNCHANGED <<elementCount, context, cuModule>> /\ arg' = arg /\ arg \in Arguments
      /\ host' = [host EXCEPT ![arg] = "input"]
      /\ bytes' = (elementCount * ElementBytes) % SizeRange
      /\ elementCount <= MaxSize
  BY DEF Alloc, IInv, ContextOK, InRunKernel, Loops
<1>2. CASE Return(FALSE)
  BY <1>1, <1>2, ReturnPart DEF Early
<1>3. CASE /\ device' = [device EXCEPT ![arg] = "garbage"]
           /\ GoTo("copyIn") /\ CompilerSame /\ UNCHANGED ok
  <2>1. kernel' = kernel /\ Arguments' = Arguments
    BY <1>1, <1>3, ProgramPart DEF Early
  <2>2. /\ host' \in [Arguments -> {"none", "input", "result"}]
        /\ device' \in [Arguments -> {"none", "garbage", "input", "result", "gone"}]
    BY <1>1, <1>3 DEF IInv, ContextOK, InRunKernel, Loops
  <2>3. bytes' = elementCount' * ElementBytes
    BY <1>1, BytesFit DEF IInv, ProgramOK
  <2>4. DeviceOK'
    <3>1. /\ device \in [Arguments -> {"none", "garbage", "input", "result", "gone"}]
          /\ \A a \in Arguments : a < arg => device[a] = "input"
      BY <1>1 DEF IInv, ContextOK, DeviceOK, InRunKernel, Loops
    <3>2. \A a \in Arguments : a < arg => a # arg
      BY ArgumentsTyped, <1>1 DEF IInv
    <3>3. device'[arg] = "garbage" /\ \A a \in Arguments : a # arg => device'[a] = device[a]
      BY <1>1, <1>3, <3>1
    <3> QED BY <1>1, <1>3, <2>1, <3>1, <3>2, <3>3 DEF DeviceOK
  <2>5. HostOK' /\ SizesOK'
    BY <1>3, <2>3 DEF HostOK, SizesOK
  <2>6. ok' \in BOOLEAN
    BY <1>3 DEF IInv, PlaceOK
  <2> QED BY <1>1, <1>3, <2>2, <2>4, <2>5, <2>6, RunPart DEF InRunKernel, Loops
<1> QED BY <1>2, <1>3 DEF Alloc

LEMMA CopyInStep ==
  ASSUME IInv, CopyIn
  PROVE  IInv'
<1> USE DEF At, GoTo
<1>1. /\ pc = "copyIn" /\ outcome = "running" /\ context = "live" /\ cuModule = "live"
      /\ UNCHANGED <<elementCount, context, cuModule>> /\ arg \in Arguments
      /\ host' = host /\ bytes' = bytes
  BY DEF CopyIn, IInv, ContextOK, InRunKernel, Loops
<1>2. CASE Return(FALSE)
  BY <1>1, <1>2, ReturnPart DEF Early
<1>3. CASE /\ device' = [device EXCEPT ![arg] = "input"]
           /\ NextArg("alloc", "launch") /\ CompilerSame /\ UNCHANGED ok
  <2>1. /\ outcome' = "running"
        /\ \/ arg < kernel.argCount /\ arg' = arg + 1 /\ pc' = "alloc"
           \/ ~(arg < kernel.argCount) /\ arg' = 1 /\ pc' = "launch"
    BY <1>1, <1>3 DEF NextArg, More
  <2>2. kernel' = kernel /\ Arguments' = Arguments
    BY <1>1, <1>3, <2>1, ProgramPart DEF Early
  <2>3. kernel.argCount \in Nat /\ arg \in 1 .. kernel.argCount
    BY <1>1, ArgumentsTyped DEF IInv, Arguments
  <2>4. /\ host' \in [Arguments -> {"none", "input", "result"}]
        /\ device' \in [Arguments -> {"none", "garbage", "input", "result", "gone"}]
    BY <1>1, <1>3 DEF IInv, ContextOK, InRunKernel, Loops
  <2>5. pc' \in Loops => arg' \in Arguments
    BY <2>1, <2>3 DEF Arguments, Loops
  <2>6. \A a \in Arguments : a <= arg => device'[a] = "input"
    <3>1. /\ device \in [Arguments -> {"none", "garbage", "input", "result", "gone"}]
          /\ \A a \in Arguments : a < arg => device[a] = "input"
      BY <1>1 DEF IInv, ContextOK, DeviceOK, InRunKernel, Loops
    <3>2. \A a \in Arguments : a <= arg => a < arg \/ a = arg
      BY <2>3 DEF Arguments
    <3>3. device'[arg] = "input" /\ \A a \in Arguments : a # arg => device'[a] = device[a]
      BY <1>1, <1>3, <3>1
    <3> QED BY <3>1, <3>2, <3>3
  <2>7. DeviceOK'
    <3>1. CASE arg < kernel.argCount /\ arg' = arg + 1 /\ pc' = "alloc"
      <4>1. \A a \in Arguments : a < arg' => a <= arg
        BY <2>3, <3>1 DEF Arguments
      <4> QED BY <2>2, <2>6, <3>1, <4>1 DEF DeviceOK
    <3>2. CASE ~(arg < kernel.argCount) /\ arg' = 1 /\ pc' = "launch"
      <4>1. \A a \in Arguments : a <= arg
        BY <2>3, <3>2 DEF Arguments
      <4> QED BY <2>2, <2>6, <3>2, <4>1 DEF DeviceOK
    <3> QED BY <2>1, <3>1, <3>2
  <2>8. bytes' = elementCount' * ElementBytes
    BY <1>1 DEF IInv, SizesOK
  <2>9. HostOK' /\ SizesOK'
    BY <2>1, <2>8 DEF HostOK, SizesOK
  <2>10. ok' \in BOOLEAN
    BY <1>3 DEF IInv, PlaceOK
  <2> QED BY <1>1, <1>3, <2>1, <2>4, <2>5, <2>7, <2>9, <2>10, RunPart DEF InRunKernel, Loops
<1> QED BY <1>2, <1>3 DEF CopyIn

LEMMA LaunchStep ==
  ASSUME IInv, Launch
  PROVE  IInv'
<1> USE DEF At, GoTo
<1>1. /\ pc = "launch" /\ outcome = "running" /\ outcome' = "running"
      /\ UNCHANGED <<elementCount, context, cuModule>> /\ CompilerSame
      /\ host' = host /\ device' = device /\ bytes' = bytes /\ arg' = arg /\ arg = 1
      /\ grid' = elementCount % UnsignedRange
      /\ \/ ok' = FALSE /\ pc' = "free"
         \/ grid' > 0 /\ ok' = TRUE /\ pc' = "synchronize"
  BY DEF Launch, IInv, ContextOK
<1>2. kernel' = kernel /\ Arguments' = Arguments
  BY <1>1, ProgramPart DEF Early
<1>3. /\ host' \in [Arguments -> {"none", "input", "result"}]
      /\ device' \in [Arguments -> {"none", "garbage", "input", "result", "gone"}]
  BY <1>1 DEF IInv, ContextOK, InRunKernel
<1>4. DeviceOK'
  BY <1>1, <1>2 DEF IInv, DeviceOK
<1>5. HostOK'
  BY <1>1 DEF HostOK
<1>6. elementCount \in Nat /\ UnsignedRange \in Nat \ {0}
  BY LauncherAssumption DEF IInv, ProgramOK
<1>7. /\ grid' \in Nat /\ grid' <= elementCount
      /\ elementCount < UnsignedRange => grid' = elementCount
  BY <1>1, <1>6, Wraps
<1>8. pc' = "synchronize" => grid' \in 1 .. elementCount
  BY <1>1, <1>6, <1>7
<1>9. SizesOK'
  BY <1>1, <1>2, <1>7, <1>8 DEF IInv, SizesOK
<1> QED BY <1>1, <1>3, <1>4, <1>5, <1>9, RunPart DEF InRunKernel, Loops

LEMMA SynchronizeStep ==
  ASSUME IInv, Synchronize
  PROVE  IInv'
<1> USE DEF At, GoTo
<1>1. /\ pc = "synchronize" /\ outcome = "running" /\ outcome' = "running"
      /\ UNCHANGED <<elementCount, context, cuModule>> /\ CompilerSame
      /\ arg' = arg /\ host' = host /\ bytes' = bytes /\ grid' = grid
      /\ \/ ok' = FALSE /\ pc' = "free" /\ device' = device
         \/ /\ ok' = ok /\ device' = [a \in Arguments |-> "result"]
            /\ \/ kernel.argCount = 0 /\ pc' = "free"
               \/ kernel.argCount # 0 /\ pc' = "copyOut"
  BY DEF Synchronize
<1>2. kernel' = kernel /\ Arguments' = Arguments
  BY <1>1, ProgramPart DEF Early
<1>3. /\ host' \in [Arguments -> {"none", "input", "result"}]
      /\ device' \in [Arguments -> {"none", "garbage", "input", "result", "gone"}]
  BY <1>1 DEF IInv, ContextOK, InRunKernel
<1>4. grid \in 1 .. elementCount /\ elementCount \in Nat
  BY <1>1, LauncherAssumption DEF IInv, SizesOK, ProgramOK
<1>5. DeviceOK'
  BY <1>1, <1>2 DEF DeviceOK
<1>6. arg = 1 /\ (pc' \in Loops => arg' \in Arguments)
  BY <1>1, ArgumentsTyped DEF IInv, ContextOK, Loops
<1>7. HostOK'
  <2>1. \A a \in Arguments : ~(a < 1)
    BY ArgumentsTyped DEF IInv
  <2>2. pc' = "free" /\ ok' => DOMAIN host' = {}
    BY <1>1, <1>3, ArgumentsTyped DEF IInv
  <2> QED BY <1>1, <1>2, <1>6, <2>1, <2>2 DEF HostOK
<1>8. SizesOK'
  BY <1>1, <1>2, <1>4 DEF IInv, SizesOK
<1>9. ok' \in BOOLEAN
  BY <1>1 DEF IInv, PlaceOK
<1> QED BY <1>1, <1>3, <1>5, <1>6, <1>7, <1>8, <1>9, RunPart DEF InRunKernel, Loops

LEMMA CopyOutStep ==
  ASSUME IInv, CopyOut
  PROVE  IInv'
<1> USE DEF At, GoTo
<1>1. /\ pc = "copyOut" /\ outcome = "running" /\ arg \in Arguments
      /\ UNCHANGED <<elementCount, context, cuModule>> /\ CompilerSame
      /\ device' = device /\ bytes' = bytes /\ grid' = grid
      /\ \A a \in Arguments : device[a] = "result"
      /\ host \in [Arguments -> {"none", "input", "result"}]
      /\ device \in [Arguments -> {"none", "garbage", "input", "result", "gone"}]
  BY DEF CopyOut, IInv, ContextOK, DeviceOK, InRunKernel, Loops
<1>2. PICK copied \in BOOLEAN :
        /\ host' = IF copied THEN [host EXCEPT ![arg] = device[arg]] ELSE host
        /\ ok' = (copied /\ ok)
  BY DEF CopyOut, StillOk
<1>3. /\ outcome' = "running"
      /\ \/ arg < kernel.argCount /\ arg' = arg + 1 /\ pc' = "copyOut"
         \/ ~(arg < kernel.argCount) /\ arg' = 1 /\ pc' = "free"
  BY <1>1 DEF CopyOut, NextArg, More
<1>4. kernel' = kernel /\ Arguments' = Arguments
  BY <1>1, <1>3, ProgramPart DEF Early
<1>5. kernel.argCount \in Nat /\ arg \in 1 .. kernel.argCount
  BY <1>1, ArgumentsTyped DEF IInv, Arguments
<1>6. host' \in [Arguments -> {"none", "input", "result"}]
  BY <1>1, <1>2
<1>7. pc' \in Loops => arg' \in Arguments
  BY <1>3, <1>5 DEF Arguments
<1>8. DeviceOK'
  BY <1>1, <1>3, <1>4 DEF DeviceOK
<1>9. ok' => \A a \in Arguments : a <= arg => host'[a] = "result"
  <2> SUFFICES ASSUME ok' PROVE \A a \in Arguments : a <= arg => host'[a] = "result"
    OBVIOUS
  <2>1. copied /\ ok
    BY <1>2
  <2>2. host' = [host EXCEPT ![arg] = "result"]
    BY <1>1, <1>2, <2>1
  <2>3. \A a \in Arguments : a < arg => host[a] = "result"
    BY <1>1, <2>1 DEF IInv, HostOK
  <2>4. \A a \in Arguments : a <= arg => a < arg \/ a = arg
    BY <1>5 DEF Arguments
  <2>5. host'[arg] = "result" /\ \A a \in Arguments : a # arg => host'[a] = host[a]
    BY <1>1, <2>2
  <2> QED BY <2>3, <2>4, <2>5
<1>10. HostOK'
  <2>1. CASE arg < kernel.argCount /\ arg' = arg + 1 /\ pc' = "copyOut"
    <3>1. \A a \in Arguments : a < arg' => a <= arg
      BY <1>5, <2>1 DEF Arguments
    <3> QED BY <1>4, <1>9, <2>1, <3>1 DEF HostOK
  <2>2. CASE ~(arg < kernel.argCount) /\ arg' = 1 /\ pc' = "free"
    <3>1. \A a \in Arguments : a <= arg
      BY <1>5, <2>2 DEF Arguments
    <3>2. DOMAIN host' = Arguments
      BY <1>6
    <3> QED BY <1>9, <2>2, <3>1, <3>2 DEF HostOK
  <2> QED BY <1>3, <2>1, <2>2
<1>11. grid \in 1 .. elementCount /\ elementCount \in Nat
  BY <1>1, LauncherAssumption DEF IInv, SizesOK, ProgramOK
<1>12. SizesOK'
  BY <1>1, <1>3, <1>4, <1>11 DEF IInv, SizesOK
<1>13. ok' \in BOOLEAN
  BY <1>2
<1> QED BY <1>1, <1>3, <1>6, <1>7, <1>8, <1>10, <1>12, <1>13, RunPart DEF InRunKernel, Loops

LEMMA FreeStep ==
  ASSUME IInv, Free
  PROVE  IInv'
<1> USE DEF At, GoTo
<1>1. /\ pc = "free" /\ outcome = "running" /\ outcome' = "running"
      /\ UNCHANGED <<elementCount, context, cuModule>> /\ CompilerSame
      /\ host' = host /\ grid' = grid /\ ok' = ok
      /\ \/ ok /\ pc' = "print"
         \/ ~ok /\ pc' = "destroy"
      /\ context = "live" /\ cuModule = "live" /\ ok \in BOOLEAN
      /\ host \in [Arguments -> {"none", "input", "result"}]
      /\ device \in [Arguments -> {"none", "garbage", "input", "result", "gone"}]
  BY DEF Free, IInv, ContextOK, InRunKernel, PlaceOK
<1>2. device' \in [Arguments -> {"none", "garbage", "input", "result", "gone"}]
  <2>1. PICK freed \in SUBSET Live :
          device' = [a \in DOMAIN device |-> IF a \in freed THEN "gone" ELSE device[a]]
    BY DEF Free
  <2> QED BY <1>1, <2>1
<1>3. CASE ok /\ pc' = "print"
  <2>1. DeviceOK' /\ HostOK' /\ SizesOK'
    BY <1>1, <1>3 DEF IInv, DeviceOK, HostOK, SizesOK
  <2> QED BY <1>1, <1>2, <1>3, <2>1, RunPart DEF InRunKernel, Loops
<1>4. CASE ~ok /\ pc' = "destroy"
  <2>1. Return(FALSE)
    BY <1>1, <1>4 DEF Return
  <2> QED BY <1>1, <2>1, ReturnPart DEF Early
<1> QED BY <1>1, <1>3, <1>4

LEMMA PrintStep ==
  ASSUME IInv, PrintResult
  PROVE  IInv'
<1> USE DEF At, GoTo, driverVars
<1>1. /\ pc = "print" /\ outcome = "running" /\ UNCHANGED driverVars /\ CompilerSame
      /\ context = "live" /\ cuModule = "live"
      /\ \/ kernel.argCount = 0 /\ outcome' = "undefined" /\ pc' = "print"
         \/ kernel.argCount # 0 /\ outcome' = "running" /\ pc' = "destroy"
      /\ host \in [Arguments -> {"none", "input", "result"}]
  BY DEF PrintResult, IInv, ContextOK, InRunKernel
<1>2. ProgramOK' /\ KernelOK' /\ TableOK' /\ CompilesClosedPrograms' /\ kernel' = kernel /\ Arguments' = Arguments
  BY <1>1, ProgramPart DEF Early
<1>3. PlaceOK' /\ BeforeOK'
  BY <1>1 DEF IInv, PlaceOK, BeforeOK, Places
<1>4. ContextOK'
  BY <1>1, <1>2 DEF IInv, ContextOK, InRunKernel, Loops
<1>5. DeviceOK'
  BY <1>1 DEF DeviceOK
<1>6. pc' = "destroy" => kernel.argCount \in DOMAIN host
  BY <1>1, ArgumentsTyped DEF IInv
<1>7. HostOK'
  BY <1>1, <1>2, <1>6 DEF IInv, HostOK
<1>8. SizesOK' /\ EndOK'
  BY <1>1, <1>2 DEF IInv, SizesOK, EndOK
<1>9. DeviceMemoryIsOwned'
  BY <1>1 DEF DeviceMemoryIsOwned
<1> QED BY <1>2, <1>3, <1>4, <1>5, <1>7, <1>8, <1>9 DEF IInv

LEMMA DestroyStep ==
  ASSUME IInv, Destroy
  PROVE  IInv'
<1> USE DEF At
<1>1. /\ pc = "destroy" /\ pc' = "destroy" /\ outcome = "running" /\ CompilerSame
      /\ UNCHANGED <<elementCount, arg, host, bytes, grid, ok>>
      /\ \E unloaded, destroyed \in BOOLEAN :
           /\ context' = Destroyed(destroyed)
           /\ cuModule' = IF cuModule = "live" /\ (unloaded \/ context' = "gone") THEN "gone" ELSE cuModule
      /\ device' = IF context' = "gone"
                   THEN [a \in DOMAIN device |-> IF a \in Live THEN "gone" ELSE device[a]]
                   ELSE device
      /\ outcome' = IF ok THEN "success" ELSE "error"
  BY DEF Destroy
<1>2. ProgramOK' /\ KernelOK' /\ TableOK' /\ CompilesClosedPrograms' /\ kernel' = kernel
  BY <1>1, ProgramPart DEF Early
<1>3. /\ context \in {"none", "live"} /\ cuModule \in {"none", "live", "gone"}
      /\ (Live # {} \/ cuModule = "live" => context = "live") /\ ok \in BOOLEAN
  BY <1>1 DEF IInv, PlaceOK, EndOK, DeviceMemoryIsOwned
<1>4. \/ context = "live" /\ context' \in {"gone", "kept"}
      \/ context = "none" /\ context' = "none" /\ cuModule # "live" /\ Live = {}
  BY <1>1, <1>3 DEF Destroyed
<1>5. cuModule' \in {"none", "live", "gone"} /\ (cuModule' = "live" => context' = "kept")
  BY <1>1, <1>3, <1>4
<1>6. context' # "kept" => Live' = {}
  <2>1. CASE context' = "gone"
    <3>1. device' = [a \in DOMAIN device |-> IF a \in Live THEN "gone" ELSE device[a]]
      BY <1>1, <2>1
    <3>2. \A a \in DOMAIN device' : device'[a] \in {"none", "gone"}
      BY <3>1 DEF Live
    <3> QED BY <3>2 DEF Live
  <2>2. CASE context' = "none"
    BY <1>1, <1>4, <2>2 DEF Live
  <2> QED BY <1>4, <2>1, <2>2
<1>7. PlaceOK' /\ BeforeOK' /\ ContextOK' /\ DeviceOK'
  BY <1>1, <1>3, <1>4, <1>5 DEF IInv, PlaceOK, BeforeOK, ContextOK, DeviceOK, InRunKernel, Loops
<1>8. HostOK' /\ SizesOK'
  BY <1>1, <1>2 DEF IInv, HostOK, SizesOK
<1>9. EndOK'
  BY <1>1, <1>3 DEF EndOK, Early
<1>10. DeviceMemoryIsOwned'
  BY <1>1, <1>4, <1>5, <1>6 DEF DeviceMemoryIsOwned
<1> QED BY <1>2, <1>7, <1>8, <1>9, <1>10 DEF IInv

-----------------------------------------------------------------------------
(* The invariant holds in every state.                                     *)

LEMMA Initially ==
  ASSUME Init
  PROVE  IInv
<1>1. PICK n \in 0 .. MaxFunctions : program \in [1 .. n -> Functions]
  BY DEF Init, CompilerInit
<1>2. n \in Nat
  <2>1. MaxFunctions \in Nat
    BY CompilerAssumption
  <2> QED BY <2>1
<1> USE DEF Init, CompilerInit
<1>3. program \in Seq(Functions)
  BY <1>1, <1>2, SeqDef
<1>4. Len(program) \in Nat
  BY <1>3, LenProperties
<1>5. ProgramOK
  BY <1>3, <1>4 DEF ProgramOK
<1>6. KernelOK /\ TableOK
  BY DEF KernelOK, TableOK, IsTable, NoKernel, Early
<1>7. CompilesClosedPrograms
  BY DEF CompilesClosedPrograms
<1>8. PlaceOK /\ BeforeOK
  BY DEF PlaceOK, BeforeOK, Places
<1>9. ContextOK /\ DeviceOK /\ HostOK /\ SizesOK /\ EndOK
  BY DEF ContextOK, DeviceOK, HostOK, SizesOK, EndOK, InRunKernel, Loops
<1>10. Live = {}
  BY NoDomain DEF Live
<1>11. DeviceMemoryIsOwned
  BY <1>10 DEF DeviceMemoryIsOwned
<1> QED BY <1>5, <1>6, <1>7, <1>8, <1>9, <1>11 DEF IInv

LEMMA Stutter ==
  ASSUME IInv, UNCHANGED vars
  PROVE  IInv'
<1>1. UNCHANGED compilerVars /\ UNCHANGED driverVars
  BY DEF vars
<1> USE <1>1 DEF compilerVars, driverVars
<1>2. program' = program
  OBVIOUS
<1>3. ProgramOK' /\ KernelOK' /\ TableOK' /\ CompilesClosedPrograms' /\ Arguments' = Arguments
  BY <1>2, ProgramStays DEF IInv, ProgramOK, KernelOK, TableOK, IsTable, CompilesClosedPrograms, Arguments
<1>4. PlaceOK' /\ BeforeOK' /\ EndOK'
  BY DEF IInv, PlaceOK, BeforeOK, EndOK
<1>5. ContextOK' /\ DeviceOK' /\ HostOK' /\ SizesOK'
  BY <1>3 DEF IInv, ContextOK, DeviceOK, HostOK, SizesOK
<1>6. Live' = Live
  BY DEF Live
<1>7. DeviceMemoryIsOwned'
  BY <1>6 DEF IInv, DeviceMemoryIsOwned
<1> QED BY <1>3, <1>4, <1>5, <1>7 DEF IInv

(* main, CUDALauncher: no step of the program leaves the invariant.        *)
THEOREM Invariance == Spec => []IInv
<1>1. Init => IInv
  BY Initially
<1>2. IInv /\ [Next]_vars => IInv'
  <2> SUFFICES ASSUME IInv, [Next]_vars PROVE IInv'
    OBVIOUS
  <2>1. CASE Compile
    BY <2>1, SelectStep, GenerateStep, EmitStep DEF Compile, CompilerNext
  <2>2. CASE Construct \/ LoadPTX \/ GetFunction
    BY <2>2, ConstructStep, LoadPTXStep, GetFunctionStep
  <2>3. CASE HostRunsOut \/ Alloc \/ CopyIn
    BY <2>3, HostRunsOutStep, AllocStep, CopyInStep
  <2>4. CASE Launch \/ Synchronize \/ CopyOut
    BY <2>4, LaunchStep, SynchronizeStep, CopyOutStep
  <2>5. CASE Free \/ PrintResult \/ Destroy
    BY <2>5, FreeStep, PrintStep, DestroyStep
  <2>6. CASE UNCHANGED vars
    BY <2>6, Stutter
  <2> QED BY <2>1, <2>2, <2>3, <2>4, <2>5, <2>6 DEF Next
<1> QED BY <1>1, <1>2, PTL DEF Spec

-----------------------------------------------------------------------------
(* What the invariant is for.                                              *)

(* FindFirstKernel, runKernel: what the variables hold at each place; past *)
(* the compiler there is a kernel, and the loops stay within its arguments.*)
THEOREM TypeCorrect == Spec => []TypeOK
<1>1. IInv => TypeOK
  BY DEF IInv, ProgramOK, KernelOK, PlaceOK, ContextOK, InRunKernel, Loops, Early, TypeOK
<1> QED BY <1>1, Invariance, PTL

(* genFunction, genTopLevel: whatever file is compiled, a function gets    *)
(* into the module exactly if it is closed, stale pointers or not.         *)
THEOREM OnlyClosedPrograms == Spec => []CompilesClosedPrograms
<1>1. IInv => CompilesClosedPrograms
  BY DEF IInv
<1> QED BY <1>1, Invariance, PTL

(* CUDALauncher: whatever calls fail, no buffer or module outlives its     *)
(* context and none is left when main returns, unless cuCtxDestroy fails.  *)
THEOREM NoDeviceLeak == Spec => []DeviceMemoryIsOwned
<1>1. IInv => DeviceMemoryIsOwned
  BY DEF IInv
<1> QED BY <1>1, Invariance, PTL

(* runKernel: success means that the launch ran and all buffers came back. *)
THEOREM HonestReport == Spec => []ReportsWhatRan
<1>1. IInv => ReportsWhatRan
  BY DEF IInv, PlaceOK, HostOK, SizesOK, EndOK, ReportsWhatRan
<1> QED BY <1>1, Invariance, PTL

(* main, runKernel: the kernel found by name is the first of the file, its *)
(* arguments, buffers, bytes and threads fit it, for every size that       *)
(* --run-size can have and any width of the integers it passes through.    *)
THEOREM RightLaunch == Spec => []LaunchMatchesKernel
<1>1. ASSUME IInv, pc \in {"synchronize", "copyOut"}
      PROVE  LaunchMatchesKernel
  <2> DEFINE k == First(Entries)
  <2>1. ProgramOK /\ Kernels # {} /\ kernel = Selected /\ done = Len(program)
    BY <1>1 DEF IInv, KernelOK, Early
  <2>2. Kernels \subseteq 1 .. Len(program) /\ Kernels \subseteq Nat
    BY DEF Kernels
  <2>3. First(Kernels) \in Kernels /\ \A j \in Kernels : First(Kernels) <= j
    BY <2>1, <2>2, FirstIsLeast
  <2>4. kernel.name = program[First(Kernels)].name /\ kernel.argCount = program[First(Kernels)].params
    BY <2>1 DEF Selected
  <2>5. First(Kernels) \in Entries /\ Entries \subseteq Kernels
    BY <2>3, <2>4 DEF Entries
  <2>6. k = First(Kernels)
    BY <2>2, <2>3, <2>5, FirstIsUnique
  <2>7. k \in 1 .. Len(program) /\ program[k].params = kernel.argCount
    BY <2>2, <2>3, <2>4, <2>6
  <2>8. \A a \in Arguments : device[a] = IF pc = "synchronize" THEN "input" ELSE "result"
    BY <1>1 DEF IInv, DeviceOK
  <2>9. Live = Arguments
    <3>1. DOMAIN device = Arguments
      BY <1>1 DEF IInv, ContextOK, InRunKernel, Loops
    <3> QED BY <2>8, <3>1 DEF Live
  <2>10. \A op \in program[k].body : op.op = "pointer" => op.index + 1 \in Arguments
    <3>1. Closed(k)
      BY <1>1, <2>1, <2>7 DEF IInv, CompilesClosedPrograms
    <3>2. \A op \in program[k].body : op.op = "pointer" => op.index < kernel.argCount
      BY <2>7, <3>1 DEF Closed
    <3>3. \A op \in program[k].body : op.op = "pointer" => op.index \in Nat
      BY <2>1, <2>7, FunctionsTyped
    <3>4. kernel.argCount \in Nat
      BY <1>1 DEF IInv, KernelOK
    <3> QED BY <3>2, <3>3, <3>4 DEF Arguments
  <2>11. Arguments # {} => bytes = elementCount * ElementBytes
    BY <1>1, ArgumentsTyped DEF IInv, SizesOK
  <2>12. grid \in 1 .. elementCount /\ (elementCount < UnsignedRange => grid = elementCount)
    BY <1>1 DEF IInv, SizesOK
  <2> HIDE DEF k
  <2>13. \A a \in Live : device[a] = IF pc = "synchronize" THEN "input" ELSE "result"
    BY <2>8, <2>9
  <2> QED BY <2>6, <2>7, <2>9, <2>10, <2>11, <2>12, <2>13 DEF LaunchMatchesKernel, k
<1>2. IInv => LaunchMatchesKernel
  BY <1>1 DEF LaunchMatchesKernel
<1> QED BY <1>2, Invariance, PTL
=============================================================================
