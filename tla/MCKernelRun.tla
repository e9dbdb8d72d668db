------------------------------ MODULE MCKernelRun -------------------------------
(* All the kernels, with APIC ids in a row and with a gap.                     *)
EXTENDS KernelRun

AllKernels == {Minimal, Step1, Step2, Step3, Step4, Step5, Step6, Step7, Step8, CKernel,
               HybridKernel}
InARow == [c \in Cpu |-> c]
WithGap == [c \in Cpu |-> 2 * c]
Numberings == {InARow, WithGap}
================================================================================
