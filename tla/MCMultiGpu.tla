------------------------------ MODULE MCMultiGpu ------------------------------
(***************************************************************************)
(* The buffer of the all-reduces for MultiGpu.                             *)
(***************************************************************************)
EXTENDS MultiGpu

\* The model builders give one to all of them (allreduce_buf).
OneBuffer == [n \in Slots |-> 0]
=============================================================================
