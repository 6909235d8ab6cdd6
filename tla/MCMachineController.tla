------------------------ MODULE MCMachineController ------------------------
(* Every call of a read is answered by itself.                             *)
EXTENDS MachineController

MCOneByOne == {{call} : call \in Call}
=============================================================================
