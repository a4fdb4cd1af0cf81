------------------------------- MODULE MCForth -------------------------------
(***************************************************************************)
(* The three parts of the Forth kernel, for TLC.  They share no state; a   *)
(* behaviour is one of one part, with the others at rest.                  *)
(***************************************************************************)
EXTENDS ForthHeap, ForthInner, ForthDebug

VARIABLE part

MCProgram ==
  [a |-> << <<"call", "b">>, <<"prim", "">>, <<"semis", "">> >>,
   b |-> << <<"prim", "">>, <<"exit", "">>, <<"semis", "">> >>]

ForthInit == part \in {"heap", "inner", "debug"} /\ HeapInit /\ InnerInit /\ DebugInit

ForthNext ==
  \/ part = "heap" /\ HeapNext /\ UNCHANGED <<part, innerVars, debugVars>>
  \/ part = "inner" /\ InnerNext /\ UNCHANGED <<part, heapVars, debugVars>>
  \/ part = "debug" /\ DebugNext /\ UNCHANGED <<part, heapVars, innerVars>>

ForthSpec == ForthInit /\ [][ForthNext]_<<part, heapVars, innerVars, debugVars>>
=============================================================================
