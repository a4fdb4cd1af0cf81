-------------------------------- MODULE Tasks --------------------------------
(***************************************************************************)
(* Algorithms that are functions, on all small inputs: a task is given,    *)
(* the operation of the code computes its result, and the properties       *)
(* compare that with a reference definition.                               *)
(***************************************************************************)
VARIABLES
  task,       \* the input: a record whose "op" says what to compute
  result,     \* what the code computes for it
  done

algVars == <<task, result, done>>

Compute(op, value) ==
  /\ task.op = op /\ ~done
  /\ result' = value
  /\ done' = TRUE
  /\ UNCHANGED task

Done == done /\ UNCHANGED algVars

Computed(op) == done /\ task.op = op
=============================================================================
