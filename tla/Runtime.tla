------------------------------- MODULE Runtime -------------------------------
(***************************************************************************)
(* What the Go runtime gives every goroutine of one Verify call: the shared  *)
(* context.Context, whose cancellation every blocking send and receive also  *)
(* selects on, the capacity of the buffered channels, and the death of the   *)
(* whole process by panic.                                                   *)
(***************************************************************************)
EXTENDS Integers, Sequences

CONSTANTS MayCancel,  \* whether somebody may cancel the context in this run
          ChanSize    \* capacity of the channels, the "size" passed to New

ASSUME RuntimeAssumption == MayCancel \in BOOLEAN /\ ChanSize \in Nat \ {0}

VARIABLES cancelled,  \* ctx.Done() is closed
          panicked    \* a goroutine panicked, so the process is gone

runtimeVars == <<cancelled, panicked>>

RuntimeTypeOK == cancelled \in BOOLEAN /\ panicked \in BOOLEAN

RuntimeInit == cancelled = FALSE /\ panicked = FALSE

\* The owner of the context calls its cancel function, at any moment.
Cancel ==
  /\ MayCancel /\ ~cancelled /\ ~panicked
  /\ cancelled' = TRUE
  /\ UNCHANGED panicked

HasRoom(ch) == Len(ch) < ChanSize

=============================================================================
