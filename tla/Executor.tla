------------------------------ MODULE Executor ------------------------------
(***************************************************************************)
(* What EventLoop::queueInLoop promises to its callers: the loop is a      *)
(* first-in first-out executor.  A functor is submitted by any thread, and *)
(* the loop thread takes the oldest one and runs it once.                  *)
(***************************************************************************)
EXTENDS Sequences

CONSTANT Functors  \* the functors (std::function<void()>) that are queued

VARIABLES
  queue,  \* submitted and not yet run, oldest first
  ran     \* the functors run so far, in order

vars == <<queue, ran>>

Init == queue = <<>> /\ ran = <<>>

Submit(f) ==
  /\ queue' = Append(queue, f)
  /\ UNCHANGED ran

RunOldest ==
  /\ queue # <<>>
  /\ ran' = Append(ran, Head(queue))
  /\ queue' = Tail(queue)

Next == RunOldest \/ \E f \in Functors : Submit(f)

Spec == Init /\ [][Next]_vars
=============================================================================
