----------------------------- MODULE AtomicDisk -----------------------------
(***************************************************************************)
(* What log.c promises to the file system: the blocks on the disk change   *)
(* all together, and only at a moment when no operation is in progress, so *)
(* a crash leaves the effects of whole operations.                         *)
(***************************************************************************)
CONSTANTS Proc, Block, Val

VARIABLES
  durable,  \* the blocks that a crash leaves
  mem,      \* the blocks as the running system sees them
  active    \* the processes between begin_op() and end_op()

vars == <<durable, mem, active>>

Init ==
  /\ durable \in [Block -> Val]
  /\ mem = durable
  /\ active = {}

Begin(p) ==
  /\ p \notin active
  /\ active' = active \cup {p}
  /\ UNCHANGED <<durable, mem>>

Write(p, b, v) ==
  /\ p \in active
  /\ mem' = [mem EXCEPT ![b] = v]
  /\ UNCHANGED <<durable, active>>

End(p) ==
  /\ active' = active \ {p}
  /\ UNCHANGED <<durable, mem>>

Commit ==
  /\ active = {}
  /\ durable' = mem
  /\ UNCHANGED <<mem, active>>

Crash ==
  /\ mem' = durable
  /\ active' = {}
  /\ UNCHANGED durable

Next ==
  \/ \E p \in Proc : Begin(p) \/ End(p) \/ \E b \in Block, v \in Val : Write(p, b, v)
  \/ Commit
  \/ Crash

Spec == Init /\ [][Next]_vars
=============================================================================
