-------------------------------- MODULE Log --------------------------------
(***************************************************************************)
(* The write-ahead log of the file system (log.c): concurrent operations   *)
(* between begin_op() and end_op(), group commit by the last of them, and  *)
(* recovery. A machine crash may come between any two steps, and so        *)
(* between any two disk writes, those of recovery included.                *)
(*                                                                         *)
(* Granularity. A critical section of log.lock is one step. Each bwrite()  *)
(* is one step, with the memory accesses around it: a block is written     *)
(* entirely or not at all. log_write() is two steps, because it tests      *)
(* log.lh.n for its panics before it takes the lock.                       *)
(*                                                                         *)
(* Abstractions. The contents of a block are a member of Val. The buffer   *)
(* cache is the function cache, what bread() returns for each home block;  *)
(* evicting a clean block does not change it.                              *)
(*                                                                         *)
(* The disk. The header is block log.start, log block i is log.start + i.  *)
(* Only the first LogSize - 1 of those belong to the log: the blocks after *)
(* it on the disk are home blocks, of which mkfs makes inode blocks, and a *)
(* transaction that is too long overwrites them.                           *)
(***************************************************************************)
EXTENDS Integers, Sequences, FiniteSets

CONSTANTS
  Proc,         \* the processes that use the file system
  Block,        \* home blocks (all disk blocks outside the log)
  Val,          \* contents of a block
  None,         \* no block
  MAXOPBLOCKS,  \* log blocks that begin_op() reserves for an operation
  LOGSIZE,      \* entries of the header's array (param.h)
  LogSize,      \* log.size: blocks of the on-disk log, the header included
  After,        \* After[i]: the i-th home block after the end of the log
  OpBlocks      \* bound: different blocks that one operation writes

ASSUME NoneAssumption == None \notin Block
ASSUME SizeAssumption ==
  /\ MAXOPBLOCKS \in Nat \ {0} /\ LOGSIZE \in Nat /\ MAXOPBLOCKS <= LOGSIZE
  /\ LogSize \in Nat \ {0} /\ OpBlocks \in 0 .. MAXOPBLOCKS
ASSUME AfterAssumption == After \in [1 .. LOGSIZE + 1 - LogSize -> Block]
ASSUME ProcAssumption == IsFiniteSet(Proc)

VARIABLES
  home,         \* on disk: the home blocks
  dlog,         \* on disk: the log's data blocks, log.start + i for i
  dhead,        \* on disk: the header's block numbers
  cache,        \* the buffer cache
  lh,           \* log.lh, in memory
  outstanding,  \* log.outstanding
  committing,   \* log.committing
  up,           \* initlog() has returned
  pc,           \* where each process is
  buf,          \* the buffer that a process holds locked, or None
  wrote,        \* the blocks that the current operation of a process wrote
  tail          \* the loop variable of write_log() and install_trans()

disk == <<home, dlog, dhead>>
vars == <<disk, cache, lh, outstanding, committing, up, pc, buf, wrote, tail>>

\* Where a process that is inside an operation can be.
InOp == {"op", "logging", "panic"}

\* Where the process that commits or recovers can be.
InCommit == {"write_log", "install", "finish", "read_head"}

TypeOK ==
  /\ home \in [Block -> Val] /\ cache \in [Block -> Val]
  /\ dlog \in [1 .. LogSize - 1 -> Val]
  /\ dhead \in Seq(Block) /\ lh \in Seq(Block)
  /\ outstanding \in Nat
  /\ committing \in BOOLEAN /\ up \in BOOLEAN
  /\ pc \in [Proc -> {"idle", "begin", "asleep"} \cup InOp \cup InCommit]
  /\ buf \in [Proc -> Block \cup {None}]
  /\ wrote \in [Proc -> SUBSET Block]
  /\ tail \in Nat

\* A disk as mkfs made it, with any files, and initlog() done.
Init ==
  /\ home \in [Block -> Val]
  /\ \E v \in Val : dlog = [i \in 1 .. LogSize - 1 |-> v]
  /\ dhead = <<>>
  /\ cache = home
  /\ lh = <<>>
  /\ outstanding = 0
  /\ committing = FALSE
  /\ up = TRUE
  /\ pc = [p \in Proc |-> "idle"]
  /\ buf = [p \in Proc |-> None]
  /\ wrote = [p \in Proc |-> {}]
  /\ tail = 0

-----------------------------------------------------------------------------
(* Operations *)

Goto(p, l) == pc' = [pc EXCEPT ![p] = l]

\* Mutant: nobody is woken.
WakeAndGoto_Silent(p, l) == Goto(p, l)

\* wakeup(&log), while p goes on at l.
WakeAndGoto(p, l) ==
  pc' = [q \in Proc |-> IF q = p THEN l ELSE IF pc[q] = "asleep" THEN "begin" ELSE pc[q]]

\* Mutant: the operation that asks is not counted.
Exhausted_Others == Len(lh) + outstanding * MAXOPBLOCKS > LOGSIZE

\* One more operation might not fit in the log.
Exhausted == Len(lh) + (outstanding + 1) * MAXOPBLOCKS > LOGSIZE

\* Mutant: an operation may start during a commit.
MustWait_Barge == Exhausted

MustWait == committing \/ Exhausted

\* An iteration of the loop of begin_op().
BeginOp(p) ==
  /\ up /\ pc[p] \in {"idle", "begin"}
  /\ \/ /\ MustWait
        /\ Goto(p, "asleep")
        /\ UNCHANGED <<outstanding, wrote>>
     \/ /\ ~MustWait
        /\ outstanding' = outstanding + 1
        /\ wrote' = [wrote EXCEPT ![p] = {}]
        /\ Goto(p, "op")
  /\ UNCHANGED <<disk, cache, lh, committing, up, buf, tail>>

\* The caller has the buffer of b locked and changes its data; then log_write()
\* tests for its panics.
Modify(p, b, v) ==
  /\ pc[p] = "op"
  /\ \A q \in Proc : buf[q] # b
  /\ Cardinality(wrote[p] \cup {b}) <= OpBlocks
  /\ buf' = [buf EXCEPT ![p] = b]
  /\ cache' = [cache EXCEPT ![b] = v]
  /\ wrote' = [wrote EXCEPT ![p] = @ \cup {b}]
  /\ Goto(p, IF Len(lh) >= LOGSIZE \/ Len(lh) >= LogSize - 1 \/ outstanding < 1
             THEN "panic" ELSE "logging")
  /\ UNCHANGED <<disk, lh, outstanding, committing, up, tail>>

\* Mutant: no block is recorded.
Logged_Always(b) == TRUE

Logged(b) == \E i \in 1 .. Len(lh) : lh[i] = b

\* The locked part of log_write(), and brelse(). A block that is in the log
\* already is not added again.
LogWrite(p) ==
  /\ pc[p] = "logging"
  /\ lh' = IF Logged(buf[p]) THEN lh ELSE Append(lh, buf[p])
  /\ buf' = [buf EXCEPT ![p] = None]
  /\ Goto(p, "op")
  /\ UNCHANGED <<disk, cache, outstanding, committing, up, wrote, tail>>

\* end_op() up to its call of commit(): the last operation commits. It is a
\* panic if somebody else is committing.
EndOp(p) ==
  /\ pc[p] = "op"
  /\ outstanding' = outstanding - 1
  /\ \/ /\ outstanding' = 0
        /\ committing' = TRUE
        /\ Goto(p, IF committing THEN "panic" ELSE IF lh = <<>> THEN "finish" ELSE "write_log")
     \/ /\ outstanding' # 0
        /\ WakeAndGoto(p, IF committing THEN "panic" ELSE "idle")
        /\ UNCHANGED committing
  /\ tail' = 0
  /\ UNCHANGED <<disk, cache, lh, up, buf, wrote>>

-----------------------------------------------------------------------------
(* commit() *)

\* Block log.start + i belongs to the log, and if not, the home block that it is.
InLog(i) == i < LogSize
Beyond(i) == After[i + 1 - LogSize]

\* bread() of block log.start + i.
LogBlock(i) == IF InLog(i) THEN dlog[i] ELSE cache[Beyond(i)]

\* write_log() and install_trans() read block log.start + i and then a home block,
\* with both buffers locked: if that is the same block they wait for themselves.
TwoBuffers(i) == ~InLog(i) => Beyond(i) # lh[i]

\* An iteration of write_log(): bwrite() of one log block.
WriteLog(p) ==
  /\ pc[p] = "write_log" /\ tail < Len(lh)
  /\ TwoBuffers(tail + 1)
  /\ IF InLog(tail + 1)
     THEN /\ dlog' = [dlog EXCEPT ![tail + 1] = cache[lh[tail + 1]]]
          /\ UNCHANGED <<home, cache>>
     ELSE /\ home' = [home EXCEPT ![Beyond(tail + 1)] = cache[lh[tail + 1]]]
          /\ cache' = [cache EXCEPT ![Beyond(tail + 1)] = cache[lh[tail + 1]]]
          /\ UNCHANGED dlog
  /\ tail' = tail + 1
  /\ UNCHANGED <<dhead, lh, outstanding, committing, up, pc, buf, wrote>>

\* Mutant: the header does not wait for the log blocks.
WriteHead_Early(p) ==
  /\ pc[p] = "write_log"
  /\ dhead' = lh
  /\ tail' = 0
  /\ Goto(p, "install")
  /\ UNCHANGED <<home, dlog, cache, lh, outstanding, committing, up, buf, wrote>>

\* write_head(): the true point at which the transaction commits.
WriteHead(p) ==
  /\ pc[p] = "write_log" /\ tail = Len(lh)
  /\ dhead' = lh
  /\ tail' = 0
  /\ Goto(p, "install")
  /\ UNCHANGED <<home, dlog, cache, lh, outstanding, committing, up, buf, wrote>>

\* An iteration of install_trans(), of commit() or of recovery: bwrite() of
\* one home block.
InstallTrans(p) ==
  /\ pc[p] = "install" /\ tail < Len(lh)
  /\ TwoBuffers(tail + 1)
  /\ home' = [home EXCEPT ![lh[tail + 1]] = LogBlock(tail + 1)]
  /\ cache' = [cache EXCEPT ![lh[tail + 1]] = LogBlock(tail + 1)]
  /\ tail' = tail + 1
  /\ UNCHANGED <<dlog, dhead, lh, outstanding, committing, up, pc, buf, wrote>>

\* log.lh.n = 0 and write_head(): erase the transaction from the log.
ClearHead(p) ==
  /\ pc[p] = "install" /\ tail = Len(lh)
  /\ lh' = <<>>
  /\ dhead' = <<>>
  /\ tail' = 0
  /\ up' = TRUE
  /\ Goto(p, IF up THEN "finish" ELSE "idle")
  /\ UNCHANGED <<home, dlog, cache, outstanding, committing, buf, wrote>>

\* Mutant: the operation is counted down a second time.
Finish_Twice(p) ==
  /\ pc[p] = "finish"
  /\ committing' = FALSE
  /\ outstanding' = outstanding - 1
  /\ WakeAndGoto(p, "idle")
  /\ UNCHANGED <<disk, cache, lh, up, buf, wrote, tail>>

\* The end of end_op() in the process that committed.
Finish(p) ==
  /\ pc[p] = "finish"
  /\ committing' = FALSE
  /\ WakeAndGoto(p, "idle")
  /\ UNCHANGED <<disk, cache, lh, outstanding, up, buf, wrote, tail>>

-----------------------------------------------------------------------------
(* Crash and recovery *)

\* Memory is lost. After the reboot p is the first process, which runs
\* initlog() in forkret() before any other process exists.
Crash ==
  /\ \E p \in Proc : pc' = [q \in Proc |-> IF q = p THEN "read_head" ELSE "idle"]
  /\ cache' = home
  /\ lh' = <<>>
  /\ outstanding' = 0
  /\ committing' = FALSE
  /\ up' = FALSE
  /\ buf' = [p \in Proc |-> None]
  /\ wrote' = [p \in Proc |-> {}]
  /\ tail' = 0
  /\ UNCHANGED disk

\* read_head(); recovery goes on with install_trans() and an empty header.
ReadHead(p) ==
  /\ pc[p] = "read_head"
  /\ lh' = dhead
  /\ Goto(p, "install")
  /\ UNCHANGED <<disk, cache, outstanding, committing, up, buf, wrote, tail>>

-----------------------------------------------------------------------------
Step(p) ==
  \/ BeginOp(p) \/ LogWrite(p) \/ EndOp(p)
  \/ \E b \in Block, v \in Val : Modify(p, b, v)
  \/ WriteLog(p) \/ WriteHead(p) \/ InstallTrans(p) \/ ClearHead(p) \/ Finish(p)
  \/ ReadHead(p)

Next == Crash \/ \E p \in Proc : Step(p)

Spec == Init /\ [][Next]_vars

-----------------------------------------------------------------------------
(* Properties *)

\* What recovery makes of home blocks h, log blocks d and a header s that names
\* no more blocks than the log has: the home blocks, overwritten by the log
\* blocks that the header names.
Recovered(h, d, s) ==
  [b \in Block |-> IF \E i \in 1 .. Len(s) : s[i] = b
                  THEN d[CHOOSE i \in 1 .. Len(s) : s[i] = b]
                  ELSE h[b]]

Overlay == Recovered(home, dlog, dhead)

AD == INSTANCE AtomicDisk WITH
        durable <- Overlay,
        mem     <- IF up THEN cache ELSE Overlay,
        active  <- {p \in Proc : pc[p] \in InOp}

\* log.c implements AtomicDisk: whatever the moment of a crash, even a crash
\* during recovery, the disk holds the effects of whole operations.
Atomic == AD!Spec

\* "The logging system only commits when there are no FS system calls active":
\* a process that commits or recovers is alone, and no operation is open.
CommitAlone ==
  \A p, q \in Proc : pc[p] \in InCommit => pc[q] \notin InOp /\ (pc[q] \in InCommit => p = q)

\* No lost wakeup in begin_op(): whoever sleeps there can count on a wakeup
\* from a commit in progress or from an operation that is still open.
SleeperHasWaker ==
  \A p \in Proc : pc[p] = "asleep" => committing \/ outstanding > 0

\* The reservation of begin_op() suffices: the log's blocks never run out, so
\* log_write() does not panic and no log block is written past the log's end.
LogFits == Len(lh) <= LogSize - 1 /\ \A p \in Proc : pc[p] # "panic"

\* When commit() is done every block of the cache is on the disk in its home
\* location, so log_write()'s pinned buffers may be recycled.
CommitDurable == \A p \in Proc : pc[p] = "finish" => home = cache /\ dhead = <<>>
=============================================================================
