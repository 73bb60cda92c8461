----------------------------- MODULE Log_proofs -----------------------------
(***************************************************************************)
(* Proofs about Log, for any number of processes, any set of blocks and    *)
(* any sizes that satisfy the assumptions of that module.                  *)
(*                                                                         *)
(* The safety invariants follow from one inductive invariant, IInv: who    *)
(* may be where (CtlInv), log.outstanding counts the open operations       *)
(* (CountInv), what the two headers say about each other (HeadInv), and    *)
(* the accounting of begin_op()'s reservations (ResInv). It has one lemma  *)
(* per part below, with one step per action. What the disk holds is the    *)
(* subject of LogDisk_proofs.                                              *)
(***************************************************************************)
EXTENDS Log, FiniteSetTheorems, TLAPS

\* The processes between begin_op() and end_op().
Active == {p \in Proc : pc[p] \in InOp}

\* log.outstanding counts the open operations.
CountInv == outstanding = Cardinality(Active)

\* Who may be where.
CtlInv ==
  /\ CommitAlone
  /\ committing <=> up /\ \E p \in Proc : pc[p] \in InCommit
  /\ ~up => \E p \in Proc : pc[p] \in {"read_head", "install"}
  /\ \A p \in Proc : pc[p] = "read_head" => ~up
  /\ \A p \in Proc : pc[p] \in {"write_log", "finish"} => up
  /\ ~up => \A p \in Proc : buf[p] = None
  /\ \A p \in Proc : pc[p] = "logging" => buf[p] # None
  /\ \A p \in Proc : buf[p] # None => pc[p] \in {"logging", "panic"} /\ buf[p] \in wrote[p]
  /\ \A p, q \in Proc : buf[p] # None /\ buf[p] = buf[q] => p = q

\* The header in memory lists a block once, and is empty between transactions.
HeadInv ==
  /\ \A i, j \in 1 .. Len(lh) : lh[i] = lh[j] => i = j
  /\ \A i, j \in 1 .. Len(dhead) : dhead[i] = dhead[j] => i = j
  /\ Len(dhead) <= LOGSIZE
  /\ (\A p \in Proc : pc[p] \notin InOp \cup {"write_log", "install"}) => lh = <<>>
  /\ (\A p \in Proc : pc[p] \notin {"read_head", "install"}) => dhead = <<>>
  /\ \A p \in Proc : pc[p] = "install" => dhead = lh
  /\ \A p \in Proc : pc[p] \in {"write_log", "install"} => tail <= Len(lh)
  /\ \A p \in Proc : pc[p] = "read_head" => tail = 0

\* The log blocks that begin_op() has reserved and that are not in lh yet.
Unused ==
  {u \in Active \X (1 .. MAXOPBLOCKS) :
     \/ u[2] > Cardinality(wrote[u[1]])
     \/ u[2] = Cardinality(wrote[u[1]]) /\ buf[u[1]] # None /\ ~Logged(buf[u[1]])}

\* They fit.
ResInv ==
  /\ Len(lh) + Cardinality(Unused) <= LOGSIZE
  /\ \A p \in Proc : IsFiniteSet(wrote[p]) /\ Cardinality(wrote[p]) <= OpBlocks
  /\ \A p \in Active : \A b \in wrote[p] : Logged(b) \/ buf[p] = b

-----------------------------------------------------------------------------
\* Starting and ending an operation counts for one.
LEMMA Counting ==
  ASSUME NEW S \in SUBSET Proc
  PROVE  /\ IsFiniteSet(S) /\ Cardinality(S) \in Nat
         /\ Cardinality(S) = 0 <=> S = {}
         /\ \A p \in Proc : p \notin S => Cardinality(S \cup {p}) = Cardinality(S) + 1
         /\ \A p \in S : Cardinality(S \ {p}) = Cardinality(S) - 1
  BY ProcAssumption, FS_Subset, FS_CardinalityType, FS_EmptySet, FS_AddElement, FS_RemoveElement, Zenon

\* What begin_op() reserves for the operations of the processes in S.
LEMMA Reserved ==
  ASSUME NEW S \in SUBSET Proc
  PROVE  /\ IsFiniteSet(S \X (1 .. MAXOPBLOCKS))
         /\ Cardinality(S \X (1 .. MAXOPBLOCKS)) = Cardinality(S) * MAXOPBLOCKS
<1>1. IsFiniteSet(S)
  BY Counting
<1>2. IsFiniteSet(1 .. MAXOPBLOCKS) /\ Cardinality(1 .. MAXOPBLOCKS) = MAXOPBLOCKS
  BY SizeAssumption, FS_Interval
<1> QED
  BY <1>1, <1>2, FS_Product, Zenon

\* What is left of the reservations is finite.
LEMMA UnusedFinite == IsFiniteSet(Unused) /\ Cardinality(Unused) \in Nat
<1>1. Unused \subseteq Active \X (1 .. MAXOPBLOCKS) /\ Active \in SUBSET Proc
  BY DEF Unused, Active
<1> QED
  BY <1>1, Reserved, FS_Subset, FS_CardinalityType, Zenon

\* So the header in memory fits in its array.
LEMMA LhBound == TypeOK /\ ResInv => Len(lh) <= LOGSIZE
  BY UnusedFinite, SizeAssumption DEF ResInv, TypeOK

\* So write_log() writes no farther than the home blocks that After names.
LEMMA BeyondType ==
  ASSUME TypeOK, ResInv, NEW i \in 1 .. Len(lh), ~InLog(i)
  PROVE  Beyond(i) \in Block
<1>1. i + 1 - LogSize \in 1 .. LOGSIZE + 1 - LogSize
  BY LhBound, SizeAssumption DEF InLog, TypeOK
<1> QED
  BY <1>1, AfterAssumption DEF Beyond

\* The types of the variables of log.c are kept.
LEMMA TypeStep ==
  ASSUME TypeOK, CountInv, CtlInv, ResInv, [Next]_vars
  PROVE  TypeOK'
<1> USE DEF InOp, InCommit, disk, Goto
<1>1. ASSUME Crash
      PROVE  TypeOK'
  <2>1. PICK p \in Proc : pc' = [q \in Proc |-> IF q = p THEN "read_head" ELSE "idle"]
    BY <1>1 DEF Crash
  <2>2. pc' \in [Proc -> {"idle", "begin", "asleep"} \cup InOp \cup InCommit]
    BY <2>1
  <2>3. /\ cache' \in [Block -> Val] /\ buf' \in [Proc -> Block \cup {None}]
        /\ wrote' \in [Proc -> SUBSET Block] /\ lh' \in Seq(Block)
    BY <1>1 DEF Crash, TypeOK
  <2> QED
    BY <1>1, <2>2, <2>3, Zenon DEF Crash, TypeOK
<1>2. ASSUME NEW p \in Proc, BeginOp(p)
      PROVE  TypeOK'
  BY <1>2 DEF BeginOp, TypeOK
<1>3. ASSUME NEW p \in Proc, NEW b \in Block, NEW v \in Val, Modify(p, b, v)
      PROVE  TypeOK'
  BY <1>3 DEF Modify, TypeOK
<1>4. ASSUME NEW p \in Proc, LogWrite(p)
      PROVE  TypeOK'
  <2>1. lh' \in Seq(Block)
    <3>1. CASE buf[p] \in Block
      BY <1>4, <3>1 DEF LogWrite, TypeOK
    <3>2. CASE buf[p] = None
      BY <1>4, <3>2 DEF LogWrite, CtlInv
    <3> QED
      BY <3>1, <3>2 DEF TypeOK
  <2> QED
    BY <1>4, <2>1 DEF LogWrite, TypeOK
<1>5. ASSUME NEW p \in Proc, EndOp(p)
      PROVE  TypeOK'
  <2>1. outstanding' \in Nat
    <3>1. p \in Active
      BY <1>5 DEF EndOp, Active
    <3>2. Cardinality(Active) # 0
      BY <3>1, Counting DEF Active
    <3> QED
      BY <1>5, <3>2 DEF EndOp, CountInv, TypeOK
  <2>2. pc' \in [Proc -> {"idle", "begin", "asleep"} \cup InOp \cup InCommit]
    BY <1>5 DEF EndOp, WakeAndGoto, TypeOK
  <2> QED
    BY <1>5, <2>1, <2>2, Zenon DEF EndOp, TypeOK
<1>6. ASSUME NEW p \in Proc, WriteLog(p)
      PROVE  TypeOK'
  <2>1. tail + 1 \in 1 .. Len(lh) /\ lh[tail + 1] \in Block
    BY <1>6 DEF WriteLog, TypeOK
  <2>2. cache[lh[tail + 1]] \in Val
    BY <2>1 DEF TypeOK
  <2>3. /\ dlog' \in [1 .. LogSize - 1 -> Val]
        /\ home' \in [Block -> Val] /\ cache' \in [Block -> Val]
    <3>1. CASE InLog(tail + 1)
      BY <1>6, <2>2, <3>1 DEF WriteLog, TypeOK
    <3>2. CASE ~InLog(tail + 1)
      <4>1. Beyond(tail + 1) \in Block
        BY <2>1, <3>2, BeyondType
      <4> QED
        BY <1>6, <2>2, <3>2, <4>1, Zenon DEF WriteLog, TypeOK
    <3> QED
      BY <3>1, <3>2
  <2> QED
    BY <1>6, <2>3 DEF WriteLog, TypeOK
<1>7. ASSUME NEW p \in Proc, WriteHead(p)
      PROVE  TypeOK'
  BY <1>7 DEF WriteHead, TypeOK
<1>8. ASSUME NEW p \in Proc, InstallTrans(p)
      PROVE  TypeOK'
  <2>1. tail + 1 \in 1 .. Len(lh) /\ lh[tail + 1] \in Block
    BY <1>8 DEF InstallTrans, TypeOK
  <2>2. LogBlock(tail + 1) \in Val
    <3>1. CASE InLog(tail + 1)
      BY <2>1, <3>1, SizeAssumption DEF LogBlock, InLog, TypeOK
    <3>2. CASE ~InLog(tail + 1)
      <4>1. Beyond(tail + 1) \in Block
        BY <2>1, <3>2, BeyondType
      <4> QED
        BY <3>2, <4>1 DEF LogBlock, TypeOK
    <3> QED
      BY <3>1, <3>2
  <2>3. home' \in [Block -> Val] /\ cache' \in [Block -> Val]
    BY <1>8, <2>1, <2>2 DEF InstallTrans, TypeOK
  <2> QED
    BY <1>8, <2>3 DEF InstallTrans, TypeOK
<1>9. ASSUME NEW p \in Proc, ClearHead(p)
      PROVE  TypeOK'
  BY <1>9 DEF ClearHead, TypeOK
<1>10. ASSUME NEW p \in Proc, Finish(p)
      PROVE  TypeOK'
  BY <1>10, Zenon DEF Finish, WakeAndGoto, TypeOK
<1>11. ASSUME NEW p \in Proc, ReadHead(p)
      PROVE  TypeOK'
  BY <1>11 DEF ReadHead, TypeOK
<1>12. CASE UNCHANGED vars
  BY <1>12 DEF vars, TypeOK
<1> QED
  BY <1>1, <1>2, <1>3, <1>4, <1>5, <1>6, <1>7, <1>8, <1>9, <1>10, <1>11, <1>12 DEF Next, Step

\* A commit excludes operations and other commits; a buffer has one holder.
LEMMA CtlStep ==
  ASSUME TypeOK, CountInv, CtlInv, [Next]_vars
  PROVE  CtlInv'
<1> USE DEF CtlInv, CommitAlone, InOp, InCommit, disk, Goto
<1>1. ASSUME Crash
      PROVE  CtlInv'
  <2>1. PICK p \in Proc : pc' = [q \in Proc |-> IF q = p THEN "read_head" ELSE "idle"]
    BY <1>1 DEF Crash
  <2> QED
    BY <1>1, <2>1 DEF Crash
<1>2. ASSUME NEW p \in Proc, BeginOp(p)
      PROVE  CtlInv'
  <2>0. up /\ pc[p] \in {"idle", "begin"} /\ UNCHANGED <<committing, up, buf>>
    BY <1>2 DEF BeginOp
  <2>1. CASE MustWait
    <3>1. pc' = [pc EXCEPT ![p] = "asleep"] /\ wrote' = wrote
      BY <1>2, <2>1 DEF BeginOp
    <3> QED
      BY <2>0, <3>1
  <2>2. CASE ~MustWait
    <3>1. ~committing /\ up /\ \A q \in Proc : pc[q] \notin InCommit
      BY <1>2, <2>2 DEF BeginOp, MustWait
    <3>2. pc' = [pc EXCEPT ![p] = "op"] /\ wrote' = [wrote EXCEPT ![p] = {}]
      BY <1>2, <2>2 DEF BeginOp
    <3> QED
      BY <2>0, <3>1, <3>2
  <2> QED
    BY <2>1, <2>2
<1>3. ASSUME NEW p \in Proc, NEW b \in Block, NEW v \in Val, Modify(p, b, v)
      PROVE  CtlInv'
  BY <1>3 DEF Modify, TypeOK
<1>4. ASSUME NEW p \in Proc, LogWrite(p)
      PROVE  CtlInv'
  BY <1>4 DEF LogWrite, TypeOK
<1>5. ASSUME NEW p \in Proc, EndOp(p)
      PROVE  CtlInv'
  <2>0. /\ pc[p] = "op" /\ up /\ ~committing /\ \A q \in Proc : pc[q] \notin InCommit
        /\ UNCHANGED <<up, buf, wrote>>
    BY <1>5 DEF EndOp
  <2>1. CASE outstanding' = 0
    <3>1. Active \ {p} = {}
      <4>1. p \in Active /\ Active \in SUBSET Proc
        BY <2>0 DEF Active
      <4>2. Cardinality(Active \ {p}) = outstanding - 1
        BY <4>1, Counting DEF CountInv
      <4>3. outstanding - 1 = 0
        BY <1>5, <2>1, Zenon DEF EndOp
      <4> QED
        BY <4>1, <4>2, <4>3, Counting
    <3> QED
      BY <1>5, <2>0, <2>1, <3>1 DEF EndOp, Active, TypeOK
  <2>2. CASE outstanding' # 0
    <3>1. /\ pc' = [q \in Proc |-> IF q = p THEN "idle"
                               ELSE IF pc[q] = "asleep" THEN "begin" ELSE pc[q]]
          /\ committing' = committing
      BY <1>5, <2>0, <2>2 DEF EndOp, WakeAndGoto
    <3> QED
      BY <2>0, <3>1
  <2> QED
    BY <2>1, <2>2
<1>6. ASSUME NEW p \in Proc, WriteLog(p)
      PROVE  CtlInv'
  BY <1>6 DEF WriteLog
<1>7. ASSUME NEW p \in Proc, WriteHead(p)
      PROVE  CtlInv'
  BY <1>7 DEF WriteHead
<1>8. ASSUME NEW p \in Proc, InstallTrans(p)
      PROVE  CtlInv'
  BY <1>8 DEF InstallTrans
<1>9. ASSUME NEW p \in Proc, ClearHead(p)
      PROVE  CtlInv'
  BY <1>9 DEF ClearHead, TypeOK
<1>10. ASSUME NEW p \in Proc, Finish(p)
      PROVE  CtlInv'
  BY <1>10 DEF Finish, WakeAndGoto
<1>11. ASSUME NEW p \in Proc, ReadHead(p)
      PROVE  CtlInv'
  BY <1>11 DEF ReadHead
<1>12. CASE UNCHANGED vars
  BY <1>12 DEF vars
<1> QED
  BY <1>1, <1>2, <1>3, <1>4, <1>5, <1>6, <1>7, <1>8, <1>9, <1>10, <1>11, <1>12, Zenon DEF Next, Step

\* begin_op() and end_op() keep the count.
LEMMA CountStep ==
  ASSUME TypeOK, CtlInv, CountInv, [Next]_vars
  PROVE  CountInv'
<1> USE DEF CountInv, disk, Goto
<1>1. ASSUME Crash
      PROVE  CountInv'
  <2>1. Active' = {}
    BY <1>1 DEF Crash, Active, InOp
  <2> QED
    BY <1>1, <2>1, Counting DEF Crash
<1>2. ASSUME NEW p \in Proc, BeginOp(p)
      PROVE  CountInv'
  <2>1. CASE MustWait
    <3>1. Active' = Active
      BY <1>2, <2>1 DEF BeginOp, Active, InOp, TypeOK
    <3> QED
      BY <1>2, <2>1, <3>1 DEF BeginOp
  <2>2. CASE ~MustWait
    <3>1. Active' = Active \cup {p} /\ p \notin Active /\ Active \in SUBSET Proc
      BY <1>2, <2>2 DEF BeginOp, Active, InOp, TypeOK
    <3> QED
      BY <1>2, <2>2, <3>1, Counting DEF BeginOp
  <2> QED
    BY <2>1, <2>2
<1>3. ASSUME NEW p \in Proc, NEW b \in Block, NEW v \in Val, Modify(p, b, v)
      PROVE  CountInv'
  <2>1. Active' = Active
    BY <1>3 DEF Modify, Active, InOp
  <2> QED
    BY <1>3, <2>1 DEF Modify
<1>4. ASSUME NEW p \in Proc, LogWrite(p)
      PROVE  CountInv'
  <2>1. Active' = Active
    BY <1>4 DEF LogWrite, Active, InOp
  <2> QED
    BY <1>4, <2>1 DEF LogWrite
<1>5. ASSUME NEW p \in Proc, EndOp(p)
      PROVE  CountInv'
  <2>1. ~committing /\ p \in Active /\ Active \in SUBSET Proc
    BY <1>5 DEF EndOp, CtlInv, CommitAlone, Active, InOp
  <2>2. Active' = Active \ {p}
    BY <1>5, <2>1 DEF EndOp, WakeAndGoto, Active, InOp, TypeOK
  <2> QED
    BY <1>5, <2>1, <2>2, Counting DEF EndOp
<1>6. ASSUME NEW p \in Proc, WriteLog(p)
      PROVE  CountInv'
  <2>1. Active' = Active
    BY <1>6 DEF WriteLog, Active, InOp
  <2> QED
    BY <1>6, <2>1 DEF WriteLog
<1>7. ASSUME NEW p \in Proc, WriteHead(p)
      PROVE  CountInv'
  <2>1. Active' = Active
    BY <1>7 DEF WriteHead, Active, InOp
  <2> QED
    BY <1>7, <2>1 DEF WriteHead
<1>8. ASSUME NEW p \in Proc, InstallTrans(p)
      PROVE  CountInv'
  <2>1. Active' = Active
    BY <1>8 DEF InstallTrans, Active, InOp
  <2> QED
    BY <1>8, <2>1 DEF InstallTrans
<1>9. ASSUME NEW p \in Proc, ClearHead(p)
      PROVE  CountInv'
  <2>1. Active' = Active
    BY <1>9 DEF ClearHead, Active, InOp
  <2> QED
    BY <1>9, <2>1 DEF ClearHead
<1>10. ASSUME NEW p \in Proc, Finish(p)
      PROVE  CountInv'
  <2>1. Active' = Active
    BY <1>10 DEF Finish, WakeAndGoto, Active, InOp
  <2> QED
    BY <1>10, <2>1 DEF Finish
<1>11. ASSUME NEW p \in Proc, ReadHead(p)
      PROVE  CountInv'
  <2>1. Active' = Active
    BY <1>11 DEF ReadHead, Active, InOp
  <2> QED
    BY <1>11, <2>1 DEF ReadHead
<1>12. CASE UNCHANGED vars
  BY <1>12 DEF vars, Active
<1> QED
  BY <1>1, <1>2, <1>3, <1>4, <1>5, <1>6, <1>7, <1>8, <1>9, <1>10, <1>11, <1>12 DEF Next, Step

\* The headers in memory and on the disk stay consistent.
LEMMA HeadStep ==
  ASSUME TypeOK, CountInv, CtlInv, HeadInv, ResInv, [Next]_vars
  PROVE  HeadInv'
<1> USE DEF HeadInv, disk, Goto, InOp
<1>1. ASSUME Crash
      PROVE  HeadInv'
  <2>1. PICK p \in Proc : pc' = [q \in Proc |-> IF q = p THEN "read_head" ELSE "idle"]
    BY <1>1 DEF Crash
  <2>2. pc'[p] = "read_head" /\ lh' = <<>> /\ dhead' = dhead /\ tail' = 0
    BY <1>1, <2>1 DEF Crash
  <2> QED
    BY <2>1, <2>2
<1>2. ASSUME NEW p \in Proc, BeginOp(p)
      PROVE  HeadInv'
  BY <1>2 DEF BeginOp, TypeOK
<1>3. ASSUME NEW p \in Proc, NEW b \in Block, NEW v \in Val, Modify(p, b, v)
      PROVE  HeadInv'
  BY <1>3 DEF Modify
<1>4. ASSUME NEW p \in Proc, LogWrite(p)
      PROVE  HeadInv'
  <2>1. /\ pc[p] = "logging" /\ pc' = [pc EXCEPT ![p] = "op"]
        /\ UNCHANGED <<dhead, tail>> /\ \A q \in Proc : pc[q] \notin InCommit
    BY <1>4 DEF LogWrite, CtlInv, CommitAlone
  <2>2. CASE Logged(buf[p])
    BY <1>4, <2>1, <2>2 DEF LogWrite, InCommit
  <2>3. CASE ~Logged(buf[p])
    <3>1. lh' = Append(lh, buf[p]) /\ buf[p] \in Block
      BY <1>4, <2>1, <2>3 DEF LogWrite, CtlInv, TypeOK
    <3>2. \A i, j \in 1 .. Len(lh') : lh'[i] = lh'[j] => i = j
      <4>1. /\ lh \in Seq(Block) /\ Len(lh') = Len(lh) + 1 /\ lh'[Len(lh) + 1] = buf[p]
            /\ \A i \in 1 .. Len(lh) : lh'[i] = lh[i]
        BY <3>1 DEF TypeOK
      <4>2. \A i \in 1 .. Len(lh) : lh[i] # buf[p]
        BY <2>3 DEF Logged
      <4>3. \A i \in 1 .. Len(lh') : i \in 1 .. Len(lh) \/ i = Len(lh) + 1
        BY <4>1
      <4>4. \A i, j \in 1 .. Len(lh) : lh[i] = lh[j] => i = j
        BY DEF HeadInv
      <4> HIDE DEF HeadInv
      <4> QED
        BY <4>1, <4>2, <4>3, <4>4, Zenon
    <3> QED
      BY <2>1, <3>2 DEF InCommit
  <2> QED
    BY <2>2, <2>3
<1>5. ASSUME NEW p \in Proc, EndOp(p)
      PROVE  HeadInv'
  <2>0. /\ pc[p] = "op" /\ up /\ ~committing /\ \A q \in Proc : pc[q] \notin InCommit
        /\ UNCHANGED <<lh, dhead>> /\ tail' = 0
    BY <1>5 DEF EndOp, CtlInv, CommitAlone, TypeOK
  <2>1. CASE outstanding' = 0
    <3>1. pc' = [pc EXCEPT ![p] = IF lh = <<>> THEN "finish" ELSE "write_log"]
      BY <1>5, <2>0, <2>1, Zenon DEF EndOp
    <3> QED
      BY <2>0, <3>1 DEF InCommit
  <2>2. CASE outstanding' # 0
    <3>1. pc' = [q \in Proc |-> IF q = p THEN "idle"
                               ELSE IF pc[q] = "asleep" THEN "begin" ELSE pc[q]]
      BY <1>5, <2>0, <2>2 DEF EndOp, WakeAndGoto
    <3>2. PICK r \in Proc : r # p /\ pc[r] \in InOp
      <4>1. p \in Active /\ Active \in SUBSET Proc
        BY <2>0 DEF Active
      <4>2. Cardinality(Active \ {p}) = outstanding - 1
        BY <4>1, Counting DEF CountInv
      <4>3. outstanding - 1 # 0
        BY <1>5, <2>2 DEF EndOp
      <4>4. Active \ {p} # {}
        BY <4>1, <4>2, <4>3, Counting, Zenon
      <4> QED
        BY <4>4 DEF Active
    <3> QED
      BY <2>0, <3>1, <3>2 DEF InCommit
  <2> QED
    BY <2>1, <2>2
<1>6. ASSUME NEW p \in Proc, WriteLog(p)
      PROVE  HeadInv'
  <2>0. \A q \in Proc : pc[q] \in InCommit => q = p
    BY <1>6 DEF WriteLog, CtlInv, CommitAlone, InCommit
  <2> QED
    BY <1>6, <2>0 DEF WriteLog, InCommit, TypeOK
<1>7. ASSUME NEW p \in Proc, WriteHead(p)
      PROVE  HeadInv'
  <2>0. \A q \in Proc : pc[q] \in InCommit => q = p
    BY <1>7 DEF WriteHead, CtlInv, CommitAlone, InCommit
  <2>1. Len(lh) <= LOGSIZE
    BY LhBound
  <2> QED
    BY <1>7, <2>0, <2>1 DEF WriteHead, InCommit, TypeOK
<1>8. ASSUME NEW p \in Proc, InstallTrans(p)
      PROVE  HeadInv'
  <2>0. \A q \in Proc : pc[q] \in InCommit => q = p
    BY <1>8 DEF InstallTrans, CtlInv, CommitAlone, InCommit
  <2> QED
    BY <1>8, <2>0 DEF InstallTrans, InCommit, TypeOK
<1>9. ASSUME NEW p \in Proc, ClearHead(p)
      PROVE  HeadInv'
  <2>0. \A q \in Proc : pc[q] \in InCommit => q = p
    BY <1>9 DEF ClearHead, CtlInv, CommitAlone, InCommit
  <2>1. lh' = <<>> /\ dhead' = <<>> /\ pc'[p] \in {"finish", "idle"} /\ \A q \in Proc \ {p} : pc'[q] = pc[q]
    BY <1>9 DEF ClearHead, TypeOK
  <2> QED
    BY <1>9, <2>0, <2>1, SizeAssumption DEF InCommit
<1>10. ASSUME NEW p \in Proc, Finish(p)
      PROVE  HeadInv'
  BY <1>10 DEF Finish, WakeAndGoto
<1>11. ASSUME NEW p \in Proc, ReadHead(p)
      PROVE  HeadInv'
  BY <1>11 DEF ReadHead, TypeOK
<1>12. CASE UNCHANGED vars
  BY <1>12 DEF vars
<1> QED
  BY <1>1, <1>2, <1>3, <1>4, <1>5, <1>6, <1>7, <1>8, <1>9, <1>10, <1>11, <1>12, Zenon DEF Next, Step

\* The reservations of begin_op() are enough.
LEMMA ResStep ==
  ASSUME TypeOK, CountInv, CtlInv, HeadInv, ResInv, CountInv', [Next]_vars
  PROVE  ResInv'
<1> USE DEF disk, Goto, InOp
<1>1. ASSUME Crash
      PROVE  ResInv'
  <2>1. Active' = {}
    BY <1>1 DEF Crash, Active, CtlInv, CommitAlone, InCommit
  <2>2. Unused' = {}
    BY <2>1 DEF Unused
  <2>3. Cardinality(Unused') = 0
    BY <2>2, FS_EmptySet
  <2>4. Len(lh') = 0 /\ \A p \in Proc : wrote'[p] = {}
    BY <1>1 DEF Crash
  <2>5. IsFiniteSet({}) /\ Cardinality({}) = 0
    BY FS_EmptySet
  <2>6. 0 <= OpBlocks
    BY SizeAssumption
  <2>7. \A p \in Proc : IsFiniteSet(wrote'[p]) /\ Cardinality(wrote'[p]) <= OpBlocks
    BY ONLY <2>4, <2>5, <2>6, Zenon
  <2> QED
    BY <2>1, <2>3, <2>4, <2>7, SizeAssumption DEF ResInv
<1>2. ASSUME NEW p \in Proc, BeginOp(p)
      PROVE  ResInv'
  <2>0. UNCHANGED <<lh, buf>>
    BY <1>2 DEF BeginOp
  <2>1. CASE MustWait
    <3>1. wrote' = wrote /\ Active' = Active
      BY <1>2, <2>1 DEF BeginOp, Active, TypeOK
    <3> QED
      BY <2>0, <3>1 DEF ResInv, Unused, Logged
  <2>2. CASE ~MustWait
    <3>1. /\ wrote' = [wrote EXCEPT ![p] = {}] /\ outstanding' = outstanding + 1
          /\ Active' = Active \cup {p} /\ Active' \in SUBSET Proc
      BY <1>2, <2>2 DEF BeginOp, Active, TypeOK
    <3>2. Unused' \subseteq Active' \X (1 .. MAXOPBLOCKS)
      BY DEF Unused
    <3>3. /\ IsFiniteSet(Active' \X (1 .. MAXOPBLOCKS))
          /\ Cardinality(Active' \X (1 .. MAXOPBLOCKS)) = (outstanding + 1) * MAXOPBLOCKS
      BY <3>1, Reserved, Zenon DEF CountInv
    <3>4. /\ Cardinality(Unused') <= (outstanding + 1) * MAXOPBLOCKS
          /\ Cardinality(Unused') \in Nat
      BY <3>2, <3>3, FS_Subset, FS_CardinalityType
    <3>5. Len(lh') + Cardinality(Unused') <= LOGSIZE
      <4>1. Len(lh) + (outstanding + 1) * MAXOPBLOCKS <= LOGSIZE /\ (outstanding + 1) * MAXOPBLOCKS \in Nat
        BY <2>2, SizeAssumption DEF MustWait, Exhausted, TypeOK
      <4> QED
        BY <2>0, <3>4, <4>1, SizeAssumption
    <3>6. \A q \in Proc : IsFiniteSet(wrote'[q]) /\ Cardinality(wrote'[q]) <= OpBlocks
      BY <3>1, FS_EmptySet, SizeAssumption DEF ResInv
    <3>7. \A q \in Active' : \A b \in wrote'[q] : Logged(b)' \/ buf'[q] = b
      BY <2>0, <3>1 DEF ResInv, Logged, TypeOK
    <3> QED
      BY <3>5, <3>6, <3>7 DEF ResInv
  <2> QED
    BY <2>1, <2>2
<1>3. ASSUME NEW p \in Proc, NEW b \in Block, NEW v \in Val, Modify(p, b, v)
      PROVE  ResInv'
  <2>0. /\ lh' = lh /\ Active' = Active /\ p \in Active /\ buf[p] = None
        /\ buf' = [buf EXCEPT ![p] = b] /\ wrote' = [wrote EXCEPT ![p] = @ \cup {b}]
        /\ Cardinality(wrote[p] \cup {b}) <= OpBlocks
    BY <1>3 DEF Modify, Active, CtlInv
  <2>1. IsFiniteSet(wrote[p] \cup {b})
    BY FS_AddElement DEF ResInv
  <2>2. b \in wrote[p] => Logged(b) /\ wrote[p] \cup {b} = wrote[p]
    BY <2>0, NoneAssumption DEF ResInv
  <2>3. /\ Cardinality(wrote[p]) \in Nat
        /\ b \notin wrote[p] => Cardinality(wrote[p] \cup {b}) = Cardinality(wrote[p]) + 1
    BY FS_AddElement, FS_CardinalityType DEF ResInv
  <2>4. Unused' \subseteq Unused
    <3>0. Unused' \subseteq Active \X (1 .. MAXOPBLOCKS)
      BY <2>0 DEF Unused
    <3> SUFFICES ASSUME NEW q \in Active, NEW n \in 1 .. MAXOPBLOCKS, <<q, n>> \in Unused'
                 PROVE  <<q, n>> \in Unused
      BY <3>0
    <3>1. CASE q # p
      BY <2>0, <3>1 DEF Unused, Logged, Active
    <3>2. CASE q = p /\ b \in wrote[p]
      <4>1. wrote'[p] = wrote[p] /\ buf'[p] = b /\ Logged(b) /\ lh' = lh
        BY <2>0, <2>2, <3>2 DEF Active, TypeOK
      <4> QED
        BY <3>2, <4>1 DEF Unused, Logged
    <3>3. CASE q = p /\ b \notin wrote[p]
      <4>1. Cardinality(wrote'[p]) = Cardinality(wrote[p]) + 1
        BY <2>0, <2>3, <3>3 DEF Active, TypeOK
      <4>2. n >= Cardinality(wrote'[p])
        BY <2>3, <3>3, <4>1 DEF Unused
      <4>3. n > Cardinality(wrote[p])
        BY <2>3, <4>1, <4>2
      <4> QED
        BY <3>3, <4>3 DEF Unused
    <3> QED
      BY <3>1, <3>2, <3>3
  <2>5. Cardinality(Unused') <= Cardinality(Unused)
    BY <2>4, UnusedFinite, FS_Subset
  <2>6. Cardinality(Unused') \in Nat
    BY <2>4, UnusedFinite, FS_Subset, FS_CardinalityType
  <2>7. Len(lh') + Cardinality(Unused') <= LOGSIZE
    BY <2>0, <2>5, <2>6, UnusedFinite, SizeAssumption DEF ResInv
  <2>8. \A q \in Proc : IsFiniteSet(wrote'[q]) /\ Cardinality(wrote'[q]) <= OpBlocks
    BY <2>0, <2>1 DEF ResInv
  <2>9. \A q \in Active' : \A c \in wrote'[q] : Logged(c)' \/ buf'[q] = c
    BY <2>0, NoneAssumption DEF ResInv, Logged, Active, TypeOK
  <2> QED
    BY <2>7, <2>8, <2>9 DEF ResInv
<1>4. ASSUME NEW p \in Proc, LogWrite(p)
      PROVE  ResInv'
  <2>0. /\ Active' = Active /\ p \in Active /\ wrote' = wrote
        /\ buf[p] \in wrote[p] /\ buf[p] \in Block
        /\ buf' = [buf EXCEPT ![p] = None]
        /\ lh' = IF Logged(buf[p]) THEN lh ELSE Append(lh, buf[p])
    BY <1>4 DEF LogWrite, Active, CtlInv, TypeOK
  <2>1. \A c : Logged(c) => \E i \in 1 .. Len(lh') : lh'[i] = c
    BY <2>0 DEF Logged
  <2>2. \E i \in 1 .. Len(lh') : lh'[i] = buf[p]
    <3>1. CASE Logged(buf[p])
      BY <2>1, <3>1
    <3>2. CASE ~Logged(buf[p])
      <4>1. Len(lh') = Len(lh) + 1 /\ lh'[Len(lh) + 1] = buf[p] /\ Len(lh) \in Nat
        BY <2>0, <3>2
      <4> QED
        BY <4>1
    <3> QED
      BY <3>1, <3>2
  <2>3. \A q \in Active' : \A c \in wrote'[q] : Logged(c)' \/ buf'[q] = c
    <3> SUFFICES ASSUME NEW q \in Active, NEW c \in wrote[q]
                 PROVE  (\E i \in 1 .. Len(lh') : lh'[i] = c) \/ buf'[q] = c
      BY <2>0 DEF Logged
    <3>1. Logged(c) \/ buf[q] = c
      BY DEF ResInv
    <3>2. CASE Logged(c)
      BY <2>1, <3>2
    <3>3. CASE buf[q] = c /\ q = p
      BY <2>2, <3>3
    <3>4. CASE buf[q] = c /\ q # p
      BY <2>0, <3>4 DEF Active, TypeOK
    <3> QED
      BY <3>1, <3>2, <3>3, <3>4
  <2>4. Unused' \subseteq Unused
    <3>0. Unused' \subseteq Active \X (1 .. MAXOPBLOCKS)
      BY <2>0 DEF Unused
    <3> SUFFICES ASSUME NEW q \in Active, NEW n \in 1 .. MAXOPBLOCKS, <<q, n>> \in Unused'
                 PROVE  <<q, n>> \in Unused
      BY <3>0
    <3>1. CASE n > Cardinality(wrote[q])
      BY <3>1 DEF Unused
    <3>2. CASE ~(n > Cardinality(wrote[q]))
      <4>1. n = Cardinality(wrote[q]) /\ buf'[q] # None /\ ~(Logged(buf[q]))'
        BY <2>0, <3>2 DEF Unused
      <4>2. buf'[q] = buf[q]
        <5>1. q \in Proc /\ q # p
          BY <2>0, <4>1, Zenon DEF Active, TypeOK
        <5> QED
          BY <2>0, <5>1, Zenon DEF TypeOK
      <4>3. ~Logged(buf[q])
        BY <2>1, <4>1, <4>2 DEF Logged
      <4> QED
        BY <4>1, <4>2, <4>3 DEF Unused
    <3> QED
      BY <3>1, <3>2
  <2>5. Cardinality(Unused') <= Cardinality(Unused)
    BY <2>4, UnusedFinite, FS_Subset
  <2>6. Cardinality(Unused') \in Nat
    BY <2>4, UnusedFinite, FS_Subset, FS_CardinalityType
  <2>7. Len(lh') + Cardinality(Unused') <= LOGSIZE
    <3>1. CASE Logged(buf[p])
      BY <2>0, <2>5, <2>6, <3>1, UnusedFinite, SizeAssumption DEF ResInv
    <3>2. CASE ~Logged(buf[p])
      <4> DEFINE n == Cardinality(wrote[p])
      <4>1. n \in 1 .. MAXOPBLOCKS
        <5>1. IsFiniteSet(wrote[p]) /\ n <= OpBlocks /\ wrote[p] # {}
          BY <2>0, Zenon DEF ResInv, Active
        <5>2. n \in Nat /\ n # 0
          BY <5>1, FS_CardinalityType, FS_EmptySet, Zenon
        <5> QED
          BY <5>1, <5>2, SizeAssumption
      <4> HIDE DEF n
      <4>2. <<p, n>> \in Unused
        BY <2>0, <3>2, <4>1, NoneAssumption DEF Unused, n
      <4>3. <<p, n>> \notin Unused'
        BY <2>0, <4>1 DEF Unused, n, Active, TypeOK
      <4>4. Unused' \subseteq Unused \ {<<p, n>>}
        BY <2>4, <4>3
      <4>5. \A u \in Unused : IsFiniteSet(Unused \ {u}) /\ Cardinality(Unused \ {u}) = Cardinality(Unused) - 1
        BY UnusedFinite, FS_RemoveElement
      <4>6. Cardinality(Unused') <= Cardinality(Unused) - 1
        <5>1. IsFiniteSet(Unused \ {<<p, n>>}) /\ Cardinality(Unused \ {<<p, n>>}) = Cardinality(Unused) - 1
          BY <4>2, <4>5
        <5> QED
          BY <4>4, <5>1, FS_Subset
      <4>7. Len(lh') = Len(lh) + 1
        BY <2>0, <3>2
      <4> QED
        BY <2>6, <4>6, <4>7, UnusedFinite, SizeAssumption DEF ResInv
    <3> QED
      BY <3>1, <3>2
  <2> QED
    BY <2>0, <2>3, <2>7 DEF ResInv
<1>5. ASSUME NEW p \in Proc, EndOp(p)
      PROVE  ResInv'
  <2>1. ~committing /\ UNCHANGED <<lh, buf, wrote>>
    BY <1>5 DEF EndOp, CtlInv, CommitAlone
  <2>2. Active' \subseteq Active
    BY <1>5, <2>1 DEF EndOp, WakeAndGoto, Active, TypeOK
  <2>3. Unused' \subseteq Unused
    BY <2>1, <2>2 DEF Unused, Logged
  <2>4. Cardinality(Unused') <= Cardinality(Unused)
    BY <2>3, UnusedFinite, FS_Subset
  <2>5. Cardinality(Unused') \in Nat
    BY <2>3, UnusedFinite, FS_Subset, FS_CardinalityType
  <2> QED
    BY <2>1, <2>2, <2>4, <2>5, UnusedFinite, SizeAssumption DEF ResInv, Logged
<1>6. ASSUME NEW p \in Proc, WriteLog(p)
      PROVE  ResInv'
  <2>1. /\ UNCHANGED <<lh, buf, wrote>> /\ Active' = Active
    BY <1>6 DEF WriteLog, Active
  <2> QED
    BY <2>1 DEF ResInv, Unused, Logged
<1>7. ASSUME NEW p \in Proc, WriteHead(p)
      PROVE  ResInv'
  <2>1. /\ UNCHANGED <<lh, buf, wrote>> /\ Active' = Active
    BY <1>7 DEF WriteHead, Active
  <2> QED
    BY <2>1 DEF ResInv, Unused, Logged
<1>8. ASSUME NEW p \in Proc, InstallTrans(p)
      PROVE  ResInv'
  <2>1. /\ UNCHANGED <<lh, buf, wrote>> /\ Active' = Active
    BY <1>8 DEF InstallTrans, Active
  <2> QED
    BY <2>1 DEF ResInv, Unused, Logged
<1>9. ASSUME NEW p \in Proc, ClearHead(p)
      PROVE  ResInv'
  <2>1. Active' = {}
    BY <1>9 DEF ClearHead, Active, CtlInv, CommitAlone, InCommit
  <2>2. Unused' = {}
    BY <2>1 DEF Unused
  <2>3. Cardinality(Unused') = 0
    BY <2>2, FS_EmptySet
  <2>4. Len(lh') = 0 /\ wrote' = wrote
    BY <1>9 DEF ClearHead
  <2> QED
    BY <2>1, <2>3, <2>4, SizeAssumption DEF ResInv
<1>10. ASSUME NEW p \in Proc, Finish(p)
      PROVE  ResInv'
  <2>1. /\ UNCHANGED <<lh, buf, wrote>> /\ Active' = Active
    BY <1>10 DEF Finish, WakeAndGoto, Active
  <2> QED
    BY <2>1 DEF ResInv, Unused, Logged
<1>11. ASSUME NEW p \in Proc, ReadHead(p)
      PROVE  ResInv'
  <2>1. Active' = {}
    BY <1>11 DEF ReadHead, Active, CtlInv, CommitAlone, InCommit
  <2>2. Unused' = {}
    BY <2>1 DEF Unused
  <2>3. Cardinality(Unused') = 0
    BY <2>2, FS_EmptySet
  <2>4. lh' = dhead /\ wrote' = wrote /\ Len(dhead) <= LOGSIZE
    BY <1>11 DEF ReadHead, HeadInv
  <2> QED
    BY <2>1, <2>3, <2>4, SizeAssumption DEF ResInv
<1>12. CASE UNCHANGED vars
  BY <1>12 DEF vars, ResInv, Unused, Active, Logged
<1> QED
  BY <1>1, <1>2, <1>3, <1>4, <1>5, <1>6, <1>7, <1>8, <1>9, <1>10, <1>11, <1>12 DEF Next, Step

-----------------------------------------------------------------------------
\* The inductive invariant.
IInv == TypeOK /\ CtlInv /\ CountInv /\ HeadInv /\ ResInv

\* It holds after mkfs.
LEMMA InitIInv == Init => IInv
<1> SUFFICES ASSUME Init
             PROVE  IInv
  OBVIOUS
<1>1. TypeOK
  <2>1. dlog \in [1 .. LogSize - 1 -> Val]
    BY DEF Init
  <2>2. lh \in Seq(Block) /\ dhead \in Seq(Block)
    BY DEF Init
  <2> QED
    BY <2>1, <2>2, Zenon DEF Init, TypeOK
<1>2. CtlInv
  BY DEF Init, CtlInv, CommitAlone, InOp, InCommit
<1>3. Active = {}
  BY DEF Init, Active, InOp
<1>4. CountInv
  BY <1>3, FS_EmptySet DEF Init, CountInv
<1>5. HeadInv
  BY SizeAssumption DEF Init, HeadInv
<1>6. ResInv
  <2>1. Unused = {}
    BY <1>3 DEF Unused
  <2>2. Cardinality(Unused) = 0 /\ IsFiniteSet({}) /\ Cardinality({}) = 0
    BY <2>1, FS_EmptySet
  <2>3. \A p \in Proc : wrote[p] = {}
    BY DEF Init
  <2>4. 0 <= OpBlocks
    BY SizeAssumption
  <2>5. \A p \in Proc : IsFiniteSet(wrote[p]) /\ Cardinality(wrote[p]) <= OpBlocks
    BY ONLY <2>2, <2>3, <2>4, Zenon
  <2>6. Len(lh) = 0
    BY DEF Init
  <2> QED
    BY <1>3, <2>2, <2>5, <2>6, SizeAssumption DEF ResInv
<1> QED
  BY <1>1, <1>2, <1>4, <1>5, <1>6 DEF IInv

\* Every step of log.c, a crash included, preserves it.
LEMMA StepIInv == IInv /\ [Next]_vars => IInv'
  BY TypeStep, CtlStep, CountStep, HeadStep, ResStep DEF IInv

\* It always holds.
THEOREM Inductive == Spec => []IInv
  BY InitIInv, StepIInv, PTL DEF Spec

\* The types of the variables of log.c.
THEOREM TypeCorrect == Spec => []TypeOK
<1>1. IInv => TypeOK
  BY DEF IInv
<1> QED
  BY <1>1, Inductive, PTL

\* Group commit: no operation is open while end_op() commits, and nobody else
\* commits or recovers.
THEOREM CommitsAlone == Spec => []CommitAlone
<1>1. IInv => CommitAlone
  BY DEF IInv, CtlInv
<1> QED
  BY <1>1, Inductive, PTL

\* The header never has more entries than its array.
HeaderFits == Len(lh) <= LOGSIZE

\* begin_op() reserves enough: log_write() never writes past the end of
\* log.lh.block[], whatever the size of the log on the disk.
THEOREM Reservation == Spec => []HeaderFits
<1>1. IInv => HeaderFits
  BY LhBound DEF IInv, HeaderFits
<1> QED
  BY <1>1, Inductive, PTL

\* Whoever sleeps in begin_op() has a waker.
LEMMA WakeStep ==
  ASSUME TypeOK, CtlInv, CountInv, HeadInv, TypeOK', SleeperHasWaker, [Next]_vars
  PROVE  SleeperHasWaker'
<1> USE DEF disk, Goto
<1>1. ASSUME Crash
      PROVE  SleeperHasWaker'
  <2>1. \A q \in Proc : pc'[q] # "asleep"
    BY <1>1 DEF Crash
  <2> QED
    BY <2>1 DEF SleeperHasWaker
<1>2. ASSUME NEW p \in Proc, BeginOp(p)
      PROVE  SleeperHasWaker'
  <2>1. up /\ committing' = committing
    BY <1>2 DEF BeginOp
  <2>2. CASE MustWait
    <3>1. outstanding' = outstanding /\ outstanding \in Nat
      BY <1>2, <2>2 DEF BeginOp, TypeOK
    <3>2. ASSUME ~committing, outstanding = 0
          PROVE  FALSE
      <4>1. \A q \in Proc : pc[q] \notin InCommit
        BY <2>1, <3>2 DEF CtlInv
      <4>2. Active = {}
        <5>1. Active \in SUBSET Proc /\ Cardinality(Active) = 0
          BY <3>2 DEF CountInv, Active
        <5> QED
          BY <5>1, Counting
      <4>3. lh = <<>>
        BY <4>1, <4>2 DEF HeadInv, InCommit, Active
      <4> QED
        BY <2>2, <3>2, <4>3, SizeAssumption DEF MustWait, Exhausted
    <3> QED
      BY <2>1, <3>1, <3>2 DEF SleeperHasWaker
  <2>3. CASE ~MustWait
    <3>1. outstanding' = outstanding + 1 /\ outstanding \in Nat
      BY <1>2, <2>3 DEF BeginOp, TypeOK
    <3> QED
      BY <3>1 DEF SleeperHasWaker
  <2> QED
    BY <2>2, <2>3
<1>3. ASSUME NEW p \in Proc, NEW b \in Block, NEW v \in Val, Modify(p, b, v)
      PROVE  SleeperHasWaker'
  <2>1. /\ UNCHANGED <<outstanding, committing>>
        /\ \A q \in Proc : pc'[q] = "asleep" => pc[q] = "asleep"
    BY <1>3 DEF Modify, TypeOK
  <2> QED
    BY <2>1 DEF SleeperHasWaker
<1>4. ASSUME NEW p \in Proc, LogWrite(p)
      PROVE  SleeperHasWaker'
  <2>1. /\ UNCHANGED <<outstanding, committing>>
        /\ \A q \in Proc : pc'[q] = "asleep" => pc[q] = "asleep"
    BY <1>4 DEF LogWrite, TypeOK
  <2> QED
    BY <2>1 DEF SleeperHasWaker
<1>5. ASSUME NEW p \in Proc, EndOp(p)
      PROVE  SleeperHasWaker'
  <2>1. CASE outstanding' = 0
    <3>1. committing'
      BY <1>5, <2>1, Zenon DEF EndOp
    <3> QED
      BY <3>1 DEF SleeperHasWaker
  <2>2. CASE outstanding' # 0
    BY <2>2 DEF TypeOK, SleeperHasWaker
  <2> QED
    BY <2>1, <2>2
<1>6. ASSUME NEW p \in Proc, WriteLog(p)
      PROVE  SleeperHasWaker'
  <2>1. /\ UNCHANGED <<outstanding, committing>>
        /\ \A q \in Proc : pc'[q] = "asleep" => pc[q] = "asleep"
    BY <1>6 DEF WriteLog, TypeOK
  <2> QED
    BY <2>1 DEF SleeperHasWaker
<1>7. ASSUME NEW p \in Proc, WriteHead(p)
      PROVE  SleeperHasWaker'
  <2>1. /\ UNCHANGED <<outstanding, committing>>
        /\ \A q \in Proc : pc'[q] = "asleep" => pc[q] = "asleep"
    BY <1>7 DEF WriteHead, TypeOK
  <2> QED
    BY <2>1 DEF SleeperHasWaker
<1>8. ASSUME NEW p \in Proc, InstallTrans(p)
      PROVE  SleeperHasWaker'
  <2>1. /\ UNCHANGED <<outstanding, committing>>
        /\ \A q \in Proc : pc'[q] = "asleep" => pc[q] = "asleep"
    BY <1>8 DEF InstallTrans, TypeOK
  <2> QED
    BY <2>1 DEF SleeperHasWaker
<1>9. ASSUME NEW p \in Proc, ClearHead(p)
      PROVE  SleeperHasWaker'
  <2>1. /\ UNCHANGED <<outstanding, committing>>
        /\ \A q \in Proc : pc'[q] = "asleep" => pc[q] = "asleep"
    BY <1>9 DEF ClearHead, TypeOK
  <2> QED
    BY <2>1 DEF SleeperHasWaker
<1>10. ASSUME NEW p \in Proc, Finish(p)
      PROVE  SleeperHasWaker'
  <2>1. \A q \in Proc : pc'[q] # "asleep"
    BY <1>10 DEF Finish, WakeAndGoto
  <2> QED
    BY <2>1 DEF SleeperHasWaker
<1>11. ASSUME NEW p \in Proc, ReadHead(p)
      PROVE  SleeperHasWaker'
  <2>1. /\ UNCHANGED <<outstanding, committing>>
        /\ \A q \in Proc : pc'[q] = "asleep" => pc[q] = "asleep"
    BY <1>11 DEF ReadHead, TypeOK
  <2> QED
    BY <2>1 DEF SleeperHasWaker
<1>12. CASE UNCHANGED vars
  BY <1>12 DEF vars, SleeperHasWaker
<1> QED
  BY <1>1, <1>2, <1>3, <1>4, <1>5, <1>6, <1>7, <1>8, <1>9, <1>10, <1>11, <1>12 DEF Next, Step

\* No lost wakeup in begin_op().
THEOREM NoLostWakeup == Spec => []SleeperHasWaker
<1>1. Init => SleeperHasWaker
  BY DEF Init, SleeperHasWaker
<1>2. IInv /\ IInv' /\ SleeperHasWaker /\ [Next]_vars => SleeperHasWaker'
  BY WakeStep DEF IInv
<1> QED
  BY <1>1, <1>2, Inductive, PTL DEF Spec

-----------------------------------------------------------------------------
(* log_write() does not panic, if operations leave two blocks of slack *)

\* An open operation has two reserved blocks that it does not use.
LEMMA TwoLeft ==
  ASSUME TypeOK, ResInv, OpBlocks + 2 <= MAXOPBLOCKS, NEW p \in Active
  PROVE  Len(lh) + 2 <= LOGSIZE
<1> DEFINE u == <<p, MAXOPBLOCKS>>
           w == <<p, MAXOPBLOCKS - 1>>
<1>1. Cardinality(wrote[p]) <= OpBlocks /\ Cardinality(wrote[p]) \in Nat
  BY FS_CardinalityType, Zenon DEF ResInv, Active
<1>2. u \in Unused /\ w \in Unused /\ u # w
  BY <1>1, SizeAssumption DEF Unused
<1> HIDE DEF u, w
<1>3. {u, w} \subseteq Unused /\ IsFiniteSet({u, w}) /\ Cardinality({u, w}) = 2
  <2>1. IsFiniteSet({w}) /\ Cardinality({w}) = 1
    BY FS_Singleton, Zenon
  <2>2. IsFiniteSet({w} \cup {u}) /\ Cardinality({w} \cup {u}) = 2
    BY <1>2, <2>1, FS_AddElement, SMTT(30)
  <2>3. {u, w} = {w} \cup {u}
    OBVIOUS
  <2> QED
    BY <1>2, <2>2, <2>3
<1>4. Cardinality(Unused) >= 2
  BY <1>3, UnusedFinite, FS_Subset
<1> QED
  BY <1>4, UnusedFinite, SizeAssumption DEF ResInv, TypeOK

\* The log on the disk has room for both headers, and nothing has panicked.
FitInv == LogFits /\ Len(dhead) <= LogSize - 1

\* The log has room for what log_write() adds.
LEMMA FitStep ==
  ASSUME FitInv, OpBlocks + 2 <= MAXOPBLOCKS, LOGSIZE <= LogSize,
         TypeOK, CtlInv, CountInv, ResInv, [Next]_vars
  PROVE  FitInv'
<1> USE DEF disk, Goto
<1>1. ASSUME Crash
      PROVE  FitInv'
  <2>1. Len(lh') = 0 /\ dhead' = dhead /\ \A q \in Proc : pc'[q] # "panic"
    BY <1>1 DEF Crash
  <2>2. 0 <= LogSize - 1
    BY SizeAssumption
  <2> QED
    BY <2>1, <2>2 DEF FitInv, LogFits
<1>2. ASSUME NEW p \in Proc, BeginOp(p)
      PROVE  FitInv'
  <2>1. /\ UNCHANGED <<lh, dhead>>
        /\ \A q \in Proc : pc'[q] = "panic" => pc[q] = "panic"
    BY <1>2 DEF BeginOp, TypeOK
  <2> QED
    BY <2>1 DEF FitInv, LogFits
<1>3. ASSUME NEW p \in Proc, NEW b \in Block, NEW v \in Val, Modify(p, b, v)
      PROVE  FitInv'
  <2>1. p \in Active /\ Active \in SUBSET Proc
    BY <1>3 DEF Modify, Active, InOp
  <2>2. Len(lh) + 2 <= LOGSIZE
    BY <2>1, TwoLeft
  <2>3. outstanding # 0 /\ outstanding \in Nat
    BY <2>1, Counting DEF CountInv, TypeOK
  <2>4. ~(Len(lh) >= LOGSIZE) /\ ~(Len(lh) >= LogSize - 1) /\ ~(outstanding < 1)
    BY <2>2, <2>3, SizeAssumption DEF TypeOK
  <2>5. pc' = [pc EXCEPT ![p] = "logging"] /\ UNCHANGED <<lh, dhead>>
    BY <1>3, <2>4, Zenon DEF Modify
  <2> QED
    BY <2>5 DEF FitInv, LogFits, TypeOK
<1>4. ASSUME NEW p \in Proc, LogWrite(p)
      PROVE  FitInv'
  <2>1. p \in Active
    BY <1>4 DEF LogWrite, Active, InOp
  <2>2. Len(lh) + 2 <= LOGSIZE
    BY <2>1, TwoLeft
  <2>3. Len(lh') <= Len(lh) + 1 /\ Len(lh') \in Nat
    BY <1>4 DEF LogWrite, TypeOK
  <2>4. pc' = [pc EXCEPT ![p] = "op"] /\ dhead' = dhead
    BY <1>4 DEF LogWrite
  <2> QED
    BY <2>2, <2>3, <2>4, SizeAssumption DEF FitInv, LogFits, TypeOK
<1>5. ASSUME NEW p \in Proc, EndOp(p)
      PROVE  FitInv'
  <2>0. ~committing
    BY <1>5 DEF EndOp, CtlInv, CommitAlone, InOp
  <2>1. /\ UNCHANGED <<lh, dhead>>
        /\ \A q \in Proc : pc'[q] = "panic" => pc[q] = "panic"
    BY <1>5, <2>0 DEF EndOp, WakeAndGoto, TypeOK
  <2> QED
    BY <2>1 DEF FitInv, LogFits
<1>6. ASSUME NEW p \in Proc, WriteLog(p)
      PROVE  FitInv'
  <2>1. /\ UNCHANGED <<lh, dhead>>
        /\ \A q \in Proc : pc'[q] = "panic" => pc[q] = "panic"
    BY <1>6 DEF WriteLog, TypeOK
  <2> QED
    BY <2>1 DEF FitInv, LogFits
<1>7. ASSUME NEW p \in Proc, WriteHead(p)
      PROVE  FitInv'
  <2>1. lh' = lh /\ dhead' = lh /\ \A q \in Proc : pc'[q] = "panic" => pc[q] = "panic"
    BY <1>7 DEF WriteHead, TypeOK
  <2> QED
    BY <2>1 DEF FitInv, LogFits
<1>8. ASSUME NEW p \in Proc, InstallTrans(p)
      PROVE  FitInv'
  <2>1. /\ UNCHANGED <<lh, dhead>>
        /\ \A q \in Proc : pc'[q] = "panic" => pc[q] = "panic"
    BY <1>8 DEF InstallTrans, TypeOK
  <2> QED
    BY <2>1 DEF FitInv, LogFits
<1>9. ASSUME NEW p \in Proc, ClearHead(p)
      PROVE  FitInv'
  <2>1. Len(lh') = 0 /\ Len(dhead') = 0 /\ \A q \in Proc : pc'[q] = "panic" => pc[q] = "panic"
    BY <1>9 DEF ClearHead, TypeOK
  <2>2. 0 <= LogSize - 1
    BY SizeAssumption
  <2> QED
    BY <2>1, <2>2 DEF FitInv, LogFits
<1>10. ASSUME NEW p \in Proc, Finish(p)
      PROVE  FitInv'
  <2>1. /\ UNCHANGED <<lh, dhead>>
        /\ \A q \in Proc : pc'[q] = "panic" => pc[q] = "panic"
    BY <1>10 DEF Finish, WakeAndGoto, TypeOK
  <2> QED
    BY <2>1 DEF FitInv, LogFits
<1>11. ASSUME NEW p \in Proc, ReadHead(p)
      PROVE  FitInv'
  <2>1. lh' = dhead /\ dhead' = dhead /\ \A q \in Proc : pc'[q] = "panic" => pc[q] = "panic"
    BY <1>11 DEF ReadHead, TypeOK
  <2> QED
    BY <2>1 DEF FitInv, LogFits
<1>12. CASE UNCHANGED vars
  BY <1>12 DEF vars, FitInv, LogFits
<1> QED
  BY <1>1, <1>2, <1>3, <1>4, <1>5, <1>6, <1>7, <1>8, <1>9, <1>10, <1>11, <1>12 DEF Next, Step

\* So it is in every reachable state.
LEMMA Fits ==
  ASSUME OpBlocks + 2 <= MAXOPBLOCKS, LOGSIZE <= LogSize
  PROVE  Spec => []FitInv
<1>1. Init => FitInv
  <2>1. 0 <= LogSize - 1
    BY SizeAssumption
  <2> QED
    BY <2>1 DEF Init, FitInv, LogFits
<1>2. IInv /\ FitInv /\ [Next]_vars => FitInv'
  BY FitStep DEF IInv
<1> QED
  BY <1>1, <1>2, Inductive, PTL DEF Spec

\* The reservation of begin_op() suffices: if an operation writes at least two
\* blocks less than it reserves, and the log on the disk has LOGSIZE blocks,
\* log_write() never panics and the log never runs out of blocks.
THEOREM LogNeverFull ==
  ASSUME OpBlocks + 2 <= MAXOPBLOCKS, LOGSIZE <= LogSize
  PROVE  Spec => []LogFits
<1>1. FitInv => LogFits
  BY DEF FitInv
<1> QED
  BY <1>1, Fits, PTL
=============================================================================
