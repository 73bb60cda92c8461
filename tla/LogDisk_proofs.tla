--------------------------- MODULE LogDisk_proofs ---------------------------
(***************************************************************************)
(* Proofs about the disk of Log: where the current contents of a block are *)
(* (DataInv), that a commit is durable, and that log.c implements          *)
(* AtomicDisk. They rest on the inductive invariant of Log_proofs and on   *)
(* the size of the log: a transaction that is longer than the log is       *)
(* written over the blocks that follow it, and nothing of this holds.      *)
(***************************************************************************)
EXTENDS Log_proofs

\* The log on the disk is large enough: it has a block for every entry of the
\* header's array, or one less and operations leave two blocks of slack.
EnoughLog ==
  LOGSIZE < LogSize \/ (OpBlocks + 2 <= MAXOPBLOCKS /\ LOGSIZE <= LogSize)

\* Both headers name no more blocks than the log has.
Room == Len(lh) <= LogSize - 1 /\ Len(dhead) <= LogSize - 1

\* In a log that is large enough they never do.
LEMMA HasRoom ==
  ASSUME EnoughLog
  PROVE  Spec => []Room
<1>1. CASE LOGSIZE < LogSize
  <2>1. IInv => Room
    BY <1>1, LhBound, SizeAssumption DEF IInv, TypeOK, HeadInv, Room
  <2> QED
    BY <2>1, Inductive, PTL
<1>2. CASE OpBlocks + 2 <= MAXOPBLOCKS /\ LOGSIZE <= LogSize
  <2>1. Spec => []FitInv
    BY <1>2, Fits
  <2>2. FitInv => Room
    BY DEF FitInv, LogFits, Room
  <2> QED
    BY <2>1, <2>2, PTL
<1> QED
  BY <1>1, <1>2 DEF EnoughLog

\* Then write_log() writes log blocks only.
LEMMA WritesInLog ==
  ASSUME TypeOK, Room, NEW p \in Proc, WriteLog(p)
  PROVE  /\ tail + 1 \in 1 .. LogSize - 1
         /\ dlog' = [dlog EXCEPT ![tail + 1] = cache[lh[tail + 1]]]
         /\ UNCHANGED <<home, cache>>
<1>1. tail + 1 \in 1 .. LogSize - 1 /\ InLog(tail + 1)
  BY SizeAssumption DEF WriteLog, TypeOK, Room, InLog
<1> QED
  BY <1>1 DEF WriteLog

\* And install_trans() reads log blocks only.
LEMMA InstallsFromLog ==
  ASSUME TypeOK, Room, NEW p \in Proc, InstallTrans(p)
  PROVE  /\ lh[tail + 1] \in Block
         /\ home' = [home EXCEPT ![lh[tail + 1]] = dlog[tail + 1]]
         /\ cache' = [cache EXCEPT ![lh[tail + 1]] = dlog[tail + 1]]
<1>1. lh[tail + 1] \in Block /\ InLog(tail + 1)
  BY SizeAssumption DEF InstallTrans, TypeOK, Room, InLog
<1> QED
  BY <1>1 DEF InstallTrans, LogBlock

\* What is on the disk already, and what only in the cache.
DataInv ==
  /\ ~up => cache = home
  /\ \A b \in Block : ~Logged(b) /\ (\A p \in Proc : buf[p] # b) => cache[b] = home[b]
  /\ \A p \in Proc : pc[p] = "write_log" => \A i \in 1 .. tail : dlog[i] = cache[lh[i]]
  /\ \A p \in Proc : pc[p] = "install" =>
       /\ \A i \in 1 .. tail : home[lh[i]] = dlog[i]
       /\ up => \A i \in 1 .. Len(lh) : dlog[i] = cache[lh[i]]

\* Every block of the cache is on the disk at home, or in the log, or held locked.
LEMMA DataStep ==
  ASSUME TypeOK, CtlInv, HeadInv, Room, DataInv, [Next]_vars
  PROVE  DataInv'
<1> USE DEF disk, Goto, InOp
<1>1. ASSUME Crash
      PROVE  DataInv'
  <2>1. PICK p \in Proc : pc' = [q \in Proc |-> IF q = p THEN "read_head" ELSE "idle"]
    BY <1>1 DEF Crash
  <2>2. cache' = home /\ home' = home /\ pc'[p] = "read_head" /\ \A q \in Proc \ {p} : pc'[q] = "idle"
    BY <1>1, <2>1 DEF Crash
  <2> QED
    BY <2>2 DEF DataInv
<1>2. ASSUME NEW p \in Proc, BeginOp(p)
      PROVE  DataInv'
  <2>1. /\ UNCHANGED <<home, dlog, dhead, cache, lh, up, buf, tail>>
        /\ \A q \in Proc : pc'[q] \in {"write_log", "install"} => pc[q] = pc'[q]
    BY <1>2 DEF BeginOp, TypeOK
  <2> QED
    BY <2>1 DEF DataInv, Logged
<1>3. ASSUME NEW p \in Proc, NEW b \in Block, NEW v \in Val, Modify(p, b, v)
      PROVE  DataInv'
  <2>0. up /\ pc[p] \in InOp /\ \A q \in Proc : pc[q] \notin InCommit
    BY <1>3 DEF Modify, CtlInv, CommitAlone, InCommit
  <2>1. /\ UNCHANGED <<home, lh, up>> /\ cache' = [cache EXCEPT ![b] = v]
        /\ buf' = [buf EXCEPT ![p] = b] /\ buf[p] = None
        /\ \A q \in Proc : pc'[q] \notin {"write_log", "install"}
    BY <1>3, <2>0 DEF Modify, CtlInv, InCommit
  <2>2. ASSUME NEW c \in Block, c # b, ~Logged(c), \A q \in Proc : buf'[q] # c
        PROVE  cache'[c] = home'[c]
    <3>1. \A q \in Proc : buf[q] # c
      BY <2>1, <2>2, NoneAssumption DEF TypeOK
    <3>2. cache[c] = home[c]
      BY <2>2, <3>1 DEF DataInv
    <3> QED
      BY <2>1, <2>2, <3>2 DEF TypeOK
  <2>3. buf'[p] = b
    BY <2>1 DEF TypeOK
  <2> QED
    BY <2>0, <2>1, <2>2, <2>3 DEF DataInv, Logged
<1>4. ASSUME NEW p \in Proc, LogWrite(p)
      PROVE  DataInv'
  <2>0. up /\ pc[p] \in InOp /\ \A q \in Proc : pc[q] \notin InCommit
    BY <1>4 DEF LogWrite, CtlInv, CommitAlone, InCommit
  <2>1. /\ UNCHANGED <<home, cache, up>> /\ buf' = [buf EXCEPT ![p] = None]
        /\ buf[p] \in Block /\ lh' \in Seq(Block)
        /\ lh' = IF Logged(buf[p]) THEN lh ELSE Append(lh, buf[p])
        /\ \A q \in Proc : pc'[q] \notin {"write_log", "install"}
    BY <1>4, <2>0 DEF LogWrite, CtlInv, InCommit, TypeOK
  <2>2. /\ \E i \in 1 .. Len(lh') : lh'[i] = buf[p]
        /\ \A c \in Block : Logged(c) => \E i \in 1 .. Len(lh') : lh'[i] = c
    <3>1. CASE Logged(buf[p])
      BY <2>1, <3>1 DEF Logged
    <3>2. CASE ~Logged(buf[p])
      <4>1. lh' = Append(lh, buf[p]) /\ Len(lh') = Len(lh) + 1 /\ Len(lh) \in Nat
        BY <2>1, <3>2
      <4>2. lh'[Len(lh) + 1] = buf[p] /\ \A i \in 1 .. Len(lh) : lh'[i] = lh[i]
        BY <2>1, <4>1
      <4> QED
        BY <4>1, <4>2 DEF Logged
    <3> QED
      BY <3>1, <3>2
  <2>3. \A c \in Block : ~Logged(c)' /\ (\A q \in Proc : buf'[q] # c) => cache[c] = home[c]
    <3> SUFFICES ASSUME NEW c \in Block, ~Logged(c)', \A q \in Proc : buf'[q] # c
                 PROVE  cache[c] = home[c]
      OBVIOUS
    <3>1. ~Logged(c) /\ c # buf[p]
      BY <2>2 DEF Logged
    <3>2. \A q \in Proc : buf[q] # c
      BY <2>1, <3>1
    <3> QED
      BY <3>1, <3>2 DEF DataInv
  <2> QED
    BY <2>0, <2>1, <2>3 DEF DataInv
<1>5. ASSUME NEW p \in Proc, EndOp(p)
      PROVE  DataInv'
  <2>0. up /\ pc[p] \in InOp /\ \A q \in Proc : pc[q] \notin InCommit
    BY <1>5 DEF EndOp, CtlInv, CommitAlone, InCommit
  <2>1. /\ UNCHANGED <<home, dlog, cache, lh, up, buf>> /\ tail' = 0
        /\ \A q \in Proc : pc'[q] # "install"
    BY <1>5, <2>0 DEF EndOp, WakeAndGoto, InCommit, TypeOK
  <2>2. \A i \in 1 .. tail' : dlog'[i] = cache'[lh'[i]]
    BY <2>1
  <2> QED
    BY <2>0, <2>1, <2>2 DEF DataInv, Logged
<1>6. ASSUME NEW p \in Proc, WriteLog(p)
      PROVE  DataInv'
  <2>0. \A q \in Proc : pc[q] \in InCommit => q = p
    BY <1>6 DEF WriteLog, CtlInv, CommitAlone, InCommit
  <2>1. /\ UNCHANGED <<home, cache, lh, up, buf, pc>> /\ tail' = tail + 1
        /\ tail + 1 \in 1 .. LogSize - 1
        /\ dlog' = [dlog EXCEPT ![tail + 1] = cache[lh[tail + 1]]]
    BY <1>6, WritesInLog DEF WriteLog
  <2>2. \A q \in Proc : pc[q] # "install"
    BY <1>6, <2>0 DEF WriteLog, InCommit
  <2> QED
    BY <1>6, <2>1, <2>2 DEF DataInv, Logged, WriteLog, TypeOK
<1>7. ASSUME NEW p \in Proc, WriteHead(p)
      PROVE  DataInv'
  <2>0. \A q \in Proc : pc[q] \in InCommit => q = p
    BY <1>7 DEF WriteHead, CtlInv, CommitAlone, InCommit
  <2>1. /\ UNCHANGED <<home, dlog, cache, lh, up, buf>> /\ tail' = 0 /\ tail = Len(lh) /\ up
        /\ pc[p] = "write_log"
        /\ \A q \in Proc : pc'[q] # "write_log"
    BY <1>7, <2>0 DEF WriteHead, InCommit, CtlInv, TypeOK
  <2>2. \A i \in 1 .. tail' : home'[lh'[i]] = dlog'[i]
    BY <2>1
  <2>3. \A i \in 1 .. Len(lh') : dlog'[i] = cache'[lh'[i]]
    BY <2>1 DEF DataInv
  <2> QED
    BY <2>1, <2>2, <2>3 DEF DataInv, Logged
<1>8. ASSUME NEW p \in Proc, InstallTrans(p)
      PROVE  DataInv'
  <2>0. \A q \in Proc : pc[q] \in InCommit => q = p
    BY <1>8 DEF InstallTrans, CtlInv, CommitAlone, InCommit
  <2>1. /\ UNCHANGED <<dlog, lh, up, buf, pc>> /\ tail' = tail + 1
        /\ tail + 1 \in 1 .. Len(lh)
        /\ pc[p] = "install" /\ \A q \in Proc : pc[q] # "write_log"
    BY <1>8, <2>0 DEF InstallTrans, InCommit, TypeOK
  <2>2. /\ home' = [home EXCEPT ![lh[tail + 1]] = dlog[tail + 1]]
        /\ cache' = [cache EXCEPT ![lh[tail + 1]] = dlog[tail + 1]]
        /\ lh[tail + 1] \in Block
    BY <1>8, InstallsFromLog
  <2>3. \A i \in 1 .. Len(lh) : lh[i] \in Block /\ (lh[i] = lh[tail + 1] => i = tail + 1)
    BY <2>1 DEF HeadInv, TypeOK
  <2>4. \A i \in 1 .. tail + 1 : home'[lh[i]] = dlog[i]
    BY <2>1, <2>2, <2>3 DEF DataInv, TypeOK
  <2>5. up => \A i \in 1 .. Len(lh) : dlog[i] = cache'[lh[i]]
    <3> SUFFICES ASSUME up, NEW i \in 1 .. Len(lh) PROVE dlog[i] = cache'[lh[i]]
      OBVIOUS
    <3>1. dlog[i] = cache[lh[i]]
      BY <2>1 DEF DataInv
    <3>2. cache'[lh[i]] = IF lh[i] = lh[tail + 1] THEN dlog[tail + 1] ELSE cache[lh[i]]
      BY <2>2, <2>3 DEF TypeOK
    <3> QED
      BY <2>3, <3>1, <3>2
  <2>6. ~up => cache' = home'
    BY <2>2 DEF DataInv
  <2>7. \A b \in Block : ~Logged(b) /\ (\A q \in Proc : buf[q] # b) => cache'[b] = home'[b]
    BY <2>2 DEF DataInv, TypeOK
  <2> QED
    BY <2>1, <2>4, <2>5, <2>6, <2>7 DEF DataInv, Logged
<1>9. ASSUME NEW p \in Proc, ClearHead(p)
      PROVE  DataInv'
  <2>0. \A q \in Proc : pc[q] \in InCommit => q = p
    BY <1>9 DEF ClearHead, CtlInv, CommitAlone, InCommit
  <2>1. /\ UNCHANGED <<home, dlog, cache, buf>> /\ tail = Len(lh) /\ up' /\ pc[p] = "install"
        /\ \A q \in Proc : pc'[q] \notin {"write_log", "install"}
    BY <1>9, <2>0 DEF ClearHead, InCommit, TypeOK
  <2>2. \A q \in Proc : buf[q] = None
    BY <2>1 DEF CtlInv, CommitAlone, InCommit
  <2>3. ASSUME NEW b \in Block
        PROVE  cache[b] = home[b]
    <3>1. CASE ~up
      BY <3>1 DEF DataInv
    <3>2. CASE up /\ Logged(b)
      BY <2>1, <3>2 DEF DataInv, Logged
    <3>3. CASE ~Logged(b)
      BY <2>2, <3>3, NoneAssumption DEF DataInv
    <3> QED
      BY <3>1, <3>2, <3>3
  <2> QED
    BY <2>1, <2>3 DEF DataInv
<1>10. ASSUME NEW p \in Proc, Finish(p)
      PROVE  DataInv'
  <2>1. /\ UNCHANGED <<home, dlog, dhead, cache, lh, up, buf, tail>>
        /\ \A q \in Proc : pc'[q] \in {"write_log", "install"} => pc[q] = pc'[q]
    BY <1>10 DEF Finish, WakeAndGoto
  <2> QED
    BY <2>1 DEF DataInv, Logged
<1>11. ASSUME NEW p \in Proc, ReadHead(p)
      PROVE  DataInv'
  <2>0. \A q \in Proc : pc[q] \in InCommit => q = p
    BY <1>11 DEF ReadHead, CtlInv, CommitAlone, InCommit
  <2>1. /\ UNCHANGED <<home, dlog, cache, up, buf, tail>> /\ ~up /\ tail = 0
        /\ \A q \in Proc : pc'[q] # "write_log"
    BY <1>11, <2>0 DEF ReadHead, InCommit, CtlInv, HeadInv
  <2> QED
    BY <2>1 DEF DataInv
<1>12. CASE UNCHANGED vars
  BY <1>12 DEF vars, DataInv, Logged
<1> QED
  BY <1>1, <1>2, <1>3, <1>4, <1>5, <1>6, <1>7, <1>8, <1>9, <1>10, <1>11, <1>12 DEF Next, Step

\* So DataInv holds in every reachable state.
LEMMA DataCorrect ==
  ASSUME EnoughLog
  PROVE  Spec => []DataInv
<1>1. Init => DataInv
  BY DEF Init, DataInv
<1>2. IInv /\ Room /\ DataInv /\ [Next]_vars => DataInv'
  BY DataStep DEF IInv
<1> QED
  BY <1>1, <1>2, Inductive, HasRoom, PTL DEF Spec

\* After commit() the home blocks hold what the cache holds, if the log is large
\* enough.
THEOREM Durable ==
  ASSUME EnoughLog
  PROVE  Spec => []CommitDurable
<1>1. IInv /\ DataInv => CommitDurable
  <2> SUFFICES ASSUME IInv, DataInv, NEW p \in Proc, pc[p] = "finish"
               PROVE  home = cache /\ dhead = <<>>
    BY DEF CommitDurable
  <2>1. \A q \in Proc : pc[q] \notin InOp /\ (pc[q] \in InCommit => q = p)
    BY DEF IInv, CtlInv, CommitAlone, InCommit
  <2>2. lh = <<>> /\ dhead = <<>>
    BY <2>1 DEF IInv, HeadInv, InCommit
  <2>3. \A q \in Proc : buf[q] = None
    BY <2>1 DEF IInv, CtlInv, InOp
  <2>4. \A b \in Block : cache[b] = home[b]
    BY <2>2, <2>3, NoneAssumption DEF DataInv, Logged
  <2> QED
    BY <2>2, <2>4 DEF IInv, TypeOK
<1> QED
  BY <1>1, Inductive, DataCorrect, PTL

-----------------------------------------------------------------------------
(* log.c implements AtomicDisk *)

\* No block twice in a header.
Distinct(s) == \A i, j \in 1 .. Len(s) : s[i] = s[j] => i = j

\* f is made of log blocks d where the header s says so, and of home blocks h.
Reads(f, h, d, s) ==
  /\ f = [b \in Block |-> f[b]]
  /\ \A i \in 1 .. Len(s) : f[s[i]] = d[i]
  /\ \A b \in Block : (\A i \in 1 .. Len(s) : s[i] # b) => f[b] = h[b]

\* The contents of the blocks after recovery.
LEMMA RecoveredAt ==
  ASSUME NEW h \in [Block -> Val], NEW d \in [1 .. LogSize - 1 -> Val], NEW s \in Seq(Block),
         Distinct(s)
  PROVE  Reads(Recovered(h, d, s), h, d, s)
<1>1. ASSUME NEW i \in 1 .. Len(s)
      PROVE  Recovered(h, d, s)[s[i]] = d[i]
  <2>1. (CHOOSE j \in 1 .. Len(s) : s[j] = s[i]) = i
    BY DEF Distinct
  <2>2. s[i] \in Block
    OBVIOUS
  <2> QED
    BY <2>1, <2>2, Zenon DEF Recovered
<1>2. ASSUME NEW b \in Block, \A i \in 1 .. Len(s) : s[i] # b
      PROVE  Recovered(h, d, s)[b] = h[b]
  BY <1>2 DEF Recovered
<1>3. Recovered(h, d, s) = [b \in Block |-> Recovered(h, d, s)[b]]
  BY DEF Recovered
<1> QED
  BY <1>1, <1>2, <1>3 DEF Reads

\* These facts determine it.
LEMMA RecoveredIs ==
  ASSUME NEW h \in [Block -> Val], NEW d \in [1 .. LogSize - 1 -> Val], NEW s \in Seq(Block),
         Distinct(s), NEW f, Reads(f, h, d, s)
  PROVE  Recovered(h, d, s) = f
<1> DEFINE g == Recovered(h, d, s)
<1>0. Reads(g, h, d, s)
  BY RecoveredAt
<1> HIDE DEF g
<1>1. ASSUME NEW b \in Block
      PROVE  g[b] = f[b]
  <2>1. CASE \E i \in 1 .. Len(s) : s[i] = b
    BY <1>0, <2>1 DEF Reads
  <2>2. CASE \A i \in 1 .. Len(s) : s[i] # b
    BY <1>0, <2>2 DEF Reads
  <2> QED
    BY <2>1, <2>2
<1>2. g = [b \in Block |-> g[b]] /\ f = [b \in Block |-> f[b]]
  BY <1>0 DEF Reads
<1>3. g = f
  BY <1>1, <1>2, Zenon
<1> QED
  BY <1>3 DEF g

\* An empty header leaves the home blocks alone.
LEMMA RecoveredEmpty ==
  ASSUME NEW h \in [Block -> Val], NEW d \in [1 .. LogSize - 1 -> Val]
  PROVE  Recovered(h, d, <<>>) = h
  BY DEF Recovered

\* Every step of log.c is a step of AtomicDisk or does not change what it shows.
LEMMA RefineStep ==
  ASSUME TypeOK, CtlInv, HeadInv, Room, DataInv, TypeOK', [Next]_vars
  PROVE  [AD!Next]_AD!vars
<1> USE DEF disk, Goto, InOp
<1>1. ASSUME Crash
      PROVE  [AD!Next]_AD!vars
  <2>1. UNCHANGED <<home, dlog, dhead>> /\ ~up'
    BY <1>1 DEF Crash
  <2>2. Active' = {}
    BY <1>1 DEF Crash, Active
  <2>3. AD!Crash
    BY <2>1, <2>2 DEF AD!Crash, Overlay, Active
  <2> QED
    BY <2>3 DEF AD!Next
<1>2. ASSUME NEW p \in Proc, BeginOp(p)
      PROVE  [AD!Next]_AD!vars
  <2>1. UNCHANGED <<home, dlog, dhead, cache, up>>
    BY <1>2 DEF BeginOp
  <2>2. CASE MustWait
    <3>1. Active' = Active
      BY <1>2, <2>2 DEF BeginOp, Active, TypeOK
    <3> QED
      BY <2>1, <3>1 DEF AD!vars, Overlay, Active
  <2>3. CASE ~MustWait
    <3>1. Active' = Active \cup {p} /\ p \notin Active
      BY <1>2, <2>3 DEF BeginOp, Active, TypeOK
    <3>2. AD!Begin(p)
      BY <2>1, <3>1 DEF AD!Begin, Overlay, Active
    <3> QED
      BY <3>2 DEF AD!Next
  <2> QED
    BY <2>2, <2>3
<1>3. ASSUME NEW p \in Proc, NEW b \in Block, NEW v \in Val, Modify(p, b, v)
      PROVE  [AD!Next]_AD!vars
  <2>1. UNCHANGED <<home, dlog, dhead, up>> /\ cache' = [cache EXCEPT ![b] = v] /\ up
    BY <1>3 DEF Modify, CtlInv, CommitAlone, InCommit
  <2>2. Active' = Active /\ p \in Active
    BY <1>3 DEF Modify, Active
  <2>3. AD!Write(p, b, v)
    BY <2>1, <2>2 DEF AD!Write, Overlay, Active
  <2> QED
    BY <2>3 DEF AD!Next
<1>4. ASSUME NEW p \in Proc, LogWrite(p)
      PROVE  [AD!Next]_AD!vars
  <2>1. UNCHANGED <<home, dlog, dhead, cache, up>>
    BY <1>4 DEF LogWrite
  <2>2. Active' = Active
    BY <1>4 DEF LogWrite, Active
  <2> QED
    BY <2>1, <2>2 DEF AD!vars, Overlay, Active
<1>5. ASSUME NEW p \in Proc, EndOp(p)
      PROVE  [AD!Next]_AD!vars
  <2>1. UNCHANGED <<home, dlog, dhead, cache, up>> /\ ~committing
    BY <1>5 DEF EndOp, CtlInv, CommitAlone
  <2>2. Active' = Active \ {p}
    BY <1>5, <2>1 DEF EndOp, WakeAndGoto, Active, TypeOK
  <2>3. AD!End(p)
    BY <2>1, <2>2 DEF AD!End, Overlay, Active
  <2> QED
    BY <2>3 DEF AD!Next
<1>6. ASSUME NEW p \in Proc, WriteLog(p)
      PROVE  [AD!Next]_AD!vars
  <2>1. UNCHANGED <<home, dhead, cache, up, pc>> /\ pc[p] = "write_log"
    BY <1>6, WritesInLog DEF WriteLog
  <2>2. dhead = <<>>
    BY <2>1 DEF CtlInv, CommitAlone, InCommit, HeadInv
  <2>3. Overlay = home
    BY <2>2, RecoveredEmpty DEF Overlay, TypeOK
  <2>4. Recovered(home', dlog', <<>>) = home'
    BY RecoveredEmpty, Zenon DEF TypeOK
  <2>5. Overlay' = Overlay
    BY <2>1, <2>2, <2>3, <2>4 DEF Overlay
  <2> QED
    BY <2>1, <2>5 DEF AD!vars
<1>7. ASSUME NEW p \in Proc, WriteHead(p)
      PROVE  [AD!Next]_AD!vars
  <2>1. /\ UNCHANGED <<home, dlog, cache, up>> /\ pc[p] = "write_log" /\ up
        /\ tail = Len(lh) /\ dhead' = lh
    BY <1>7 DEF WriteHead, CtlInv
  <2>2. Active = {} /\ \A q \in Proc : buf[q] = None
    BY <2>1 DEF CtlInv, CommitAlone, InCommit, Active
  <2>3. Active' = {}
    BY <1>7, <2>2 DEF WriteHead, Active, TypeOK
  <2>4. Recovered(home, dlog, lh) = cache
    <3>1. /\ home \in [Block -> Val] /\ dlog \in [1 .. LogSize - 1 -> Val] /\ lh \in Seq(Block)
          /\ cache = [b \in Block |-> cache[b]]
          /\ Distinct(lh)
      BY DEF TypeOK, HeadInv, Distinct
    <3>2. \A i \in 1 .. Len(lh) : cache[lh[i]] = dlog[i]
      BY <2>1 DEF DataInv
    <3>3. \A b \in Block : (\A i \in 1 .. Len(lh) : lh[i] # b) => cache[b] = home[b]
      BY <2>2, NoneAssumption DEF DataInv, Logged
    <3>4. Reads(cache, home, dlog, lh)
      BY <3>1, <3>2, <3>3 DEF Reads
    <3> QED
      BY <3>1, <3>4, RecoveredIs
  <2>5. AD!Commit
    BY <2>1, <2>2, <2>3, <2>4 DEF AD!Commit, Overlay, Active
  <2> QED
    BY <2>5 DEF AD!Next
<1>8. ASSUME NEW p \in Proc, InstallTrans(p)
      PROVE  [AD!Next]_AD!vars
  <2> DEFINE t == tail + 1
  <2>1. /\ UNCHANGED <<dlog, dhead, up, pc>> /\ pc[p] = "install" /\ dhead = lh
        /\ t \in 1 .. Len(lh) /\ lh[t] \in Block
        /\ home' = [home EXCEPT ![lh[t]] = dlog[t]]
        /\ cache' = [cache EXCEPT ![lh[t]] = dlog[t]]
    <3>1. /\ UNCHANGED <<dlog, dhead, up, pc>> /\ pc[p] = "install" /\ dhead = lh
          /\ t \in 1 .. Len(lh)
      BY <1>8 DEF InstallTrans, HeadInv, TypeOK
    <3>2. /\ lh[t] \in Block
          /\ home' = [home EXCEPT ![lh[t]] = dlog[t]]
          /\ cache' = [cache EXCEPT ![lh[t]] = dlog[t]]
      BY <1>8, InstallsFromLog
    <3> QED
      BY <3>1, <3>2
  <2>2. /\ home \in [Block -> Val] /\ dlog \in [1 .. LogSize - 1 -> Val] /\ lh \in Seq(Block)
        /\ cache \in [Block -> Val] /\ home' \in [Block -> Val]
        /\ Distinct(lh)
    BY DEF TypeOK, HeadInv, Distinct
  <2> DEFINE f == Recovered(home, dlog, lh)
  <2>3. Reads(f, home, dlog, lh)
    BY <2>2, RecoveredAt
  <2> HIDE DEF f
  <2>4. Reads(f, home', dlog, lh)
    BY <2>1, <2>2, <2>3 DEF Reads
  <2>5. Recovered(home', dlog, lh) = f
    BY <2>2, <2>4, RecoveredIs
  <2>6. Overlay' = Overlay
    BY <2>1, <2>5 DEF Overlay, f
  <2>7. up => cache' = cache
    <3>1. up => cache[lh[t]] = dlog[t]
      BY <2>1 DEF DataInv
    <3> QED
      BY <2>1, <2>2, <3>1
  <2> QED
    BY <2>1, <2>6, <2>7, Zenon DEF AD!vars
<1>9. ASSUME NEW p \in Proc, ClearHead(p)
      PROVE  [AD!Next]_AD!vars
  <2>1. /\ UNCHANGED <<home, dlog, cache>> /\ pc[p] = "install" /\ dhead = lh /\ tail = Len(lh)
        /\ up' /\ dhead' = <<>>
    BY <1>9 DEF ClearHead, HeadInv
  <2>2. /\ home \in [Block -> Val] /\ dlog \in [1 .. LogSize - 1 -> Val] /\ lh \in Seq(Block)
        /\ home = [b \in Block |-> home[b]]
        /\ Distinct(lh)
    BY DEF TypeOK, HeadInv, Distinct
  <2>3. \A i \in 1 .. Len(lh) : home[lh[i]] = dlog[i]
    BY <2>1 DEF DataInv
  <2>4. Overlay = home
    <3>1. Reads(home, home, dlog, lh)
      BY <2>2, <2>3 DEF Reads
    <3>2. Recovered(home, dlog, lh) = home
      BY <2>2, <3>1, RecoveredIs
    <3> QED
      BY <2>1, <3>2 DEF Overlay
  <2>5. Overlay' = home
    BY <2>1, <2>2, RecoveredEmpty DEF Overlay
  <2>6. ~up => cache = home
    BY DEF DataInv
  <2>7. Active' = Active
    BY <1>9 DEF ClearHead, Active, TypeOK
  <2> QED
    BY <2>1, <2>4, <2>5, <2>6, <2>7 DEF AD!vars, Active
<1>10. ASSUME NEW p \in Proc, Finish(p)
      PROVE  [AD!Next]_AD!vars
  <2>1. UNCHANGED <<home, dlog, dhead, cache, up>>
    BY <1>10 DEF Finish
  <2>2. Active' = Active
    BY <1>10 DEF Finish, WakeAndGoto, Active
  <2> QED
    BY <2>1, <2>2 DEF AD!vars, Overlay, Active
<1>11. ASSUME NEW p \in Proc, ReadHead(p)
      PROVE  [AD!Next]_AD!vars
  <2>1. UNCHANGED <<home, dlog, dhead, cache, up>>
    BY <1>11 DEF ReadHead
  <2>2. Active' = Active
    BY <1>11 DEF ReadHead, Active
  <2> QED
    BY <2>1, <2>2 DEF AD!vars, Overlay, Active
<1>12. CASE UNCHANGED vars
  BY <1>12 DEF vars, AD!vars, Overlay
<1> QED
  BY <1>1, <1>2, <1>3, <1>4, <1>5, <1>6, <1>7, <1>8, <1>9, <1>10, <1>11, <1>12 DEF Next, Step

\* A disk fresh from mkfs is an initial state of AtomicDisk.
LEMMA RefineInit == Init => AD!Init
<1> SUFFICES ASSUME Init
             PROVE  AD!Init
  OBVIOUS
<1>1. TypeOK
  BY InitIInv DEF IInv
<1>2. Overlay = home
  BY <1>1, RecoveredEmpty DEF Init, Overlay, TypeOK
<1> QED
  BY <1>2 DEF Init, AD!Init, InOp

\* log.c implements AtomicDisk, for any number of processes and blocks, if the log
\* on the disk is large enough for the transactions: a crash at any moment, even
\* during recovery, leaves the effects of whole operations.
THEOREM CrashAtomic ==
  ASSUME EnoughLog
  PROVE  Spec => Atomic
<1>1. IInv /\ IInv' /\ Room /\ DataInv /\ [Next]_vars => [AD!Next]_AD!vars
  BY RefineStep DEF IInv
<1> QED
  BY <1>1, RefineInit, Inductive, HasRoom, DataCorrect, PTL DEF Spec, AD!Spec, Atomic
=============================================================================
