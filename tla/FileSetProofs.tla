---------------------------- MODULE FileSetProofs ----------------------------
(***************************************************************************)
(* Proofs about FileSet for any number of goroutines, files and positions. *)
(* None of the invariants the runs check is inductive.  What makes them    *)
(* hold is IInv: the lock really excludes (LockInv), every file ever added *)
(* lies below base and disjoint from the others (AddedInv), the files are  *)
(* sorted (SortedInv), and the locals of a call in progress mean what the  *)
(* code takes them to mean (AddInv, RemoveInv, LookInv, IterInv), in the   *)
(* fast path on the strength of AddedInv alone.  The same invariant shows  *)
(* that FileSet implements FileSetAbs.  VisitInv, at the end, says what an *)
(* iteration may skip when files are removed while it runs, as its         *)
(* callback may do.                                                        *)
(***************************************************************************)
EXTENDS FileSet, SequenceTheorems, FiniteSetTheorems, TLAPS

Move(g) == Call(g) \/ Acquire(g) \/ Step(g)

WriteHeld ==
    {"AddFile.check", "AddFile.insert", "AddFile.store", "AddFile.unlock",
     "AddFile.panic", "RemoveFile.search", "RemoveFile.splice",
     "RemoveFile.unlock"}

ReadHeld ==
    {"file.search", "file.get", "file.RUnlock", "Iterate.get", "Iterate.RUnlock"}

Adding == {"AddFile.Lock", "AddFile.check", "AddFile.insert"}

LockInv ==
    /\ \A g \in Goroutine : pc[g] \in WriteHeld => writer = g
    /\ \A g \in Goroutine : pc[g] \in ReadHeld => g \in readers
    /\ writer # NoGoroutine => readers = {}

\* h ends before k starts.
Below(h, k) == fbase[h] + fsize[h] < fbase[k]

AddedInv ==
    /\ base \in 1 .. MaxInt
    /\ \A h \in File : fsize[h] \in -1 .. MaxInt
    /\ added \subseteq allocated
    /\ last \in added \cup {NoFile}
    /\ \A h \in added :
          /\ fbase[h] >= 1
          /\ fsize[h] >= 0
          /\ fbase[h] + fsize[h] < base
    /\ \A h, k \in added : h = k \/ Below(h, k) \/ Below(k, h)

SortedInv ==
    /\ \A k \in 1 .. Len(files) : files[k] \in added
    /\ \A j, k \in 1 .. Len(files) : j < k => Below(files[j], files[k])

AddInv ==
    \A g \in Goroutine :
        /\ pc[g] \in Adding =>
              /\ f[g] \in allocated \ added
              /\ x[g] \in -1 .. MaxInt
              /\ \A d \in Goroutine :
                    pc[d] \in Adding /\ f[d] = f[g] => d = g
        /\ pc[g] = "AddFile.insert" =>
              /\ fbase[f[g]] >= base
              /\ fsize[f[g]] >= 0
              /\ x[g] = fbase[f[g]] + fsize[f[g]] + 1
        /\ pc[g] = "AddFile.store" => f[g] \in added

RemoveInv ==
    \A g \in Goroutine :
        /\ pc[g] \in {"RemoveFile.CAS", "RemoveFile.Lock", "RemoveFile.search",
                       "RemoveFile.splice", "RemoveFile.unlock"}
              => f[g] \in File
        /\ pc[g] = "RemoveFile.splice" =>
              /\ i[g] \in 1 .. Len(files)
              /\ files[i[g]] = f[g]

\* stable[g] is what it is called, and a look-up has the right answer.
LookInv ==
    \A g \in Goroutine :
        /\ stable[g] \subseteq Members
        /\ pc[g] \in {"idle", "file.load", "file.RLock", "file.search", "file.get"}
              => f[g] = NoFile
        /\ pc[g] = "file.get" =>
              /\ i[g] \in 1 .. Len(files)
              /\ IsFound(i[g], x[g])
        /\ pc[g] \in {"file.RUnlock", "file.done"} =>
              /\ f[g] # NoFile => f[g] \in added /\ x[g] \in Interval(f[g])
              /\ f[g] = NoFile => \A h \in stable[g] : x[g] \notin Interval(h)

IterInv ==
    \A g \in Goroutine :
        /\ pc[g] \in {"Iterate.RLock", "Iterate.get"} =>
              /\ i[g] >= 1
              /\ \A h \in seen[g] : \A k \in 1 .. Len(files) :
                    k >= i[g] => fbase[h] < fbase[files[k]]
        /\ pc[g] \in {"Iterate.RUnlock", "Iterate.call"} /\ f[g] # NoFile =>
              /\ i[g] >= 1
              /\ f[g] \in added
              /\ \A h \in seen[g] : fbase[h] < fbase[f[g]]
              /\ \A k \in 1 .. Len(files) : k > i[g] => fbase[f[g]] < fbase[files[k]]
        /\ pc[g] = "Iterate.call" => f[g] # NoFile
        /\ seen[g] \subseteq added
        /\ pc[g] = "idle" => seen[g] = {}

IInv ==
    /\ TypeOK
    /\ LockInv
    /\ AddedInv
    /\ SortedInv
    /\ AddInv
    /\ RemoveInv
    /\ LookInv
    /\ IterInv

-----------------------------------------------------------------------------
\* Removing an element from a sequence of files leaves a sequence of files.
LEMMA RemoveAtType ==
    ASSUME NEW s \in Seq(File), NEW k \in 1 .. Len(s)
    PROVE  /\ RemoveAt(s, k) \in Seq(File)
           /\ Len(RemoveAt(s, k)) = Len(s) - 1
           /\ \A j \in 1 .. Len(s) - 1 :
                 RemoveAt(s, k)[j] = IF j < k THEN s[j] ELSE s[j + 1]
<1> DEFINE l == SubSeq(s, 1, k - 1)
           r == SubSeq(s, k + 1, Len(s))
<1>1. /\ l \in Seq(File) /\ Len(l) = k - 1
      /\ \A j \in 1 .. k - 1 : l[j] = s[j]
  OBVIOUS
<1>2. /\ r \in Seq(File) /\ Len(r) = Len(s) - k
      /\ \A j \in 1 .. Len(s) - k : r[j] = s[k + j]
  OBVIOUS
<1> HIDE DEF l, r
<1>3. /\ l \o r \in Seq(File) /\ Len(l \o r) = Len(s) - 1
      /\ \A j \in 1 .. Len(s) - 1 :
            (l \o r)[j] = IF j < k THEN s[j] ELSE s[j + 1]
  <2>1. /\ l \o r \in Seq(File)
        /\ Len(l \o r) = Len(l) + Len(r)
        /\ \A j \in 1 .. Len(l) + Len(r) :
              (l \o r)[j] = IF j <= Len(l) THEN l[j] ELSE r[j - Len(l)]
    BY <1>1, <1>2, ConcatProperties, Zenon
  <2> QED
    BY <1>1, <1>2, <2>1
<1> QED
  BY <1>3 DEF RemoveAt, l, r

\* The statement a goroutine goes to is one of the code.
LEMMA GotoType ==
    ASSUME NEW g \in Goroutine, NEW l \in Statement,
           pc \in [Goroutine -> Statement], Goto(g, l)
    PROVE  pc' \in [Goroutine -> Statement]
  BY DEF Goto

\* Every name of a statement is in Statement.
LEMMA StatementNames ==
    /\ {"idle", "AddFile.Lock", "AddFile.check", "AddFile.insert",
        "AddFile.store", "AddFile.unlock", "AddFile.panic"} \subseteq Statement
    /\ {"RemoveFile.CAS", "RemoveFile.Lock", "RemoveFile.search",
        "RemoveFile.splice", "RemoveFile.unlock"} \subseteq Statement
    /\ {"file.load", "file.RLock", "file.search", "file.get", "file.RUnlock",
        "file.done"} \subseteq Statement
    /\ {"Iterate.RLock", "Iterate.get", "Iterate.RUnlock", "Iterate.call",
        "Iterate.stop", "Iterate.end"} \subseteq Statement
  BY DEF Statement, Iterating

\* The initial state satisfies the invariant.
LEMMA InitIInv == Init => IInv
<1> SUFFICES ASSUME Init PROVE IInv
  OBVIOUS
<1> USE ConstantsAssumption DEF Init
<1>1. SharedTypeOK /\ LockTypeOK
  BY DEF SharedTypeOK, LockTypeOK
<1>10. CallTypeOK
  BY StatementNames DEF CallTypeOK
<1>11. HistoryTypeOK
  BY DEF HistoryTypeOK
<1>2. LockInv
  BY DEF LockInv, WriteHeld, ReadHeld
<1>3. AddedInv
  BY DEF AddedInv
<1>4. SortedInv
  BY DEF SortedInv
<1>5. AddInv /\ RemoveInv
  BY DEF AddInv, RemoveInv, Adding
<1>6. LookInv
  BY DEF LookInv
<1>7. IterInv
  BY DEF IterInv
<1> QED
  BY <1>1, <1>2, <1>3, <1>4, <1>5, <1>6, <1>7, <1>10, <1>11 DEF IInv, TypeOK

\* Every step of a goroutine goes to some statement of that goroutine.
LEMMA StepGoes ==
    ASSUME NEW g \in Goroutine, Move(g)
    PROVE  \E l \in Statement : Goto(g, l)
<1> USE StatementNames DEF Begin, Return
<1>1. CASE Call(g)
  BY <1>1 DEF Call, AddFile, RemoveFile, LookUp, Iterate
<1>2. CASE Acquire(g)
  BY <1>2 DEF Acquire, AddFileLock, RemoveFileLock, LookUpRLock, IterateRLock
<1>3. CASE AddFileCheck(g) \/ AddFileInsert(g) \/ AddFileStore(g) \/ AddFileUnlock(g)
  BY <1>3 DEF AddFileCheck, AddFileInsert, AddFileStore, AddFileUnlock
<1>4. CASE RemoveFileCAS(g) \/ RemoveFileSearch(g) \/ RemoveFileSplice(g) \/ RemoveFileUnlock(g)
  BY <1>4 DEF RemoveFileCAS, RemoveFileSearch, RemoveFileSplice, RemoveFileUnlock
<1>5. CASE LookUpLoad(g) \/ LookUpSearch(g) \/ LookUpGet(g) \/ LookUpRUnlock(g) \/ LookUpReturn(g)
  BY <1>5 DEF LookUpLoad, LookUpSearch, LookUpGet, LookUpRUnlock, LookUpReturn
<1>6. CASE IterateGet(g) \/ IterateRUnlock(g) \/ IterateCall(g) \/ IterateReturn(g)
  BY <1>6 DEF IterateGet, IterateRUnlock, IterateCall, IterateReturn
<1> QED
  BY <1>1, <1>2, <1>3, <1>4, <1>5, <1>6 DEF Move, Step

\* What a step does to the locals f, x and i of its goroutine.
LEMMA StepLocals ==
    ASSUME NEW g \in Goroutine, Move(g), SharedTypeOK, CallTypeOK, AddInv, LookInv, IterInv
    PROVE  /\ f' = f \/ \E h \in File \cup {NoFile} : f' = [f EXCEPT ![g] = h]
           /\ x' = x \/ \E n \in Int : x' = [x EXCEPT ![g] = n]
           /\ i' = i \/ \E n \in Nat : i' = [i EXCEPT ![g] = n]
<1> USE ConstantsAssumption DEF Begin, Return
<1>1. CASE Call(g)
  <2>1. ASSUME NEW h \in File, NEW b \in BaseArg, NEW n \in Size, AddFile(g, h, b, n)
        PROVE  /\ f' = [f EXCEPT ![g] = h]
               /\ x' = [x EXCEPT ![g] = b]
               /\ i' = i
    BY <2>1 DEF AddFile
  <2>2. ASSUME NEW h \in File, RemoveFile(g, h)
        PROVE  f' = [f EXCEPT ![g] = h] /\ x' = x /\ i' = i
    BY <2>2 DEF RemoveFile
  <2>3. ASSUME NEW p \in Pos, LookUp(g, p)
        PROVE  x' = [x EXCEPT ![g] = p] /\ f' = f /\ i' = i
    BY <2>3 DEF LookUp
  <2>4. CASE Iterate(g)
    BY <2>4 DEF Iterate
  <2> QED
    BY <1>1, <2>1, <2>2, <2>3, <2>4 DEF Call
<1>2. CASE Acquire(g)
  BY <1>2 DEF Acquire, AddFileLock, RemoveFileLock, LookUpRLock, IterateRLock
<1>3. CASE AddFileCheck(g)
  <2>1. f[g] \in File /\ x[g] \in Int
    BY <1>3 DEF AddFileCheck, AddInv, Adding, SharedTypeOK
  <2>2. base \in Int /\ fsize[f[g]] \in Int
    BY <2>1 DEF SharedTypeOK
  <2>3. Wrap(base + Wrap(fsize[f[g]] + 1)) \in Int
        /\ Wrap(x[g] + Wrap(fsize[f[g]] + 1)) \in Int
    BY <2>1, <2>2 DEF Wrap
  <2> QED
    BY <1>3, <2>1, <2>3 DEF AddFileCheck
<1>4. CASE AddFileInsert(g) \/ AddFileStore(g) \/ AddFileUnlock(g)
  BY <1>4 DEF AddFileInsert, AddFileStore, AddFileUnlock
<1>5. CASE RemoveFileCAS(g) \/ RemoveFileSplice(g) \/ RemoveFileUnlock(g)
  BY <1>5 DEF RemoveFileCAS, RemoveFileSplice, RemoveFileUnlock
<1>6. CASE RemoveFileSearch(g)
  <2>1. PICK k \in 0 .. Len(files) : i' = [i EXCEPT ![g] = k]
    BY <1>6 DEF RemoveFileSearch
  <2>2. k \in Nat
    OBVIOUS
  <2> QED
    BY <1>6, <2>1, <2>2 DEF RemoveFileSearch
<1>7. CASE LookUpLoad(g)
  BY <1>7 DEF LookUpLoad, SharedTypeOK
<1>8. CASE LookUpSearch(g) \/ LookUpRUnlock(g) \/ LookUpReturn(g)
  BY <1>8 DEF LookUpSearch, LookUpRUnlock, LookUpReturn
<1>9. CASE LookUpGet(g)
  <2>1. files[i[g]] \in File
    BY <1>9 DEF LookUpGet, LookInv, SharedTypeOK
  <2> QED
    BY <1>9, <2>1 DEF LookUpGet
<1>10. CASE IterateGet(g)
  <2>1. i[g] <= Len(files) => files[i[g]] \in File
    BY <1>10 DEF IterateGet, IterInv, SharedTypeOK, CallTypeOK
  <2> QED
    BY <1>10, <2>1 DEF IterateGet
<1>11. CASE IterateRUnlock(g) \/ IterateCall(g) \/ IterateReturn(g)
  <2>1. i[g] + 1 \in Nat
    BY DEF CallTypeOK
  <2> QED
    BY <1>11, <2>1 DEF IterateRUnlock, IterateCall, IterateReturn
<1> QED
  BY <1>1, <1>2, <1>3, <1>4, <1>5, <1>6, <1>7, <1>8, <1>9, <1>10, <1>11 DEF Move, Step

\* Every step keeps the locals of the calls in their types.
LEMMA CallTypeStep ==
    ASSUME NEW g \in Goroutine, Move(g), SharedTypeOK, CallTypeOK, AddInv, LookInv, IterInv
    PROVE  CallTypeOK'
<1>1. pc' \in [Goroutine -> Statement]
  BY StepGoes, GotoType DEF CallTypeOK
<1>2. f' \in [Goroutine -> File \cup {NoFile}]
  BY StepLocals DEF CallTypeOK
<1>3. x' \in [Goroutine -> Int]
  BY StepLocals DEF CallTypeOK
<1>4. i' \in [Goroutine -> Nat]
  BY StepLocals DEF CallTypeOK
<1> QED
  BY <1>1, <1>2, <1>3, <1>4 DEF CallTypeOK

\* A step leaves the statement and the locals of the other goroutines alone.
LEMMA Others ==
    ASSUME NEW g \in Goroutine, Move(g), SharedTypeOK, CallTypeOK, AddInv, LookInv, IterInv,
           NEW d \in Goroutine, d # g
    PROVE  pc'[d] = pc[d] /\ f'[d] = f[d] /\ x'[d] = x[d] /\ i'[d] = i[d]
<1>1. pc'[d] = pc[d]
  BY StepGoes DEF CallTypeOK, Goto
<1>2. f'[d] = f[d] /\ x'[d] = x[d] /\ i'[d] = i[d]
  BY StepLocals DEF CallTypeOK
<1> QED
  BY <1>1, <1>2

\* What each step does to files, base, last, added and the files' fields:
\* only AddFile and RemoveFile change them, and only under the write lock,
\* but for allocation and for the cache.
LEMMA SharedStep ==
    ASSUME NEW g \in Goroutine, Move(g)
    PROVE  \/ \E h \in File, b \in BaseArg, n \in Size : AddFile(g, h, b, n)
           \/ AddFileCheck(g)
           \/ AddFileInsert(g)
           \/ RemoveFileSplice(g)
           \/ /\ UNCHANGED <<base, files, fbase, fsize, allocated, added>>
              /\ \/ UNCHANGED last
                 \/ AddFileStore(g)
                 \/ RemoveFileCAS(g)
                 \/ LookUpGet(g)
<1> USE DEF setVars, history, Begin
<1>1. CASE Call(g)
  BY <1>1 DEF Call, RemoveFile, LookUp, Iterate
<1>2. CASE Acquire(g)
  BY <1>2 DEF Acquire, AddFileLock, RemoveFileLock, LookUpRLock, IterateRLock
<1>3. CASE AddFileStore(g) \/ AddFileUnlock(g)
  BY <1>3 DEF AddFileStore, AddFileUnlock
<1>4. CASE RemoveFileCAS(g) \/ RemoveFileSearch(g) \/ RemoveFileUnlock(g)
  BY <1>4 DEF RemoveFileCAS, RemoveFileSearch, RemoveFileUnlock
<1>5. CASE LookUpLoad(g) \/ LookUpSearch(g) \/ LookUpGet(g) \/ LookUpRUnlock(g) \/ LookUpReturn(g)
  BY <1>5 DEF LookUpLoad, LookUpSearch, LookUpGet, LookUpRUnlock, LookUpReturn
<1>6. CASE IterateGet(g) \/ IterateRUnlock(g) \/ IterateCall(g) \/ IterateReturn(g)
  BY <1>6 DEF IterateGet, IterateRUnlock, IterateCall, IterateReturn
<1> QED
  BY <1>1, <1>2, <1>3, <1>4, <1>5, <1>6 DEF Move, Step

\* The file of a call that has allocated one, or that works on one.
LEMMA FilesInHand ==
    ASSUME IInv, NEW g \in Goroutine
    PROVE  /\ pc[g] \in Adding => f[g] \in File /\ f[g] \notin added
           /\ pc[g] = "AddFile.store" => f[g] \in File
           /\ pc[g] \in {"RemoveFile.CAS", "RemoveFile.Lock", "RemoveFile.search",
                         "RemoveFile.splice", "RemoveFile.unlock"} => f[g] \in File
           /\ pc[g] = "file.get" => i[g] \in 1 .. Len(files) /\ files[i[g]] \in File
           /\ pc[g] = "Iterate.call" => f[g] \in File
<1> USE DEF IInv, TypeOK
<1>1. /\ pc[g] \in Adding => f[g] \in File /\ f[g] \notin added
      /\ pc[g] = "AddFile.store" => f[g] \in File
  BY DEF AddInv, SharedTypeOK, HistoryTypeOK
<1>2. pc[g] \in {"RemoveFile.CAS", "RemoveFile.Lock", "RemoveFile.search",
                 "RemoveFile.splice", "RemoveFile.unlock"} => f[g] \in File
  BY DEF RemoveInv
<1>3. pc[g] = "file.get" => i[g] \in 1 .. Len(files) /\ files[i[g]] \in File
  BY DEF LookInv, SharedTypeOK
<1>4. pc[g] = "Iterate.call" => f[g] \in File
  BY DEF IterInv, CallTypeOK
<1> QED
  BY <1>1, <1>2, <1>3, <1>4

\* Every step keeps the fields of FileSet and of its files in their types.
LEMMA SharedTypeStep ==
    ASSUME IInv, NEW g \in Goroutine, Move(g)
    PROVE  SharedTypeOK'
<1> USE ConstantsAssumption, FilesInHand DEF IInv, TypeOK
<1>1. ASSUME NEW h \in File, NEW b \in BaseArg, NEW n \in Size, AddFile(g, h, b, n)
      PROVE  SharedTypeOK'
  BY <1>1 DEF AddFile, SharedTypeOK
<1>2. CASE AddFileCheck(g)
  <2>1. f[g] \in File /\ x[g] \in Int /\ base \in Int
    BY <1>2 DEF AddFileCheck, AddInv, Adding, SharedTypeOK
  <2>2. fbase' = fbase \/ \E b \in Int : fbase' = [fbase EXCEPT ![f[g]] = b]
    BY <1>2, <2>1 DEF AddFileCheck
  <2>3. fbase' \in [File -> Int]
    BY <2>1, <2>2 DEF SharedTypeOK
  <2> QED
    BY <1>2, <2>3 DEF AddFileCheck, SharedTypeOK
<1>3. CASE AddFileInsert(g)
  <2>1. f[g] \in File /\ x[g] \in Int
    BY <1>3 DEF AddFileInsert, AddInv, Adding, SharedTypeOK
  <2>2. Append(files, f[g]) \in Seq(File)
    BY <2>1 DEF SharedTypeOK
  <2> QED
    BY <1>3, <2>1, <2>2 DEF AddFileInsert, SharedTypeOK
<1>4. CASE RemoveFileSplice(g)
  <2>1. i[g] \in 1 .. Len(files)
    BY <1>4 DEF RemoveFileSplice, RemoveInv
  <2>2. files' \in Seq(File)
    BY <1>4, <2>1, RemoveAtType DEF RemoveFileSplice, SharedTypeOK
  <2> QED
    BY <1>4, <2>2 DEF RemoveFileSplice, SharedTypeOK
<1>5. CASE UNCHANGED <<base, files, fbase, fsize, allocated, added>>
  <2>1. last' \in File \cup {NoFile}
    <3>1. CASE UNCHANGED last
      BY <3>1 DEF SharedTypeOK
    <3>2. CASE AddFileStore(g)
      BY <3>2 DEF AddFileStore
    <3>3. CASE RemoveFileCAS(g)
      BY <3>3 DEF RemoveFileCAS, SharedTypeOK
    <3>4. CASE LookUpGet(g)
      BY <3>4 DEF LookUpGet, SharedTypeOK
    <3>5. CASE \/ AddFileCheck(g) \/ AddFileInsert(g) \/ RemoveFileSplice(g)
               \/ \E h \in File, b \in BaseArg, n \in Size : AddFile(g, h, b, n)
      BY <3>5 DEF AddFileCheck, AddFileInsert, RemoveFileSplice, AddFile, SharedTypeOK
    <3> QED
      BY <3>1, <3>2, <3>3, <3>4, <3>5, SharedStep
  <2> QED
    BY <1>5, <2>1 DEF SharedTypeOK
<1> QED
  BY <1>1, <1>2, <1>3, <1>4, <1>5, SharedStep

\* Every step keeps the history variables in their types.
LEMMA HistoryTypeStep ==
    ASSUME IInv, NEW g \in Goroutine, Move(g)
    PROVE  HistoryTypeOK'
<1> USE FilesInHand DEF IInv, TypeOK, HistoryTypeOK, Begin, Return, history
<1>1. CASE Call(g)
  <2>1. Members \subseteq File
    BY DEF Members, Range, SharedTypeOK
  <2>2. UNCHANGED <<added, retired, lost, seen>>
    BY <1>1 DEF Call, AddFile, RemoveFile, LookUp, Iterate
  <2>4. within' \in [Goroutine -> SUBSET Goroutine]
    <3>1. within' = within
          \/ \E d \in Goroutine : within' = [within EXCEPT ![g] = within[d] \cup {d}]
      BY <1>1 DEF Call, AddFile, RemoveFile, LookUp, Iterate
    <3> QED
      BY <3>1
  <2>3. /\ stable' = [stable EXCEPT ![g] = Members]
        /\ gone' = [gone EXCEPT ![g] = retired]
    BY <1>1 DEF Call, AddFile, RemoveFile, LookUp, Iterate
  <2> QED
    BY <2>1, <2>2, <2>3, <2>4
<1>2. CASE Acquire(g)
  BY <1>2 DEF Acquire, AddFileLock, RemoveFileLock, LookUpRLock, IterateRLock
<1>3. CASE AddFileCheck(g) \/ AddFileStore(g) \/ AddFileUnlock(g)
  BY <1>3 DEF AddFileCheck, AddFileStore, AddFileUnlock
<1>4. CASE AddFileInsert(g)
  <2>1. f[g] \in File
    BY <1>4 DEF AddFileInsert, Adding
  <2> QED
    BY <1>4, <2>1 DEF AddFileInsert
<1>5. CASE RemoveFileCAS(g) \/ RemoveFileSearch(g)
  BY <1>5 DEF RemoveFileCAS, RemoveFileSearch
<1>6. CASE RemoveFileSplice(g)
  <2>1. f[g] \in File
    BY <1>6 DEF RemoveFileSplice
  <2> QED
    BY <1>6, <2>1 DEF RemoveFileSplice, Losing
<1>7. CASE RemoveFileUnlock(g)
  <2>1. f[g] \in File
    BY <1>7 DEF RemoveFileUnlock
  <2> QED
    BY <1>7, <2>1 DEF RemoveFileUnlock
<1>8. CASE LookUpLoad(g) \/ LookUpSearch(g) \/ LookUpGet(g)
  BY <1>8 DEF LookUpLoad, LookUpSearch, LookUpGet
<1>9. CASE LookUpRUnlock(g) \/ LookUpReturn(g) \/ IterateReturn(g)
  BY <1>9 DEF LookUpRUnlock, LookUpReturn, IterateReturn
<1>10. CASE IterateGet(g) \/ IterateRUnlock(g)
  BY <1>10 DEF IterateGet, IterateRUnlock
<1>11. CASE IterateCall(g)
  <2>1. f[g] \in File
    BY <1>11 DEF IterateCall
  <2> QED
    BY <1>11, <2>1 DEF IterateCall
<1> QED
  BY <1>1, <1>2, <1>3, <1>4, <1>5, <1>6, <1>7, <1>8, <1>9, <1>10, <1>11 DEF Move, Step

\* The lock has at most one writer, and no readers while it has one; only
\* its holders are in the critical sections.
LEMMA LockStep ==
    ASSUME IInv, NEW g \in Goroutine, Move(g)
    PROVE  LockTypeOK' /\ LockInv'
<1> DEFINE Held == WriteHeld \cup ReadHeld
<1>1. \A d \in Goroutine : d # g => pc'[d] = pc[d]
  BY Others DEF IInv, TypeOK
<1>2. \A l \in Statement : Goto(g, l) => pc'[g] = l
  BY DEF Goto, IInv, TypeOK, CallTypeOK
<1>3. LockTypeOK /\ LockInv
  BY DEF IInv, TypeOK
<1> USE ConstantsAssumption, StatementNames
<1>4. CASE AddFileLock(g) \/ RemoveFileLock(g)
  <2>1. /\ writer = NoGoroutine /\ readers = {}
        /\ writer' = g /\ readers' = {}
    BY <1>4 DEF AddFileLock, RemoveFileLock, Lock
  <2>2. pc'[g] \notin ReadHeld
    BY <1>4, <1>2 DEF AddFileLock, RemoveFileLock, ReadHeld
  <2> QED
    BY <1>1, <1>3, <2>1, <2>2 DEF LockInv, LockTypeOK
<1>5. CASE LookUpRLock(g) \/ IterateRLock(g)
  <2>1. /\ writer = NoGoroutine /\ writer' = writer
        /\ readers' = readers \cup {g}
    BY <1>5 DEF LookUpRLock, IterateRLock, RLock
  <2>2. pc'[g] \notin WriteHeld
    BY <1>5, <1>2 DEF LookUpRLock, IterateRLock, WriteHeld
  <2> QED
    BY <1>1, <1>3, <2>1, <2>2 DEF LockInv, LockTypeOK
<1>6. CASE AddFileUnlock(g) \/ RemoveFileUnlock(g)
  <2>1. writer' = NoGoroutine /\ readers' = readers /\ pc'[g] = "idle"
    BY <1>6, <1>2 DEF AddFileUnlock, RemoveFileUnlock, Return
  <2>2. pc[g] \in WriteHeld
    BY <1>6 DEF AddFileUnlock, RemoveFileUnlock, WriteHeld
  <2>3. \A d \in Goroutine : d # g => pc[d] \notin WriteHeld
    BY <1>3, <2>2 DEF LockInv
  <2> QED
    BY <1>1, <1>3, <2>1, <2>3 DEF LockInv, LockTypeOK, WriteHeld, ReadHeld
<1>7. CASE LookUpRUnlock(g) \/ IterateRUnlock(g)
  <2>1. writer' = writer /\ readers' = readers \ {g}
    BY <1>7 DEF LookUpRUnlock, IterateRUnlock, RUnlock
  <2>2. pc'[g] \in {"file.done", "Iterate.end", "Iterate.call"}
    BY <1>7, <1>2 DEF LookUpRUnlock, IterateRUnlock
  <2> QED
    BY <1>1, <1>3, <2>1, <2>2 DEF LockInv, LockTypeOK, WriteHeld, ReadHeld
<1>8. CASE /\ UNCHANGED <<writer, readers>>
           /\ pc'[g] \in WriteHeld => pc[g] \in WriteHeld
           /\ pc'[g] \in ReadHeld => pc[g] \in ReadHeld
  BY <1>1, <1>3, <1>8 DEF LockInv, LockTypeOK
<1>9. \/ AddFileLock(g) \/ RemoveFileLock(g) \/ LookUpRLock(g) \/ IterateRLock(g)
      \/ AddFileUnlock(g) \/ RemoveFileUnlock(g) \/ LookUpRUnlock(g) \/ IterateRUnlock(g)
      \/ /\ UNCHANGED <<writer, readers>>
         /\ pc'[g] \in WriteHeld => pc[g] \in WriteHeld
         /\ pc'[g] \in ReadHeld => pc[g] \in ReadHeld
  <2> USE <1>2 DEF lockVars, WriteHeld, ReadHeld, Begin, Return
  <2>1. CASE Call(g)
    BY <2>1 DEF Call, AddFile, RemoveFile, LookUp, Iterate
  <2>2. CASE AddFileCheck(g) \/ AddFileInsert(g) \/ AddFileStore(g)
    BY <2>2 DEF AddFileCheck, AddFileInsert, AddFileStore
  <2>3. CASE RemoveFileCAS(g) \/ RemoveFileSplice(g)
    BY <2>3 DEF RemoveFileCAS, RemoveFileSplice
  <2>4. CASE RemoveFileSearch(g)
    BY <2>4 DEF RemoveFileSearch
  <2>5. CASE LookUpLoad(g) \/ LookUpSearch(g)
    BY <2>5 DEF LookUpLoad, LookUpSearch
  <2>6. CASE LookUpGet(g) \/ LookUpReturn(g)
    BY <2>6 DEF LookUpGet, LookUpReturn
  <2>7. CASE IterateGet(g) \/ IterateCall(g) \/ IterateReturn(g)
    BY <2>7 DEF IterateGet, IterateCall, IterateReturn
  <2> QED
    BY <2>1, <2>2, <2>3, <2>4, <2>5, <2>6, <2>7 DEF Move, Acquire, Step
<1> QED
  BY <1>4, <1>5, <1>6, <1>7, <1>8, <1>9

\* A goroutine that holds the lock for writing excludes all others, and one
\* that holds it for reading excludes writers.
LEMMA Exclusion ==
    ASSUME LockInv, NEW g \in Goroutine, NEW d \in Goroutine, d # g, pc[g] \in WriteHeld
    PROVE  pc[d] \notin WriteHeld /\ pc[d] \notin ReadHeld
  BY ConstantsAssumption DEF LockInv

\* A step that changes the list of files or the base is under the write lock.
LEMMA WriteSteps ==
    ASSUME NEW g \in Goroutine,
           AddFileCheck(g) \/ AddFileInsert(g) \/ RemoveFileSplice(g)
    PROVE  pc[g] \in WriteHeld
  BY DEF AddFileCheck, AddFileInsert, RemoveFileSplice, WriteHeld

\* The interval of a file that has been added never changes, and added grows.
LEMMA AddedFrame ==
    ASSUME IInv, NEW g \in Goroutine, Move(g)
    PROVE  /\ added \subseteq added'
           /\ \A h \in added : fbase'[h] = fbase[h] /\ fsize'[h] = fsize[h]
<1> USE DEF IInv, TypeOK
<1>1. ASSUME NEW h \in File, NEW b \in BaseArg, NEW n \in Size, AddFile(g, h, b, n)
      PROVE  /\ added' = added
             /\ \A k \in added : fbase'[k] = fbase[k] /\ fsize'[k] = fsize[k]
  <2>1. h \notin added
    BY <1>1 DEF AddFile, AddedInv
  <2> QED
    BY <1>1, <2>1 DEF AddFile, SharedTypeOK, HistoryTypeOK
<1>2. CASE AddFileCheck(g)
  <2>1. f[g] \in File /\ f[g] \notin added
    BY <1>2, FilesInHand DEF AddFileCheck, Adding
  <2>2. fbase' = fbase \/ \E b : fbase' = [fbase EXCEPT ![f[g]] = b]
    BY <1>2 DEF AddFileCheck
  <2>3. added' = added /\ fsize' = fsize
    BY <1>2 DEF AddFileCheck, history
  <2> QED
    BY <2>1, <2>2, <2>3 DEF SharedTypeOK, HistoryTypeOK
<1>3. CASE AddFileInsert(g) \/ RemoveFileSplice(g)
  BY <1>3 DEF AddFileInsert, RemoveFileSplice
<1> QED
  BY <1>1, <1>2, <1>3, SharedStep

\* Every file ever added keeps its own interval, below base.
LEMMA AddedStep ==
    ASSUME IInv, NEW g \in Goroutine, Move(g)
    PROVE  AddedInv'
<1>1. TypeOK /\ AddedInv
  BY DEF IInv
<1>2. /\ added \subseteq added'
      /\ \A h \in added : fbase'[h] = fbase[h] /\ fsize'[h] = fsize[h]
  BY AddedFrame
<1>3. \A h \in added : fbase[h] \in Int /\ fsize[h] \in Int
  BY <1>1 DEF TypeOK, SharedTypeOK, HistoryTypeOK
<1>4. ASSUME NEW h \in File, NEW b \in BaseArg, NEW n \in Size, AddFile(g, h, b, n)
      PROVE  AddedInv'
  <2>1. /\ UNCHANGED <<base, last, fbase, added>>
        /\ allocated \subseteq allocated'
        /\ fsize' = [fsize EXCEPT ![h] = n]
    BY <1>4 DEF AddFile
  <2>2. \A k \in File : fsize'[k] \in -1 .. MaxInt
    BY <1>1, <2>1, ConstantsAssumption DEF AddedInv, TypeOK, SharedTypeOK
  <2> QED
    BY <1>1, <1>2, <1>3, <2>1, <2>2 DEF AddedInv, Below
<1>5. CASE AddFileCheck(g)
  <2>1. UNCHANGED <<base, last, fsize, added, allocated>>
    BY <1>5 DEF AddFileCheck, history
  <2> QED
    BY <1>1, <1>2, <1>3, <2>1 DEF AddedInv, Below
<1>6. CASE AddFileInsert(g)
  <2> DEFINE h == f[g]
  <2>1. /\ added' = added \cup {h} /\ base' = x[g]
        /\ UNCHANGED <<last, fbase, fsize, allocated>>
    BY <1>6 DEF AddFileInsert
  <2>2. /\ h \in allocated /\ fbase[h] >= base /\ fsize[h] >= 0
        /\ x[g] = fbase[h] + fsize[h] + 1 /\ x[g] \in -1 .. MaxInt
    BY <1>6 DEF AddFileInsert, IInv, AddInv, Adding
  <2>3. fbase[h] \in Int /\ fsize[h] \in Int /\ base \in 1 .. MaxInt
    BY <1>1, <2>2 DEF TypeOK, SharedTypeOK, AddedInv
  <2> HIDE DEF h
  <2>4. base' \in 1 .. MaxInt /\ base' > base
    BY <2>1, <2>2, <2>3, ConstantsAssumption
  <2>5. \A k \in added' : fbase[k] >= 1 /\ fsize[k] >= 0 /\ fbase[k] + fsize[k] < base'
    BY <1>1, <1>3, <2>1, <2>2, <2>3, <2>4 DEF AddedInv
  <2>6. \A k \in added : Below(k, h)
    BY <1>1, <1>3, <2>2, <2>3 DEF AddedInv, Below
  <2>7. \A k, l \in added' : k = l \/ Below(k, l) \/ Below(l, k)
    BY <1>1, <2>1, <2>6 DEF AddedInv
  <2> QED
    BY <1>1, <2>1, <2>2, <2>4, <2>5, <2>7 DEF AddedInv, Below
<1>7. CASE RemoveFileSplice(g)
  <2>1. UNCHANGED <<base, last, fbase, fsize, added, allocated>>
    BY <1>7 DEF RemoveFileSplice
  <2> QED
    BY <1>1, <2>1 DEF AddedInv, Below
<1>8. CASE UNCHANGED <<base, files, fbase, fsize, allocated, added>>
           /\ (UNCHANGED last \/ AddFileStore(g) \/ RemoveFileCAS(g) \/ LookUpGet(g))
  <2>1. last' \in added \cup {NoFile}
    <3>1. CASE UNCHANGED last
      BY <3>1, <1>1 DEF AddedInv
    <3>2. CASE AddFileStore(g)
      BY <3>2 DEF AddFileStore, IInv, AddInv
    <3>3. CASE RemoveFileCAS(g)
      BY <3>3, <1>1 DEF RemoveFileCAS, AddedInv
    <3>4. CASE LookUpGet(g)
      <4>1. files[i[g]] \in added
        BY <3>4, FilesInHand DEF LookUpGet, IInv, SortedInv
      <4> QED
        BY <3>4, <4>1, <1>1 DEF LookUpGet, AddedInv
    <3> QED
      BY <1>8, <3>1, <3>2, <3>3, <3>4
  <2> QED
    BY <1>1, <1>8, <2>1 DEF AddedInv, Below
<1> QED
  BY <1>4, <1>5, <1>6, <1>7, <1>8, SharedStep

\* The files of the set stay sorted.
LEMMA SortedStep ==
    ASSUME IInv, NEW g \in Goroutine, Move(g)
    PROVE  SortedInv'
<1>1. TypeOK /\ SortedInv /\ AddedInv
  BY DEF IInv
<1>2. /\ added \subseteq added'
      /\ \A h \in added : fbase'[h] = fbase[h] /\ fsize'[h] = fsize[h]
  BY AddedFrame
<1>3. \A h, k \in added : Below(h, k)' <=> Below(h, k)
  BY <1>2 DEF Below
<1>4. CASE UNCHANGED files
  BY <1>1, <1>2, <1>3, <1>4 DEF SortedInv
<1>5. CASE AddFileInsert(g)
  <2>1. files' = Append(files, f[g]) /\ f[g] \in added' /\ f' = f
    BY <1>5 DEF AddFileInsert
  <2>2. /\ Len(files') = Len(files) + 1
        /\ files'[Len(files) + 1] = f[g]
        /\ \A k \in 1 .. Len(files) : files'[k] = files[k]
    BY <1>1, <2>1, AppendProperties, FilesInHand, <1>5
       DEF TypeOK, SharedTypeOK, AddFileInsert, Adding
  <2>3. \A k \in added : Below(k, f[g])'
    <3>1. f[g] \in File /\ fbase[f[g]] >= base /\ UNCHANGED <<fbase, fsize>>
      BY <1>5, FilesInHand DEF AddFileInsert, IInv, AddInv, Adding
    <3> QED
      BY <1>1, <2>1, <3>1 DEF Below, AddedInv, TypeOK, SharedTypeOK, HistoryTypeOK
  <2>4. Len(files) \in Nat
    BY <1>1 DEF TypeOK, SharedTypeOK
  <2>5. \A k \in 1 .. Len(files') : files'[k] \in added'
    BY <1>1, <1>2, <2>1, <2>2, <2>4 DEF SortedInv
  <2>6. ASSUME NEW j \in 1 .. Len(files'), NEW k \in 1 .. Len(files'), j < k
        PROVE  Below(files[j], files[k])'
    <3>1. j \in 1 .. Len(files) /\ files'[j] = files[j] /\ files[j] \in added
      BY <1>1, <2>2, <2>4, <2>6 DEF SortedInv
    <3>2. CASE k = Len(files) + 1
      BY <2>1, <2>2, <2>3, <3>1, <3>2 DEF Below
    <3>3. CASE k <= Len(files)
      <4>1. k \in 1 .. Len(files) /\ files'[k] = files[k]
        BY <2>2, <2>4, <3>3
      <4>2. files[k] \in added /\ Below(files[j], files[k])
        BY <1>1, <2>6, <3>1, <4>1 DEF SortedInv
      <4> QED
        BY <1>2, <3>1, <4>1, <4>2 DEF Below
    <3> QED
      BY <2>2, <2>4, <3>2, <3>3
  <2> QED
    BY <2>5, <2>6 DEF SortedInv
<1>6. CASE RemoveFileSplice(g)
  <2>1. files' = RemoveAt(files, i[g]) /\ i[g] \in 1 .. Len(files)
    BY <1>6 DEF RemoveFileSplice, IInv, RemoveInv
  <2>2. /\ Len(files') = Len(files) - 1
        /\ \A j \in 1 .. Len(files) - 1 :
              files'[j] = IF j < i[g] THEN files[j] ELSE files[j + 1]
    BY <1>1, <2>1, RemoveAtType DEF TypeOK, SharedTypeOK
  <2>3. Len(files) \in Nat /\ i[g] \in Nat
    BY <1>1 DEF TypeOK, SharedTypeOK, CallTypeOK
  <2>4. ASSUME NEW j \in 1 .. Len(files')
        PROVE  \E k \in 1 .. Len(files) :
                  files'[j] = files[k] /\ k = IF j < i[g] THEN j ELSE j + 1
    BY <2>2, <2>3
  <2>5. \A j \in 1 .. Len(files') : files'[j] \in added'
    BY <1>1, <1>2, <2>4 DEF SortedInv
  <2>6. ASSUME NEW j \in 1 .. Len(files'), NEW k \in 1 .. Len(files'), j < k
        PROVE  Below(files[j], files[k])'
    <3>1. PICK m \in 1 .. Len(files) :
             files'[j] = files[m] /\ m = IF j < i[g] THEN j ELSE j + 1
      BY <2>4
    <3>2. PICK n \in 1 .. Len(files) :
             files'[k] = files[n] /\ n = IF k < i[g] THEN k ELSE k + 1
      BY <2>4
    <3>3. m < n
      BY <2>3, <2>6, <3>1, <3>2
    <3>4. files[m] \in added /\ files[n] \in added /\ Below(files[m], files[n])
      BY <1>1, <3>3 DEF SortedInv
    <3> QED
      BY <1>2, <3>1, <3>2, <3>4 DEF Below
  <2> QED
    BY <2>5, <2>6 DEF SortedInv
<1>7. UNCHANGED files \/ AddFileInsert(g) \/ RemoveFileSplice(g)
  BY SharedStep DEF AddFile, AddFileCheck
<1> QED
  BY <1>4, <1>5, <1>6, <1>7

InAddFile == {"AddFile.Lock", "AddFile.check", "AddFile.insert", "AddFile.store"}
InRemoveFile ==
    {"RemoveFile.CAS", "RemoveFile.Lock", "RemoveFile.search",
     "RemoveFile.splice", "RemoveFile.unlock"}
InLookUp ==
    {"file.load", "file.RLock", "file.search", "file.get", "file.RUnlock", "file.done"}
InIterate ==
    {"Iterate.RLock", "Iterate.get", "Iterate.RUnlock", "Iterate.call", "Iterate.end"}

\* Which steps lead to the statements of each method.
LEMMA Arrive ==
    ASSUME NEW g \in Goroutine, Move(g), CallTypeOK
    PROVE  /\ pc'[g] \in InAddFile =>
                 \/ \E h \in File, b \in BaseArg, n \in Size : AddFile(g, h, b, n)
                 \/ AddFileLock(g) \/ AddFileCheck(g) \/ AddFileInsert(g)
           /\ pc'[g] \in InRemoveFile =>
                 \/ \E h \in File : RemoveFile(g, h)
                 \/ RemoveFileCAS(g) \/ RemoveFileLock(g)
                 \/ RemoveFileSearch(g) \/ RemoveFileSplice(g)
           /\ pc'[g] \in InLookUp =>
                 \/ \E p \in Pos : LookUp(g, p)
                 \/ LookUpLoad(g) \/ LookUpRLock(g) \/ LookUpSearch(g)
                 \/ LookUpGet(g) \/ LookUpRUnlock(g)
           /\ pc'[g] \in InIterate =>
                 \/ Iterate(g) \/ IterateRLock(g) \/ IterateGet(g)
                 \/ IterateRUnlock(g) \/ IterateCall(g)
           /\ pc'[g] = "idle" =>
                 \/ AddFileUnlock(g) \/ RemoveFileUnlock(g)
                 \/ LookUpReturn(g) \/ IterateReturn(g)
<1>1. \A l \in Statement : Goto(g, l) => pc'[g] = l
  BY DEF Goto, CallTypeOK
<1> USE <1>1, StatementNames
        DEF InAddFile, InRemoveFile, InLookUp, InIterate, Begin, Return
<1>2. ASSUME NEW h \in File, NEW b \in BaseArg, NEW n \in Size, AddFile(g, h, b, n)
      PROVE  pc'[g] = "AddFile.Lock"
  BY <1>2 DEF AddFile
<1>3. AddFileLock(g) \/ AddFileCheck(g) \/ AddFileInsert(g) \/ AddFileStore(g)
         => pc'[g] \in InAddFile \cup {"AddFile.panic", "AddFile.unlock"}
  BY DEF AddFileLock, AddFileCheck, AddFileInsert, AddFileStore
<1>4. AddFileStore(g) => pc'[g] = "AddFile.unlock"
  BY DEF AddFileStore
<1>5. AddFileUnlock(g) \/ RemoveFileUnlock(g) \/ LookUpReturn(g) \/ IterateReturn(g)
         => pc'[g] = "idle"
  BY DEF AddFileUnlock, RemoveFileUnlock, LookUpReturn, IterateReturn
<1>6. ASSUME NEW h \in File, RemoveFile(g, h)
      PROVE  pc'[g] = "RemoveFile.CAS"
  BY <1>6 DEF RemoveFile
<1>7. RemoveFileCAS(g) \/ RemoveFileLock(g) \/ RemoveFileSplice(g) => pc'[g] \in InRemoveFile
  BY DEF RemoveFileCAS, RemoveFileLock, RemoveFileSplice
<1>8. RemoveFileSearch(g) => pc'[g] \in InRemoveFile
  BY DEF RemoveFileSearch
<1>9. ASSUME NEW p \in Pos, LookUp(g, p)
      PROVE  pc'[g] = "file.load"
  BY <1>9 DEF LookUp
<1>10. LookUpLoad(g) \/ LookUpRLock(g) \/ LookUpSearch(g) => pc'[g] \in InLookUp
  BY DEF LookUpLoad, LookUpRLock, LookUpSearch
<1>11. LookUpGet(g) \/ LookUpRUnlock(g) => pc'[g] \in InLookUp
  BY DEF LookUpGet, LookUpRUnlock
<1>12. Iterate(g) \/ IterateRLock(g) \/ IterateGet(g) \/ IterateRUnlock(g) \/ IterateCall(g)
          => pc'[g] \in InIterate \cup {"Iterate.end", "Iterate.stop"}
  BY DEF Iterate, IterateRLock, IterateGet, IterateRUnlock, IterateCall
<1>13. \/ \E h \in File, b \in BaseArg, n \in Size : AddFile(g, h, b, n)
       \/ AddFileLock(g) \/ AddFileCheck(g) \/ AddFileInsert(g) \/ AddFileStore(g)
       \/ AddFileUnlock(g)
       \/ \E h \in File : RemoveFile(g, h)
       \/ RemoveFileCAS(g) \/ RemoveFileLock(g) \/ RemoveFileSearch(g)
       \/ RemoveFileSplice(g) \/ RemoveFileUnlock(g)
       \/ \E p \in Pos : LookUp(g, p)
       \/ LookUpLoad(g) \/ LookUpRLock(g) \/ LookUpSearch(g) \/ LookUpGet(g)
       \/ LookUpRUnlock(g) \/ LookUpReturn(g)
       \/ Iterate(g) \/ IterateRLock(g) \/ IterateGet(g) \/ IterateRUnlock(g)
       \/ IterateCall(g) \/ IterateReturn(g)
  BY DEF Move, Call, Acquire, Step
<1> QED
  BY ONLY <1>2, <1>3, <1>4, <1>5, <1>6, <1>7, <1>8, <1>9, <1>10, <1>11, <1>12, <1>13
     DEF InAddFile, InRemoveFile, InLookUp, InIterate

\* What AddFileCheck has established when it does not panic.
LEMMA CheckPasses ==
    ASSUME NEW g \in Goroutine, CallTypeOK, AddFileCheck(g), pc'[g] = "AddFile.insert",
           NEW b, b = IF x[g] < 0 THEN base ELSE x[g]
    PROVE  /\ b >= base
           /\ fbase' = [fbase EXCEPT ![f[g]] = b]
           /\ ~ (fsize[f[g]] < 0)
           /\ ~ (Wrap(b + Wrap(fsize[f[g]] + 1)) < 0)
           /\ x' = [x EXCEPT ![g] = Wrap(b + Wrap(fsize[f[g]] + 1))]
<1>1. ~ Goto(g, "AddFile.panic")
  BY DEF Goto, CallTypeOK
<1> QED
  BY <1>1 DEF AddFileCheck

\* The locals of a running AddFile.
LEMMA AddStep ==
    ASSUME IInv, NEW g \in Goroutine, Move(g)
    PROVE  AddInv'
<1>1. TypeOK /\ LockInv /\ AddedInv /\ AddInv
  BY DEF IInv
<1>2. /\ added \subseteq added'
      /\ \A h \in added : fbase'[h] = fbase[h] /\ fsize'[h] = fsize[h]
  BY AddedFrame
<1>3. allocated \subseteq allocated'
  BY SharedStep DEF AddFile, AddFileCheck, AddFileInsert, RemoveFileSplice, history
<1>4. \A d \in Goroutine : d # g =>
         pc'[d] = pc[d] /\ f'[d] = f[d] /\ x'[d] = x[d] /\ i'[d] = i[d]
  BY Others DEF IInv, TypeOK
\* What g's own call does next.
<1>5. pc'[g] \in Adding =>
         /\ f'[g] \in allocated' \ added'
         /\ x'[g] \in -1 .. MaxInt
         /\ f'[g] \notin allocated \/ (pc[g] \in Adding /\ f'[g] = f[g])
  <2>1. CASE \E h \in File, b \in BaseArg, n \in Size : AddFile(g, h, b, n)
    <3>1. PICK h \in File, b \in BaseArg, n \in Size : AddFile(g, h, b, n)
      BY <2>1
    <3>2. f'[g] = h /\ x'[g] = b /\ h \in allocated' /\ h \notin allocated
          /\ added' = added
      BY <1>1, <3>1 DEF AddFile, TypeOK, CallTypeOK
    <3> QED
      BY <1>1, <3>2, ConstantsAssumption DEF AddedInv
  <2>2. CASE AddFileLock(g)
    BY <1>1, <2>2 DEF AddFileLock, AddInv, Adding, setVars, history
  <2>3. CASE AddFileCheck(g) /\ pc'[g] = "AddFile.insert"
    <3>1. f' = f /\ added' = added /\ allocated' = allocated
      BY <2>3 DEF AddFileCheck, history
    <3>2. /\ f[g] \in allocated \ added /\ x[g] \in -1 .. MaxInt
          /\ fsize[f[g]] \in -1 .. MaxInt /\ base \in 1 .. MaxInt
      BY <1>1, <2>3 DEF AddFileCheck, AddInv, Adding, AddedInv, TypeOK, SharedTypeOK
    <3>3. PICK b : b = IF x[g] < 0 THEN base ELSE x[g]
      OBVIOUS
    <3>4. /\ ~ (Wrap(b + Wrap(fsize[f[g]] + 1)) < 0)
          /\ x' = [x EXCEPT ![g] = Wrap(b + Wrap(fsize[f[g]] + 1))]
      BY <1>1, <2>3, <3>3, CheckPasses DEF TypeOK
    <3>5. x'[g] = Wrap(b + Wrap(fsize[f[g]] + 1))
      BY <1>1, <3>4 DEF TypeOK, CallTypeOK
    <3>6. x'[g] \in -1 .. MaxInt
      BY <3>2, <3>3, <3>4, <3>5, ConstantsAssumption DEF Wrap
    <3> QED
      BY <2>3, <3>1, <3>2, <3>6 DEF AddFileCheck, Adding
  <2>4. CASE AddFileCheck(g) /\ pc'[g] # "AddFile.insert"
    <3>1. pc'[g] = "AddFile.panic"
      BY <1>1, <2>4 DEF AddFileCheck, Goto, TypeOK, CallTypeOK
    <3> QED
      BY <3>1 DEF Adding
  <2>5. CASE AddFileInsert(g)
    BY <1>1, <2>5 DEF AddFileInsert, Goto, Adding, TypeOK, CallTypeOK
  <2> QED
    BY <1>1, <2>1, <2>2, <2>3, <2>4, <2>5, Arrive DEF TypeOK, InAddFile, Adding
<1>6. pc'[g] = "AddFile.insert" =>
         /\ fbase'[f'[g]] >= base'
         /\ fsize'[f'[g]] >= 0
         /\ x'[g] = fbase'[f'[g]] + fsize'[f'[g]] + 1
  <2> SUFFICES ASSUME pc'[g] = "AddFile.insert" PROVE
         /\ fbase'[f'[g]] >= base'
         /\ fsize'[f'[g]] >= 0
         /\ x'[g] = fbase'[f'[g]] + fsize'[f'[g]] + 1
    OBVIOUS
  <2> DEFINE b == IF x[g] < 0 THEN base ELSE x[g]
  <2>1. AddFileCheck(g)
    BY <1>1, Arrive DEF InAddFile, AddFile, AddFileLock, AddFileInsert, Begin,
       Goto, TypeOK, CallTypeOK
  <2>2. /\ f[g] \in File /\ x[g] \in -1 .. MaxInt
        /\ fsize[f[g]] \in -1 .. MaxInt /\ base \in 1 .. MaxInt
    BY <1>1, <2>1 DEF AddFileCheck, AddInv, Adding, AddedInv, TypeOK, SharedTypeOK
  <2>3. /\ b >= base /\ fbase' = [fbase EXCEPT ![f[g]] = b]
        /\ fsize[f[g]] >= 0 /\ Wrap(b + Wrap(fsize[f[g]] + 1)) >= 0
        /\ x' = [x EXCEPT ![g] = Wrap(b + Wrap(fsize[f[g]] + 1))]
        /\ UNCHANGED <<base, fsize, f>>
    <3>1. Wrap(b + Wrap(fsize[f[g]] + 1)) \in Int
      BY <2>2, ConstantsAssumption DEF Wrap
    <3>2. UNCHANGED <<base, fsize, f>>
      BY <2>1 DEF AddFileCheck
    <3>3. b = IF x[g] < 0 THEN base ELSE x[g]
      OBVIOUS
    <3> HIDE DEF b
    <3>4. /\ b >= base /\ fbase' = [fbase EXCEPT ![f[g]] = b]
          /\ ~ (fsize[f[g]] < 0)
          /\ ~ (Wrap(b + Wrap(fsize[f[g]] + 1)) < 0)
          /\ x' = [x EXCEPT ![g] = Wrap(b + Wrap(fsize[f[g]] + 1))]
      BY <1>1, <2>1, <3>3, CheckPasses DEF TypeOK
    <3> QED
      BY <2>2, <3>1, <3>2, <3>4
  <2>4. b \in 1 .. MaxInt
    BY <2>2, <2>3
  <2>5. fbase'[f[g]] = b /\ x'[g] = Wrap(b + Wrap(fsize[f[g]] + 1))
    BY <1>1, <2>2, <2>3 DEF TypeOK, SharedTypeOK, CallTypeOK
  <2> HIDE DEF b
  <2>6. Wrap(b + Wrap(fsize[f[g]] + 1)) = b + fsize[f[g]] + 1
    BY <2>2, <2>3, <2>4, ConstantsAssumption DEF Wrap
  <2> QED
    BY <2>3, <2>5, <2>6
<1>7. pc'[g] = "AddFile.store" => f'[g] \in added'
  <2>1. pc'[g] = "AddFile.store" => AddFileInsert(g)
    BY <1>1, Arrive DEF InAddFile, AddFile, AddFileLock, AddFileCheck, Begin,
       Goto, TypeOK, CallTypeOK
  <2> QED
    BY <2>1 DEF AddFileInsert
\* The calls of the others.
<1>8. ASSUME NEW d \in Goroutine, d # g, pc[d] \in Adding
      PROVE  /\ f[d] \in allocated' \ added'
             /\ ~ (pc'[g] \in Adding /\ f'[g] = f[d])
  <2>1. f[d] \in allocated \ added
    BY <1>1, <1>8 DEF AddInv
  <2>2. pc[g] \in Adding => f[g] # f[d]
    BY <1>1, <1>8 DEF AddInv
  <2>3. added' = added \/ (pc[g] \in Adding /\ added' = added \cup {f[g]})
    BY SharedStep DEF AddFile, AddFileCheck, AddFileInsert, RemoveFileSplice, history, Adding
  <2> QED
    BY <1>3, <1>5, <2>1, <2>2, <2>3
<1>9. ASSUME NEW d \in Goroutine, d # g, pc[d] = "AddFile.insert"
      PROVE  base' = base /\ fbase'[f[d]] = fbase[f[d]] /\ fsize'[f[d]] = fsize[f[d]]
  <2>1. pc[g] \notin WriteHeld
    BY <1>1, <1>9, Exclusion DEF WriteHeld
  <2>2. f[d] \in allocated /\ f[d] \in File
    BY <1>1, <1>9, FilesInHand DEF AddInv, Adding
  <2>3. CASE \E h \in File, b \in BaseArg, n \in Size : AddFile(g, h, b, n)
    BY <1>1, <2>2, <2>3 DEF AddFile, TypeOK, SharedTypeOK
  <2> QED
    BY <2>1, <2>3, SharedStep, WriteSteps
<1> QED
  <2>1. ASSUME NEW d \in Goroutine, pc'[d] \in Adding
        PROVE  /\ f'[d] \in allocated' \ added' /\ x'[d] \in -1 .. MaxInt
               /\ \A e \in Goroutine : pc'[e] \in Adding /\ f'[e] = f'[d] => e = d
    <3>1. CASE d = g
      <4>1. ASSUME NEW e \in Goroutine, e # g, pc'[e] \in Adding PROVE f'[e] # f'[g]
        BY <1>4, <1>8, <2>1, <3>1, <4>1
      <4> QED
        BY <1>5, <2>1, <3>1, <4>1
    <3>2. CASE d # g
      <4>1. pc[d] \in Adding /\ f'[d] = f[d] /\ x'[d] = x[d]
        BY <1>4, <2>1, <3>2
      <4>2. ASSUME NEW e \in Goroutine, pc'[e] \in Adding, f'[e] = f'[d] PROVE e = d
        <5>1. CASE e = g
          BY <1>8, <3>2, <4>1, <4>2, <5>1
        <5>2. CASE e # g
          BY <1>1, <1>4, <4>1, <4>2, <5>2 DEF AddInv
        <5> QED
          BY <5>1, <5>2
      <4> QED
        BY <1>1, <1>8, <3>2, <4>1, <4>2 DEF AddInv
    <3> QED
      BY <3>1, <3>2
  <2>2. ASSUME NEW d \in Goroutine, pc'[d] = "AddFile.insert"
        PROVE  /\ fbase'[f'[d]] >= base' /\ fsize'[f'[d]] >= 0
               /\ x'[d] = fbase'[f'[d]] + fsize'[f'[d]] + 1
    BY <1>1, <1>4, <1>6, <1>9, <2>2 DEF AddInv
  <2>3. ASSUME NEW d \in Goroutine, pc'[d] = "AddFile.store"
        PROVE  f'[d] \in added'
    BY <1>1, <1>2, <1>4, <1>7, <2>3 DEF AddInv
  <2> QED
    BY <2>1, <2>2, <2>3 DEF AddInv, Adding

\* A goroutine in a critical section of either kind sees the list of files
\* and its members' intervals unchanged by the others.
LEMMA FilesFrozen ==
    ASSUME IInv, NEW g \in Goroutine, Move(g), NEW d \in Goroutine, d # g,
           pc[d] \in WriteHeld \cup ReadHeld
    PROVE  files' = files /\ base' = base
<1>1. pc[g] \notin WriteHeld
  BY ConstantsAssumption DEF IInv, LockInv
<1> QED
  BY <1>1, WriteSteps, SharedStep DEF AddFile

\* The locals of a running RemoveFile: the index is that of the file.
LEMMA RemoveStep ==
    ASSUME IInv, NEW g \in Goroutine, Move(g)
    PROVE  RemoveInv'
<1>1. TypeOK /\ RemoveInv
  BY DEF IInv
<1>2. \A d \in Goroutine : d # g =>
         pc'[d] = pc[d] /\ f'[d] = f[d] /\ x'[d] = x[d] /\ i'[d] = i[d]
  BY Others DEF IInv, TypeOK
<1>3. pc'[g] \in InRemoveFile => f'[g] \in File
  <2>1. ASSUME NEW h \in File, RemoveFile(g, h) PROVE f'[g] \in File
    BY <1>1, <2>1 DEF RemoveFile, TypeOK, CallTypeOK
  <2>2. CASE \/ RemoveFileCAS(g) \/ RemoveFileLock(g)
             \/ RemoveFileSearch(g) \/ RemoveFileSplice(g)
    <3>1. f' = f
      BY <2>2 DEF RemoveFileCAS, RemoveFileLock, RemoveFileSearch, RemoveFileSplice
    <3> QED
      BY <2>2, <3>1, FilesInHand
         DEF RemoveFileCAS, RemoveFileLock, RemoveFileSearch, RemoveFileSplice
  <2> QED
    BY <1>1, <2>1, <2>2, Arrive DEF TypeOK
<1>4. pc'[g] = "RemoveFile.splice" => i'[g] \in 1 .. Len(files') /\ files'[i'[g]] = f'[g]
  <2> SUFFICES ASSUME pc'[g] = "RemoveFile.splice"
               PROVE  i'[g] \in 1 .. Len(files') /\ files'[i'[g]] = f'[g]
    OBVIOUS
  <2>1. RemoveFileSearch(g)
    <3>1. \A l \in Statement : Goto(g, l) => pc'[g] = l
      BY <1>1 DEF Goto, TypeOK, CallTypeOK
    <3> QED
      BY <1>1, <3>1, Arrive, StatementNames
         DEF InRemoveFile, RemoveFile, RemoveFileCAS, RemoveFileLock,
             RemoveFileSplice, Begin, TypeOK
  <2>2. PICK k \in 0 .. Len(files) :
           /\ i' = [i EXCEPT ![g] = k]
           /\ IF k > 0 /\ files[k] = f[g]
              THEN Goto(g, "RemoveFile.splice")
              ELSE Goto(g, "RemoveFile.unlock")
    BY <2>1 DEF RemoveFileSearch
  <2>3. k > 0 /\ files[k] = f[g]
    BY <1>1, <2>2 DEF Goto, TypeOK, CallTypeOK
  <2>4. i'[g] = k /\ f' = f /\ files' = files
    BY <1>1, <2>1, <2>2 DEF RemoveFileSearch, setVars, TypeOK, CallTypeOK
  <2>5. Len(files) \in Nat
    BY <1>1 DEF TypeOK, SharedTypeOK
  <2> QED
    BY <2>3, <2>4, <2>5
<1> QED
  <2>1. ASSUME NEW d \in Goroutine, pc'[d] \in InRemoveFile PROVE f'[d] \in File
    BY <1>1, <1>2, <1>3, <2>1 DEF RemoveInv, InRemoveFile
  <2>2. ASSUME NEW d \in Goroutine, pc'[d] = "RemoveFile.splice"
        PROVE  i'[d] \in 1 .. Len(files') /\ files'[i'[d]] = f'[d]
    <3>1. CASE d = g
      BY <1>4, <2>2, <3>1
    <3>2. CASE d # g
      BY <1>1, <1>2, <2>2, <3>2, FilesFrozen DEF RemoveInv, WriteHeld
    <3> QED
      BY <3>1, <3>2
  <2> QED
    BY <2>1, <2>2 DEF RemoveInv, InRemoveFile

\* The range of a list of files consists of its elements.
LEMMA RangeIs ==
    ASSUME NEW s \in Seq(File), NEW h
    PROVE  h \in Range(s) <=> \E j \in 1 .. Len(s) : h = s[j]
<1>1. DOMAIN s = 1 .. Len(s)
  OBVIOUS
<1> QED
  BY <1>1, Zenon DEF Range

\* No two files of the set, or of those ever added, share a position.
LEMMA OneFilePerPosition ==
    ASSUME IInv, NEW h \in added, NEW k \in added, NEW p \in Int,
           p \in Interval(h), p \in Interval(k)
    PROVE  h = k
<1>1. /\ fbase[h] \in Int /\ fsize[h] \in Int
      /\ fbase[k] \in Int /\ fsize[k] \in Int
  BY DEF IInv, TypeOK, SharedTypeOK, HistoryTypeOK
<1>2. h = k \/ Below(h, k) \/ Below(k, h)
  BY DEF IInv, AddedInv
<1> QED
  BY <1>1, <1>2 DEF Below, Interval

\* The search decides: if the file found does not contain y, no member does.
LEMMA SearchDecides ==
    ASSUME IInv, NEW k \in 0 .. Len(files), NEW y \in Int, IsFound(k, y),
           k > 0 => y \notin Interval(files[k])
    PROVE  \A h \in Members : y \notin Interval(h)
<1>1. \A j \in 1 .. Len(files) :
         files[j] \in added /\ fbase[files[j]] \in Int /\ fsize[files[j]] \in Nat
  BY DEF IInv, SortedInv, AddedInv, TypeOK, SharedTypeOK, HistoryTypeOK
<1>2. Len(files) \in Nat
  BY DEF IInv, TypeOK, SharedTypeOK
<1>3. ASSUME NEW j \in 1 .. Len(files) PROVE y \notin Interval(files[j])
  <2>1. CASE j < k
    <3>1. fbase[files[j]] + fsize[files[j]] < fbase[files[k]] /\ fbase[files[k]] <= y
      BY <1>2, <2>1 DEF IInv, SortedInv, Below, IsFound
    <3> QED
      BY <1>1, <1>2, <2>1, <3>1 DEF Interval
  <2>2. CASE j = k
    BY <2>2
  <2>3. CASE j > k
    <3>1. k + 1 \in 1 .. Len(files) /\ y < fbase[files[k + 1]]
      BY <1>2, <2>3 DEF IsFound
    <3>2. j = k + 1 \/ fbase[files[k + 1]] + fsize[files[k + 1]] < fbase[files[j]]
      BY <1>2, <2>3, <3>1 DEF IInv, SortedInv, Below
    <3> QED
      BY <1>1, <3>1, <3>2 DEF Interval
  <2> QED
    BY <1>2, <2>1, <2>2, <2>3
<1>4. \A h \in Members : \E j \in 1 .. Len(files) : h = files[j]
  BY RangeIs DEF Members, IInv, TypeOK, SharedTypeOK
<1> QED
  BY <1>3, <1>4

\* How the set of members changes, and the files that have been in it since
\* each call began.
LEMMA StableStep ==
    ASSUME IInv, NEW g \in Goroutine, Move(g), NEW d \in Goroutine
    PROVE  /\ stable'[d] \subseteq Members'
           /\ pc'[d] \in {"file.RUnlock", "file.done"} => stable'[d] \subseteq stable[d]
<1>1. TypeOK /\ LookInv
  BY DEF IInv
<1> USE DEF TypeOK, HistoryTypeOK
<1>2. CASE AddFileInsert(g)
  <2>1. files' = Append(files, f[g]) /\ stable' = stable
    BY <1>2 DEF AddFileInsert
  <2>2. Members \subseteq Members'
    <3>1. /\ files' \in Seq(File) /\ Len(files') = Len(files) + 1
          /\ \A k \in 1 .. Len(files) : files'[k] = files[k]
      BY <1>1, <1>2, <2>1, AppendProperties, FilesInHand
         DEF SharedTypeOK, AddFileInsert, Adding
    <3>2. Len(files) \in Nat
      BY <1>1 DEF SharedTypeOK
    <3>3. ASSUME NEW h \in Members PROVE h \in Members'
      <4>1. PICK k \in 1 .. Len(files) : h = files[k]
        BY <1>1, RangeIs DEF Members, SharedTypeOK
      <4>2. k \in 1 .. Len(files') /\ h = files'[k]
        BY <3>1, <3>2, <4>1
      <4> QED
        BY <3>1, <4>2, RangeIs DEF Members
    <3> QED
      BY <3>3
  <2> QED
    BY <1>1, <2>1, <2>2 DEF LookInv
<1>3. CASE RemoveFileSplice(g)
  <2>1. files' = RemoveAt(files, i[g]) /\ i[g] \in 1 .. Len(files) /\ files[i[g]] = f[g]
    BY <1>3 DEF RemoveFileSplice, IInv, RemoveInv
  <2>2. /\ files' \in Seq(File) /\ Len(files') = Len(files) - 1
        /\ \A j \in 1 .. Len(files) - 1 :
              files'[j] = IF j < i[g] THEN files[j] ELSE files[j + 1]
    BY <1>1, <2>1, RemoveAtType DEF SharedTypeOK
  <2>3. ASSUME NEW h \in Members, h # f[g] PROVE h \in Members'
    <3>1. PICK k \in 1 .. Len(files) : h = files[k]
      BY <1>1, RangeIs DEF Members, SharedTypeOK
    <3>2. k # i[g] /\ Len(files) \in Nat
      BY <1>1, <2>1, <2>3, <3>1 DEF SharedTypeOK
    <3>3. \E j \in 1 .. Len(files') : files'[j] = h
      <4>1. CASE k < i[g]
        BY <2>1, <2>2, <3>1, <3>2, <4>1
      <4>2. CASE k > i[g]
        <5>1. k - 1 \in 1 .. Len(files) - 1 /\ ~ (k - 1 < i[g])
          BY <2>1, <3>1, <3>2, <4>2
        <5> QED
          BY <2>2, <3>1, <3>2, <5>1
      <4> QED
        BY <2>1, <3>1, <3>2, <4>1, <4>2
    <3> QED
      BY <2>2, <3>3, RangeIs DEF Members
  <2>4. stable'[d] = stable[d] \ {f[g]}
    BY <1>1, <1>3 DEF RemoveFileSplice, Losing
  <2> QED
    BY <1>1, <2>3, <2>4 DEF LookInv
<1>4. CASE UNCHANGED files /\ (UNCHANGED stable \/ Return(g))
  <2>1. Members' = Members
    BY <1>4 DEF Members
  <2>2. stable'[d] \subseteq stable[d]
    BY <1>1, <1>4 DEF Return
  <2> QED
    BY <1>1, <2>1, <2>2 DEF LookInv
<1>5. ASSUME NEW l \in Statement, UNCHANGED files, Begin(g, l), l \notin {"file.RUnlock", "file.done"}
      PROVE  /\ stable'[d] \subseteq Members'
             /\ pc'[d] \in {"file.RUnlock", "file.done"} => stable'[d] \subseteq stable[d]
  <2>1. Members' = Members
    BY <1>5 DEF Members
  <2>2. CASE d = g
    BY <1>1, <1>5, <2>1, <2>2 DEF Begin, Goto, CallTypeOK
  <2>3. CASE d # g
    <3>1. stable'[d] = stable[d]
      BY <1>1, <1>5, <2>3 DEF Begin
    <3> QED
      BY <1>1, <2>1, <3>1 DEF LookInv
  <2> QED
    BY <2>2, <2>3
<1>6. CASE Call(g)
  <2>1. \E l \in {"AddFile.Lock", "RemoveFile.CAS", "file.load", "Iterate.RLock"} :
           Begin(g, l) /\ UNCHANGED files
    BY <1>6 DEF Call, AddFile, RemoveFile, LookUp, Iterate, setVars
  <2> QED
    BY <1>5, <2>1, StatementNames
<1>7. CASE Acquire(g)
  BY <1>7, <1>4 DEF Acquire, AddFileLock, RemoveFileLock, LookUpRLock, IterateRLock,
     setVars, history
<1>8. CASE AddFileCheck(g) \/ AddFileStore(g) \/ AddFileUnlock(g)
  BY <1>8, <1>4 DEF AddFileCheck, AddFileStore, AddFileUnlock, setVars, history
<1>9. CASE RemoveFileCAS(g) \/ RemoveFileSearch(g) \/ RemoveFileUnlock(g)
  BY <1>9, <1>4 DEF RemoveFileCAS, RemoveFileSearch, RemoveFileUnlock, setVars, history
<1>10. CASE LookUpLoad(g) \/ LookUpSearch(g) \/ LookUpGet(g) \/ LookUpRUnlock(g) \/ LookUpReturn(g)
  BY <1>10, <1>4 DEF LookUpLoad, LookUpSearch, LookUpGet, LookUpRUnlock, LookUpReturn,
     setVars, history
<1>11. CASE IterateGet(g) \/ IterateRUnlock(g) \/ IterateCall(g) \/ IterateReturn(g)
  BY <1>11, <1>4 DEF IterateGet, IterateRUnlock, IterateCall, IterateReturn, setVars, history
<1> QED
  BY <1>2, <1>3, <1>6, <1>7, <1>8, <1>9, <1>10, <1>11 DEF Move, Step

\* The right answer, f[g] to the look-up of x[g].
RightAnswer(g) ==
    /\ f[g] # NoFile => f[g] \in added /\ x[g] \in Interval(f[g])
    /\ f[g] = NoFile => \A h \in stable[g] : x[g] \notin Interval(h)

\* A look-up that decides, decides rightly.
LEMMA LookUpAnswers ==
    ASSUME IInv, NEW g \in Goroutine,
           LookUpLoad(g) \/ LookUpSearch(g) \/ LookUpGet(g) \/ LookUpRUnlock(g),
           pc'[g] \in {"file.RUnlock", "file.done"}
    PROVE  RightAnswer(g)'
<1>1. TypeOK /\ AddedInv /\ LookInv
  BY DEF IInv
<1>2. \A l \in Statement : Goto(g, l) => pc'[g] = l
  BY <1>1 DEF Goto, TypeOK, CallTypeOK
<1>3. stable' = stable /\ x' = x /\ fbase' = fbase /\ fsize' = fsize /\ added' = added
  BY DEF LookUpLoad, LookUpSearch, LookUpGet, LookUpRUnlock, setVars, history
<1>4. x[g] \in Int /\ stable[g] \subseteq Members
  BY <1>1 DEF TypeOK, CallTypeOK, LookInv
<1>5. CASE LookUpLoad(g)
  <2>1. last # NoFile /\ x[g] \in Interval(last) /\ f' = [f EXCEPT ![g] = last]
    BY <1>2, <1>5, StatementNames DEF LookUpLoad
  <2> QED
    BY <1>1, <1>3, <2>1 DEF RightAnswer, Interval, AddedInv, TypeOK, CallTypeOK
<1>6. CASE LookUpSearch(g)
  <2>1. IsFound(0, x[g])
    <3>1. PICK k \in 0 .. Len(files) :
             IsFound(k, x[g]) /\ Goto(g, IF k > 0 THEN "file.get" ELSE "file.RUnlock")
      BY <1>6 DEF LookUpSearch
    <3>2. k = 0
      BY <1>2, <3>1, StatementNames
    <3> QED
      BY <3>1, <3>2
  <2>2. \A h \in Members : x[g] \notin Interval(h)
    <3>1. 0 \in 0 .. Len(files)
      BY <1>1 DEF TypeOK, SharedTypeOK
    <3> QED
      BY <1>4, <2>1, <3>1, SearchDecides
  <2>3. f' = f /\ f[g] = NoFile
    BY <1>1, <1>6 DEF LookUpSearch, LookInv
  <2> QED
    BY <1>3, <1>4, <2>2, <2>3 DEF RightAnswer, Interval
<1>7. CASE LookUpGet(g)
  <2> DEFINE h == files[i[g]]
  <2>1. i[g] \in 1 .. Len(files) /\ IsFound(i[g], x[g]) /\ f[g] = NoFile
    BY <1>1, <1>7 DEF LookUpGet, LookInv
  <2>2. h \in added /\ fbase[h] \in Int /\ fsize[h] \in Int /\ fbase[h] <= x[g]
    BY <1>1, <2>1 DEF IInv, SortedInv, IsFound, TypeOK, SharedTypeOK, HistoryTypeOK
  <2>3. CASE x[g] <= fbase[h] + fsize[h]
    <3>1. f'[g] = h /\ x[g] \in Interval(h)
      BY <1>1, <1>4, <1>7, <2>2, <2>3 DEF LookUpGet, Interval, TypeOK, CallTypeOK
    <3> QED
      BY <1>3, <2>2, <3>1, ConstantsAssumption DEF RightAnswer, Interval, TypeOK, HistoryTypeOK, IInv
  <2>4. CASE ~ (x[g] <= fbase[h] + fsize[h])
    <3>1. f'[g] = NoFile
      BY <1>7, <2>1, <2>4 DEF LookUpGet
    <3>2. x[g] \notin Interval(h)
      BY <1>4, <2>2, <2>4 DEF Interval
    <3>3. \A k \in Members : x[g] \notin Interval(k)
      <4>1. i[g] \in 0 .. Len(files)
        BY <2>1
      <4> QED
        BY <1>4, <2>1, <3>2, <4>1, SearchDecides
    <3> QED
      BY <1>3, <1>4, <3>1, <3>3 DEF RightAnswer, Interval
  <2> QED
    BY <2>3, <2>4
<1>8. CASE LookUpRUnlock(g)
  <2>1. f' = f /\ RightAnswer(g)
    BY <1>1, <1>8 DEF LookUpRUnlock, LookInv, RightAnswer
  <2> QED
    BY <1>3, <2>1 DEF RightAnswer, Interval
<1> QED
  BY <1>5, <1>6, <1>7, <1>8

\* The locals of a running look-up, and its answer.
LEMMA LookStep ==
    ASSUME IInv, NEW g \in Goroutine, Move(g)
    PROVE  LookInv'
<1>1. TypeOK /\ LookInv /\ SortedInv
  BY DEF IInv
<1>2. /\ added \subseteq added'
      /\ \A h \in added : fbase'[h] = fbase[h] /\ fsize'[h] = fsize[h]
  BY AddedFrame
<1>3. \A d \in Goroutine : d # g =>
         pc'[d] = pc[d] /\ f'[d] = f[d] /\ x'[d] = x[d] /\ i'[d] = i[d]
  BY Others DEF IInv, TypeOK
<1>4. \A d \in Goroutine : stable'[d] \subseteq Members'
  BY StableStep
<1>5. \A l \in Statement : Goto(g, l) => pc'[g] = l
  BY <1>1 DEF Goto, TypeOK, CallTypeOK
<1>6. pc'[g] \in {"idle", "file.load", "file.RLock", "file.search", "file.get"} => f'[g] = NoFile
  <2>1. CASE AddFileUnlock(g) \/ RemoveFileUnlock(g) \/ LookUpReturn(g) \/ IterateReturn(g)
    <3>1. f' = [f EXCEPT ![g] = NoFile]
      BY <2>1 DEF AddFileUnlock, RemoveFileUnlock, LookUpReturn, IterateReturn, Return
    <3> QED
      BY <1>1, <3>1 DEF TypeOK, CallTypeOK
  <2>2. ASSUME NEW p \in Pos, LookUp(g, p) PROVE f'[g] = NoFile
    BY <1>1, <2>2 DEF LookUp, Begin, LookInv
  <2>3. CASE LookUpLoad(g)
    BY <1>1, <1>5, <2>3, StatementNames DEF LookUpLoad, LookInv
  <2>4. CASE LookUpRLock(g) \/ LookUpSearch(g)
    BY <1>1, <2>4 DEF LookUpRLock, LookUpSearch, LookInv
  <2>5. CASE LookUpGet(g)
    BY <1>5, <2>5, StatementNames DEF LookUpGet
  <2>6. CASE LookUpRUnlock(g)
    BY <1>5, <2>6, StatementNames DEF LookUpRUnlock
  <2> QED
    BY <1>1, <2>1, <2>2, <2>3, <2>4, <2>5, <2>6, Arrive DEF TypeOK, InLookUp
<1>7. pc'[g] = "file.get" => i'[g] \in 1 .. Len(files') /\ IsFound(i[g], x[g])'
  <2> SUFFICES ASSUME pc'[g] = "file.get"
               PROVE  i'[g] \in 1 .. Len(files') /\ IsFound(i[g], x[g])'
    OBVIOUS
  <2>1. LookUpSearch(g)
    BY <1>1, <1>5, Arrive, StatementNames
       DEF InLookUp, LookUp, LookUpLoad, LookUpRLock, LookUpGet, LookUpRUnlock, Begin, TypeOK
  <2>2. PICK k \in 0 .. Len(files) :
           /\ IsFound(k, x[g])
           /\ i' = [i EXCEPT ![g] = k]
           /\ Goto(g, IF k > 0 THEN "file.get" ELSE "file.RUnlock")
    BY <2>1 DEF LookUpSearch
  <2>3. k > 0
    BY <1>5, <2>2, StatementNames
  <2>4. i'[g] = k /\ x' = x /\ files' = files /\ fbase' = fbase
    BY <1>1, <2>1, <2>2 DEF LookUpSearch, setVars, TypeOK, CallTypeOK
  <2>5. IsFound(i[g], x[g])'
    BY <2>2, <2>4 DEF IsFound
  <2>6. Len(files) \in Nat
    BY <1>1 DEF TypeOK, SharedTypeOK
  <2> QED
    BY <2>3, <2>4, <2>5, <2>6
<1>8. pc'[g] \in {"file.RUnlock", "file.done"} => RightAnswer(g)'
  <2>1. ASSUME NEW p \in Pos, LookUp(g, p) PROVE pc'[g] = "file.load"
    BY <1>5, <2>1, StatementNames DEF LookUp, Begin
  <2>2. LookUpRLock(g) => pc'[g] = "file.search"
    BY <1>5, StatementNames DEF LookUpRLock
  <2> QED
    BY <1>1, <2>1, <2>2, Arrive, LookUpAnswers DEF TypeOK, InLookUp
<1>9. ASSUME NEW d \in Goroutine, d # g, pc[d] = "file.get"
      PROVE  i'[d] \in 1 .. Len(files') /\ IsFound(i[d], x[d])'
  <2>1. files' = files
    BY <1>9, FilesFrozen DEF ReadHeld
  <2>2. IsFound(i[d], x[d]) /\ i[d] \in 1 .. Len(files)
    BY <1>1, <1>9 DEF LookInv
  <2>3. \A k \in 1 .. Len(files) : fbase'[files[k]] = fbase[files[k]]
    BY <1>1, <1>2 DEF SortedInv
  <2>4. Len(files) \in Nat
    BY <1>1 DEF TypeOK, SharedTypeOK
  <2>5. i'[d] = i[d] /\ x'[d] = x[d]
    BY <1>3, <1>9
  <2>6. IsFound(i[d], x[d])'
    <3>1. i[d] > 0 /\ fbase[files[i[d]]] <= x[d]
      BY <2>2, <2>4 DEF IsFound
    <3>2. i[d] < Len(files) =>
             /\ i[d] + 1 \in 1 .. Len(files)
             /\ x[d] < fbase[files[i[d] + 1]]
      BY <2>2, <2>4 DEF IsFound
    <3> QED
      BY <2>1, <2>2, <2>3, <2>5, <3>1, <3>2 DEF IsFound
  <2> QED
    BY <2>1, <2>2, <2>5, <2>6
<1>10. ASSUME NEW d \in Goroutine, d # g, pc[d] \in {"file.RUnlock", "file.done"}
       PROVE  RightAnswer(d)'
  <2>1. RightAnswer(d)
    BY <1>1, <1>10 DEF LookInv, RightAnswer
  <2>2. \A h \in added : h \in added' /\ Interval(h)' = Interval(h)
    BY <1>2 DEF Interval
  <2>3. stable[d] \subseteq added
    BY <1>1, RangeIs DEF LookInv, Members, SortedInv, TypeOK, SharedTypeOK
  <2>4. stable'[d] \subseteq stable[d]
    BY <1>3, <1>10, StableStep
  <2>5. f'[d] = f[d] /\ x'[d] = x[d]
    BY <1>3, <1>10
  <2>6. f[d] # NoFile =>
           /\ f[d] \in added'
           /\ x[d] \in fbase'[f[d]] .. fbase'[f[d]] + fsize'[f[d]]
    BY <1>2, <2>1 DEF RightAnswer, Interval
  <2>7. f[d] = NoFile => \A h \in stable'[d] : x[d] \notin Interval(h)'
    BY <2>1, <2>2, <2>3, <2>4 DEF RightAnswer
  <2> QED
    BY <2>5, <2>6, <2>7 DEF RightAnswer, Interval
<1> QED
  <2>1. ASSUME NEW d \in Goroutine,
               pc'[d] \in {"idle", "file.load", "file.RLock", "file.search", "file.get"}
        PROVE  f'[d] = NoFile
    BY <1>1, <1>3, <1>6, <2>1 DEF LookInv
  <2>2. ASSUME NEW d \in Goroutine, pc'[d] = "file.get"
        PROVE  i'[d] \in 1 .. Len(files') /\ IsFound(i[d], x[d])'
    <3>1. CASE d = g
      BY <1>7, <2>2, <3>1
    <3>2. CASE d # g
      BY <1>3, <1>9, <2>2, <3>2
    <3> QED
      BY <3>1, <3>2
  <2>3. ASSUME NEW d \in Goroutine, pc'[d] \in {"file.RUnlock", "file.done"}
        PROVE  RightAnswer(d)'
    <3>1. CASE d = g
      BY <1>8, <2>3, <3>1
    <3>2. CASE d # g
      BY <1>3, <1>10, <2>3, <3>2
    <3> QED
      BY <3>1, <3>2
  <2> QED
    BY <1>4, <2>1, <2>2, <2>3 DEF LookInv, RightAnswer

\* The files from index n on start after h.
After(h, n) ==
    \A k \in 1 .. Len(files) : k >= n => fbase[h] < fbase[files[k]]

\* Adding a file puts it after all others and removing one shifts the later
\* ones down, so what comes from an index on still starts later.
LEMMA AfterStep ==
    ASSUME IInv, NEW g \in Goroutine, Move(g), NEW h \in added, NEW n \in Nat, After(h, n)
    PROVE  After(h, n)'
<1>1. TypeOK /\ SortedInv /\ AddedInv
  BY DEF IInv
<1>2. \A k \in added : fbase'[k] = fbase[k]
  BY AddedFrame
<1>3. \A k \in 1 .. Len(files) : files[k] \in added
  BY <1>1 DEF SortedInv
<1>4. Len(files) \in Nat /\ fbase[h] \in Int /\ fsize[h] \in Nat
  BY <1>1 DEF TypeOK, SharedTypeOK, HistoryTypeOK, AddedInv
<1>5. CASE UNCHANGED files
  BY <1>2, <1>3, <1>5 DEF After
<1>6. CASE AddFileInsert(g)
  <2>1. /\ fbase' = fbase
        /\ f[g] \in File /\ fbase[f[g]] >= base /\ files' = Append(files, f[g])
    BY <1>6, FilesInHand DEF AddFileInsert, IInv, AddInv, Adding
  <2>2. /\ Len(files') = Len(files) + 1
        /\ files'[Len(files) + 1] = f[g]
        /\ \A k \in 1 .. Len(files) : files'[k] = files[k]
    BY <1>1, <2>1, AppendProperties DEF TypeOK, SharedTypeOK
  <2>3. fbase[h] < fbase[f[g]]
    BY <1>1, <1>4, <2>1 DEF AddedInv, TypeOK, SharedTypeOK
  <2>4. ASSUME NEW k \in 1 .. Len(files'), k >= n PROVE fbase[h] < fbase[files'[k]]
    <3>1. k = Len(files) + 1 \/ k \in 1 .. Len(files)
      BY <1>4, <2>2
    <3> QED
      BY <2>2, <2>3, <2>4, <3>1 DEF After
  <2> QED
    BY <2>1, <2>4 DEF After
<1>7. CASE RemoveFileSplice(g)
  <2>1. files' = RemoveAt(files, i[g]) /\ i[g] \in 1 .. Len(files) /\ fbase' = fbase
    BY <1>7 DEF RemoveFileSplice, IInv, RemoveInv
  <2>2. /\ Len(files') = Len(files) - 1
        /\ \A j \in 1 .. Len(files) - 1 :
              files'[j] = IF j < i[g] THEN files[j] ELSE files[j + 1]
    BY <1>1, <2>1, RemoveAtType DEF TypeOK, SharedTypeOK
  <2>3. ASSUME NEW k \in 1 .. Len(files'), k >= n PROVE fbase[h] < fbase[files'[k]]
    <3>1. Len(files') \in Nat /\ i[g] \in Nat /\ k \in 1 .. Len(files) - 1
      BY <1>4, <2>1, <2>2, <2>3
    <3>2. CASE k < i[g]
      <4>1. files'[k] = files[k] /\ k \in 1 .. Len(files)
        BY <1>4, <2>2, <3>1, <3>2
      <4> QED
        BY <2>3, <4>1 DEF After
    <3>3. CASE ~ (k < i[g])
      <4>1. files'[k] = files[k + 1] /\ k + 1 \in 1 .. Len(files) /\ k + 1 >= n
        BY <1>4, <2>2, <2>3, <3>1, <3>3
      <4> QED
        BY <4>1 DEF After
    <3> QED
      BY <3>2, <3>3
  <2> QED
    BY <2>1, <2>3 DEF After
<1> QED
  BY <1>5, <1>6, <1>7, SharedStep DEF AddFile, AddFileCheck

\* The locals of a running Iterate: the files still to come are later than
\* those it has visited.
Ahead(g) ==
    /\ pc[g] \in {"Iterate.RLock", "Iterate.get"} =>
          i[g] >= 1 /\ \A h \in seen[g] : After(h, i[g])
    /\ pc[g] \in {"Iterate.RUnlock", "Iterate.call"} /\ f[g] # NoFile =>
          /\ i[g] >= 1
          /\ f[g] \in added
          /\ \A h \in seen[g] : fbase[h] < fbase[f[g]]
          /\ After(f[g], i[g] + 1)

\* The iteration invariant, one goroutine at a time.
LEMMA IterInvIs ==
    ASSUME CallTypeOK, SharedTypeOK
    PROVE  IterInv <=> \A g \in Goroutine :
                          /\ Ahead(g)
                          /\ pc[g] = "Iterate.call" => f[g] # NoFile
                          /\ seen[g] \subseteq added
                          /\ pc[g] = "idle" => seen[g] = {}
<1>1. ASSUME NEW g \in Goroutine
      PROVE  After(f[g], i[g] + 1) <=>
                \A k \in 1 .. Len(files) : k > i[g] => fbase[f[g]] < fbase[files[k]]
  BY DEF After, CallTypeOK, SharedTypeOK
<1> QED
  BY <1>1 DEF IterInv, Ahead, After

\* What g's own Iterate does next.
LEMMA AheadStep ==
    ASSUME IInv, NEW g \in Goroutine, Move(g)
    PROVE  /\ Ahead(g)'
           /\ pc'[g] = "Iterate.call" => f'[g] # NoFile
           /\ seen'[g] \subseteq added'
           /\ pc'[g] = "idle" => seen'[g] = {}
<1>1. TypeOK /\ SortedInv /\ Ahead(g)
  BY IterInvIs DEF IInv, TypeOK
<1>2. \A l \in Statement : Goto(g, l) => pc'[g] = l
  BY <1>1 DEF Goto, TypeOK, CallTypeOK
<1>3. /\ pc[g] = "Iterate.call" => f[g] # NoFile
      /\ seen[g] \subseteq added
      /\ pc[g] = "idle" => seen[g] = {}
  BY DEF IInv, IterInv
<1>4. CASE Iterate(g)
  <2>1. pc'[g] = "Iterate.RLock" /\ i'[g] = 1 /\ seen'[g] = {}
    BY <1>1, <1>2, <1>3, <1>4, StatementNames DEF Iterate, Begin, TypeOK, CallTypeOK
  <2> QED
    BY <2>1 DEF Ahead
<1>5. CASE IterateRLock(g)
  <2>1. /\ pc'[g] = "Iterate.get" /\ pc[g] = "Iterate.RLock"
        /\ UNCHANGED <<files, fbase, i, seen, added>>
    BY <1>2, <1>5, StatementNames DEF IterateRLock, setVars, history
  <2> QED
    BY <1>1, <1>3, <2>1 DEF Ahead, After
<1>6. CASE IterateGet(g)
  <2>1. /\ pc'[g] = "Iterate.RUnlock" /\ pc[g] = "Iterate.get"
        /\ UNCHANGED <<files, fbase, i, seen, added>>
    BY <1>2, <1>6, StatementNames DEF IterateGet, setVars, history
  <2>2. i[g] \in Nat /\ i[g] >= 1 /\ \A h \in seen[g] : After(h, i[g])
    BY <1>1, <2>1 DEF Ahead, TypeOK, CallTypeOK
  <2>3. CASE i[g] <= Len(files)
    <3>1. f'[g] = files[i[g]]
      BY <1>1, <1>6, <2>3 DEF IterateGet, TypeOK, CallTypeOK
    <3>2. i[g] \in 1 .. Len(files) /\ Len(files) \in Nat
      BY <1>1, <2>2, <2>3 DEF TypeOK, SharedTypeOK
    <3>3. files[i[g]] \in added /\ \A h \in seen[g] : fbase[h] < fbase[files[i[g]]]
      BY <1>1, <2>2, <3>2 DEF SortedInv, After
    <3>4. ASSUME NEW k \in 1 .. Len(files), k >= i[g] + 1
          PROVE  fbase[files[i[g]]] < fbase[files[k]]
      <4>1. Below(files[i[g]], files[k]) /\ files[k] \in added
        BY <1>1, <2>2, <3>2, <3>4 DEF SortedInv
      <4> QED
        BY <3>3, <4>1 DEF Below, IInv, AddedInv, TypeOK, SharedTypeOK, HistoryTypeOK
    <3> QED
      BY <1>3, <2>1, <2>2, <3>1, <3>3, <3>4 DEF Ahead, After
  <2>4. CASE ~ (i[g] <= Len(files))
    <3>1. f'[g] = NoFile
      BY <1>1, <1>6, <2>4 DEF IterateGet, TypeOK, CallTypeOK
    <3> QED
      BY <1>3, <2>1, <3>1 DEF Ahead
  <2> QED
    BY <2>3, <2>4
<1>7. CASE IterateRUnlock(g)
  <2>1. /\ pc[g] = "Iterate.RUnlock"
        /\ pc'[g] = IF f[g] = NoFile THEN "Iterate.end" ELSE "Iterate.call"
        /\ UNCHANGED <<files, fbase, f, i, seen, added>>
    BY <1>2, <1>7, StatementNames DEF IterateRUnlock, setVars, history
  <2> QED
    BY <1>1, <1>3, <2>1 DEF Ahead, After
<1>8. CASE IterateCall(g)
  <2>1. /\ pc[g] = "Iterate.call" /\ f[g] # NoFile
        /\ UNCHANGED <<files, fbase, added>>
        /\ seen'[g] = seen[g] \cup {f[g]}
    BY <1>1, <1>3, <1>8 DEF IterateCall, setVars, TypeOK, HistoryTypeOK
  <2>2. f[g] \in added /\ i[g] >= 1 /\ After(f[g], i[g] + 1)
        /\ \A h \in seen[g] : fbase[h] < fbase[f[g]]
    BY <1>1, <2>1 DEF Ahead
  <2>3. CASE pc'[g] = "Iterate.RLock" /\ i'[g] = i[g] + 1
    <3>1. ASSUME NEW h \in seen[g] PROVE After(h, i[g] + 1)
      <4>1. h \in added /\ f[g] \in added
        BY <1>3, <2>2, <3>1
      <4>2. /\ fbase[h] \in Int /\ fbase[f[g]] \in Int
            /\ \A k \in 1 .. Len(files) : fbase[files[k]] \in Int
        BY <1>1, <4>1 DEF TypeOK, SharedTypeOK, HistoryTypeOK
      <4> QED
        BY <2>2, <4>2 DEF After
    <3>2. \A h \in seen'[g] : After(h, i[g] + 1)
      BY <2>1, <2>2, <3>1
    <3>3. i[g] + 1 >= 1
      BY <1>1 DEF TypeOK, CallTypeOK
    <3> QED
      BY <1>3, <2>1, <2>2, <2>3, <3>2, <3>3 DEF Ahead, After
  <2>4. CASE pc'[g] = "Iterate.stop"
    BY <1>3, <2>1, <2>2, <2>4 DEF Ahead
  <2>5. \/ pc'[g] = "Iterate.RLock" /\ i'[g] = i[g] + 1
        \/ pc'[g] = "Iterate.stop"
    BY <1>1, <1>2, <1>8, StatementNames DEF IterateCall, TypeOK, CallTypeOK
  <2> QED
    BY <2>3, <2>4, <2>5
<1>9. CASE pc'[g] \notin InIterate
  <2>1. Ahead(g)'
    BY <1>9 DEF Ahead, InIterate
  <2>2. seen'[g] \subseteq added' /\ (pc'[g] = "idle" => seen'[g] = {})
    <3>1. CASE AddFileUnlock(g) \/ RemoveFileUnlock(g) \/ LookUpReturn(g) \/ IterateReturn(g)
      BY <1>1, <3>1 DEF AddFileUnlock, RemoveFileUnlock, LookUpReturn, IterateReturn,
         Return, TypeOK, HistoryTypeOK
    <3>2. CASE UNCHANGED seen /\ pc'[g] # "idle"
      BY <1>3, <3>2, AddedFrame
    <3>3. UNCHANGED seen
          \/ AddFileUnlock(g) \/ RemoveFileUnlock(g) \/ LookUpReturn(g) \/ IterateReturn(g)
          \/ IterateCall(g)
      <4> USE DEF history
      <4>1. CASE Call(g)
        BY <4>1 DEF Call, AddFile, RemoveFile, LookUp, Iterate
      <4>2. CASE Acquire(g)
        BY <4>2 DEF Acquire, AddFileLock, RemoveFileLock, LookUpRLock, IterateRLock
      <4>3. CASE Step(g)
        BY <4>3 DEF Step, AddFileCheck, AddFileInsert, AddFileStore, RemoveFileCAS,
           RemoveFileSearch, RemoveFileSplice, LookUpLoad, LookUpSearch, LookUpGet,
           LookUpRUnlock, IterateGet, IterateRUnlock
      <4> QED
        BY <4>1, <4>2, <4>3 DEF Move
    <3> QED
      BY <1>1, <1>8, <3>1, <3>2, <3>3, Arrive DEF TypeOK
  <2> QED
    BY <2>1, <2>2, <1>9 DEF InIterate
<1> QED
  BY <1>1, <1>4, <1>5, <1>6, <1>7, <1>8, <1>9, Arrive DEF TypeOK

\* A step of g leaves the files another goroutine has visited alone.
LEMMA OthersSeen ==
    ASSUME NEW g \in Goroutine, Move(g), HistoryTypeOK, NEW d \in Goroutine, d # g
    PROVE  seen'[d] = seen[d]
<1>1. seen' = seen \/ \E S : seen' = [seen EXCEPT ![g] = S]
  <2> USE DEF history
  <2>1. CASE Call(g)
    BY <2>1 DEF Call, AddFile, RemoveFile, LookUp, Iterate
  <2>2. CASE Acquire(g)
    BY <2>2 DEF Acquire, AddFileLock, RemoveFileLock, LookUpRLock, IterateRLock
  <2>3. CASE AddFileUnlock(g) \/ RemoveFileUnlock(g) \/ LookUpReturn(g) \/ IterateReturn(g)
    BY <2>3 DEF AddFileUnlock, RemoveFileUnlock, LookUpReturn, IterateReturn, Return
  <2>4. CASE IterateCall(g)
    BY <2>4 DEF IterateCall
  <2>5. CASE Step(g)
    BY <2>3, <2>4, <2>5 DEF Step, AddFileCheck, AddFileInsert, AddFileStore,
       RemoveFileCAS, RemoveFileSearch, RemoveFileSplice, LookUpLoad, LookUpSearch,
       LookUpGet, LookUpRUnlock, IterateGet, IterateRUnlock
  <2> QED
    BY <2>1, <2>2, <2>5 DEF Move
<1> QED
  BY <1>1 DEF HistoryTypeOK

\* Every step keeps the iteration invariant.
LEMMA IterStep ==
    ASSUME IInv, NEW g \in Goroutine, Move(g)
    PROVE  IterInv'
<1>1. TypeOK /\ AddedInv
  BY DEF IInv
<1>2. CallTypeOK' /\ SharedTypeOK'
  BY CallTypeStep, SharedTypeStep DEF IInv, TypeOK
<1>3. ASSUME NEW d \in Goroutine
      PROVE  /\ Ahead(d)'
             /\ pc'[d] = "Iterate.call" => f'[d] # NoFile
             /\ seen'[d] \subseteq added'
             /\ pc'[d] = "idle" => seen'[d] = {}
  <2>1. CASE d = g
    BY <2>1, AheadStep
  <2>2. CASE d # g
    <3>1. pc'[d] = pc[d] /\ f'[d] = f[d] /\ i'[d] = i[d] /\ seen'[d] = seen[d]
      BY <1>1, <2>2, Others, OthersSeen DEF IInv, TypeOK
    <3>2. /\ Ahead(d)
          /\ pc[d] = "Iterate.call" => f[d] # NoFile
          /\ seen[d] \subseteq added
          /\ pc[d] = "idle" => seen[d] = {}
      BY <1>1, IterInvIs DEF IInv, TypeOK
    <3>3. /\ added \subseteq added'
          /\ \A h \in added : fbase'[h] = fbase[h]
      BY AddedFrame
    <3>4. PICK n \in Nat : n = i[d]
      BY <1>1 DEF TypeOK, CallTypeOK
    <3>5. ASSUME NEW h \in added, NEW m \in Nat, After(h, m)
          PROVE  After(h, m)'
      BY <3>5, AfterStep
    <3>6. ASSUME pc'[d] \in {"Iterate.RLock", "Iterate.get"}
          PROVE  i'[d] >= 1 /\ \A h \in seen'[d] : After(h, i[d])'
      <4>1. n >= 1 /\ \A h \in seen[d] : After(h, n)
        BY <3>1, <3>2, <3>4, <3>6 DEF Ahead
      <4>2. ASSUME NEW h \in seen[d] PROVE After(h, n)'
        BY <3>2, <3>5, <4>1
      <4> QED
        BY <3>1, <3>4, <4>1, <4>2
    <3>7. ASSUME pc'[d] \in {"Iterate.RUnlock", "Iterate.call"}, f'[d] # NoFile
          PROVE  /\ i'[d] >= 1
                 /\ f'[d] \in added'
                 /\ \A h \in seen'[d] : fbase'[h] < fbase'[f'[d]]
                 /\ After(f[d], i[d] + 1)'
      <4>1. PICK k \in added : k = f[d]
        BY <3>1, <3>2, <3>7 DEF Ahead
      <4>2. /\ n >= 1
            /\ \A h \in seen[d] : fbase[h] < fbase[k]
            /\ After(k, n + 1)
        BY <3>1, <3>2, <3>4, <3>7, <4>1 DEF Ahead
      <4>3. After(k, n + 1)'
        BY <3>4, <3>5, <4>2
      <4> QED
        BY <3>1, <3>2, <3>3, <3>4, <4>1, <4>2, <4>3
    <3> QED
      BY <3>1, <3>2, <3>3, <3>6, <3>7 DEF Ahead, After
  <2> QED
    BY <2>1, <2>2
<1> QED
  BY <1>2, <1>3, IterInvIs DEF After, Ahead, IterInv, CallTypeOK, SharedTypeOK


\* Every step keeps the invariant.
LEMMA IInvStep == IInv /\ [Next]_vars => IInv'
<1> SUFFICES ASSUME IInv, [Next]_vars PROVE IInv'
  OBVIOUS
<1>1. ASSUME NEW g \in Goroutine, Move(g) PROVE IInv'
  <2>1. TypeOK'
    BY <1>1, SharedTypeStep, LockStep, CallTypeStep, HistoryTypeStep DEF IInv, TypeOK
  <2> QED
    BY <1>1, <2>1, LockStep, AddedStep, SortedStep, AddStep, RemoveStep, LookStep,
       IterStep DEF IInv
<1>2. CASE UNCHANGED vars
  <2> USE DEF vars, setVars, lockVars, callVars, history
  <2>1. TypeOK'
    BY <1>2 DEF IInv, TypeOK, SharedTypeOK, LockTypeOK, CallTypeOK, HistoryTypeOK
  <2>2. LockInv' /\ AddedInv' /\ SortedInv'
    BY <1>2 DEF IInv, LockInv, AddedInv, SortedInv, Below
  <2>3. AddInv' /\ RemoveInv'
    BY <1>2 DEF IInv, AddInv, RemoveInv
  <2>4. LookInv'
    BY <1>2 DEF IInv, LookInv, IsFound, Interval, Members
  <2>5. IterInv'
    BY <1>2 DEF IInv, IterInv
  <2> QED
    BY <2>1, <2>2, <2>3, <2>4, <2>5 DEF IInv
<1> QED
  BY <1>1, <1>2 DEF Next, Move

-----------------------------------------------------------------------------
\* The invariant holds whatever the goroutines do with the FileSet.
THEOREM Inductive == Spec => []IInv
  BY InitIInv, IInvStep, PTL DEF Spec

\* Every variable keeps its type.
THEOREM TypeCorrect == Spec => []TypeOK
<1>1. IInv => TypeOK
  BY DEF IInv
<1> QED
  BY <1>1, Inductive, PTL

\* AddFile gives every file, for ever, an interval of its own below MaxInt.
THEOREM IntervalsAreDistinct == Spec => []DistinctIntervals
<1>1. ASSUME IInv PROVE DistinctIntervals
  <2>1. TypeOK /\ AddedInv
    BY <1>1 DEF IInv
  <2>2. ASSUME NEW h \in added
        PROVE  /\ fbase[h] \in 1 .. MaxInt
               /\ fbase[h] + fsize[h] \in fbase[h] .. MaxInt
    BY <2>1, ConstantsAssumption
       DEF AddedInv, TypeOK, SharedTypeOK, HistoryTypeOK
  <2>3. ASSUME NEW h \in added, NEW k \in added, h # k
        PROVE  Interval(h) \cap Interval(k) = {}
    <3>1. ASSUME NEW p \in Interval(h), p \in Interval(k) PROVE FALSE
      <4>1. p \in Int
        BY <2>2, <3>1 DEF Interval
      <4> QED
        BY <1>1, <2>3, <3>1, <4>1, OneFilePerPosition
    <3> QED
      BY <3>1
  <2> QED
    BY <2>2, <2>3 DEF DistinctIntervals
<1> QED
  BY <1>1, Inductive, PTL

\* File(p) returns no file but one of this set that contains p.
THEOREM LookUpIsSound == Spec => []LookUpSound
<1>1. IInv => LookUpSound
  BY DEF IInv, LookInv, LookUpSound
<1> QED
  BY <1>1, Inductive, PTL

\* File(p) returns the file that contains p if it is in the set all the time.
THEOREM LookUpIsStable == Spec => []StableLookUp
<1>1. ASSUME IInv PROVE StableLookUp
  <2> SUFFICES ASSUME NEW g \in Goroutine, pc[g] = "file.done",
                      NEW h \in stable[g], x[g] \in Interval(h)
               PROVE  f[g] = h
    BY DEF StableLookUp
  <2>1. TypeOK /\ LookInv /\ SortedInv
    BY <1>1 DEF IInv
  <2>2. f[g] # NoFile /\ f[g] \in added /\ x[g] \in Interval(f[g])
    BY <2>1 DEF LookInv
  <2>3. x[g] \in Int
    BY <2>1 DEF TypeOK, CallTypeOK
  <2>4. h \in added
    <3>1. h \in Members
      BY <2>1 DEF LookInv
    <3>2. files \in Seq(File)
      BY <2>1 DEF TypeOK, SharedTypeOK
    <3> QED
      BY <2>1, <3>1, <3>2, RangeIs DEF Members, SortedInv
  <2> QED
    BY <1>1, <2>2, <2>3, <2>4, OneFilePerPosition
<1> QED
  BY <1>1, Inductive, PTL

\* Iterate calls its callback for each file at most once, in the order of
\* AddFile, whatever is added and removed between the calls.
THEOREM IterateIsInOrder == Spec => []IterateInOrder
<1>1. IInv => IterateInOrder
  BY DEF IInv, IterInv, IterateInOrder
<1> QED
  BY <1>1, Inductive, PTL

\* The only file a step takes out of the set is the one that the RemoveFile
\* taking it was given.
THEOREM RemoveFileIsExact == Spec => RemovesOnlyItsFile
<1>1. ASSUME IInv, [Next]_vars
      PROVE  [\A h \in Members \ Members' :
                 \E g \in Goroutine : pc[g] = "RemoveFile.splice" /\ f[g] = h]_vars
  <2> SUFFICES ASSUME NEW h \in Members \ Members', ~ UNCHANGED vars
               PROVE  \E g \in Goroutine : pc[g] = "RemoveFile.splice" /\ f[g] = h
    OBVIOUS
  <2>1. PICK g \in Goroutine : Move(g)
    BY <1>1 DEF Next, Move
  <2>2. TypeOK /\ RemoveInv /\ files \in Seq(File)
    BY <1>1 DEF IInv, TypeOK, SharedTypeOK
  <2>3. PICK j \in 1 .. Len(files) : h = files[j]
    BY <2>2, RangeIs DEF Members
  <2>4. files' \in Seq(File) /\ \A n \in 1 .. Len(files') : h # files'[n]
    <3>1. files' \in Seq(File)
      BY <1>1, <2>1, SharedTypeStep DEF SharedTypeOK
    <3> QED
      BY <3>1, RangeIs DEF Members
  <2>5. CASE AddFileInsert(g)
    <3>1. f[g] \in File /\ files' = Append(files, f[g])
      BY <1>1, <2>5, FilesInHand DEF AddFileInsert, Adding
    <3>2. Len(files') = Len(files) + 1 /\ files'[j] = files[j]
      BY <2>2, <3>1, AppendProperties
    <3> QED
      BY <2>2, <2>3, <2>4, <3>2
  <2>6. CASE RemoveFileSplice(g)
    <3>1. /\ pc[g] = "RemoveFile.splice" /\ files' = RemoveAt(files, i[g])
          /\ i[g] \in 1 .. Len(files) /\ files[i[g]] = f[g]
      BY <2>2, <2>6 DEF RemoveFileSplice, RemoveInv
    <3>2. /\ Len(files') = Len(files) - 1
          /\ \A n \in 1 .. Len(files) - 1 :
                files'[n] = IF n < i[g] THEN files[n] ELSE files[n + 1]
      BY <2>2, <3>1, RemoveAtType
    <3>3. Len(files) \in Nat
      BY <2>2
    <3>4. CASE j < i[g]
      BY <2>3, <2>4, <3>1, <3>2, <3>3, <3>4
    <3>5. CASE j > i[g]
      <4>1. j - 1 \in 1 .. Len(files') /\ files'[j - 1] = files[j]
        BY <3>1, <3>2, <3>3, <3>5
      <4> QED
        BY <2>3, <2>4, <4>1
    <3> QED
      BY <2>3, <3>1, <3>4, <3>5
  <2>7. CASE UNCHANGED files
    BY <2>7 DEF Members
  <2> QED
    BY <2>1, <2>5, <2>6, <2>7, SharedStep DEF AddFile, AddFileCheck
<1> QED
  BY <1>1, Inductive, PTL DEF Spec, RemovesOnlyItsFile

-----------------------------------------------------------------------------
(***************************************************************************)
(* FileSet implements FileSetAbs: each step of a goroutine is one of the   *)
(* abstract operations, seen through the refinement mapping of FileSet, or *)
(* is not seen at all.  When calls overlap only because a callback of      *)
(* Iterate makes some, it implements it without the look-ups that find a   *)
(* removed file.                                                           *)
(***************************************************************************)

\* The abstract variables are functions on files and on goroutines.
LEMMA AbsTypes ==
    ASSUME IInv
    PROVE  /\ Members \subseteq added
           /\ \A h \in added : absStart[h] = fbase[h] /\ absEnd[h] = fbase[h] + fsize[h]
           /\ \A h \in added : h \in File /\ fbase[h] \in Int /\ fsize[h] \in Int
<1>1. Members \subseteq added
  <2>1. files \in Seq(File) /\ \A k \in 1 .. Len(files) : files[k] \in added
    BY DEF IInv, SortedInv, TypeOK, SharedTypeOK
  <2> QED
    BY <2>1, RangeIs DEF Members
<1>2. added \subseteq File
  BY DEF IInv, TypeOK, HistoryTypeOK
<1>3. \A h \in added : fbase[h] \in Int /\ fsize[h] \in Int
  BY <1>2 DEF IInv, TypeOK, SharedTypeOK
<1> QED
  BY <1>1, <1>2, <1>3 DEF absStart, absEnd

\* What a step does not show of the files: intervals that no file has yet.
LEMMA AbsFiles ==
    ASSUME IInv, NEW g \in Goroutine, Move(g), added' = added
    PROVE  absStart' = absStart /\ absEnd' = absEnd
<1>1. \A h \in added : fbase'[h] = fbase[h] /\ fsize'[h] = fsize[h]
  BY AddedFrame
<1>2. \A h \in File : IF h \in added' THEN fbase'[h] = fbase[h] /\ fsize'[h] = fsize[h] ELSE h \notin added
  BY <1>1
<1> QED
  BY <1>2 DEF absStart, absEnd

\* What a step does not show of the calls: those that are no look-ups.
LEMMA AbsCalls ==
    ASSUME IInv, NEW g \in Goroutine, Move(g)
    PROVE  /\ \A d \in Goroutine \ {g} :
                 absAsked'[d] = absAsked[d] /\ absAnswer'[d] = absAnswer[d]
           /\ (pc[g] \in Asking <=> pc'[g] \in Asking) /\ x'[g] = x[g]
                 => absAsked' = absAsked
           /\ (pc[g] \in Answered <=> pc'[g] \in Answered)
                 /\ (pc[g] \in Answered => f'[g] = f[g])
                 => absAnswer' = absAnswer
<1>1. \A d \in Goroutine \ {g} : pc'[d] = pc[d] /\ f'[d] = f[d] /\ x'[d] = x[d]
  BY Others DEF IInv, TypeOK
<1>2. \A d \in Goroutine \ {g} : absAsked'[d] = absAsked[d] /\ absAnswer'[d] = absAnswer[d]
  BY <1>1 DEF absAsked, absAnswer
<1>3. ASSUME pc[g] \in Asking <=> pc'[g] \in Asking, x'[g] = x[g] PROVE absAsked' = absAsked
  <2>1. \A d \in Goroutine : (pc[d] \in Asking <=> pc'[d] \in Asking) /\ x'[d] = x[d]
    BY <1>1, <1>3
  <2> QED
    BY <2>1 DEF absAsked
<1>4. ASSUME pc[g] \in Answered <=> pc'[g] \in Answered, pc[g] \in Answered => f'[g] = f[g]
      PROVE  absAnswer' = absAnswer
  <2>1. \A d \in Goroutine :
           (pc[d] \in Answered <=> pc'[d] \in Answered) /\ (pc[d] \in Answered => f'[d] = f[d])
    BY <1>1, <1>4
  <2> QED
    BY <2>1 DEF absAnswer
<1> QED
  BY <1>2, <1>3, <1>4

\* AddFile puts its file behind all others.
LEMMA InsertShows ==
    ASSUME IInv, NEW g \in Goroutine, AddFileInsert(g)
    PROVE  LET h == f[g]
           IN  /\ h \in File \ added
               /\ fbase[h] \in 1 .. MaxInt /\ fbase[h] + fsize[h] \in 1 .. MaxInt
               /\ fbase[h] <= fbase[h] + fsize[h]
               /\ \A k \in added : fbase[k] + fsize[k] < fbase[h]
               /\ Members' = Members \cup {h} /\ added' = added \cup {h}
               /\ absStart' = [absStart EXCEPT ![h] = fbase[h]]
               /\ absEnd' = [absEnd EXCEPT ![h] = fbase[h] + fsize[h]]
               /\ absAsked' = absAsked /\ absAnswer' = absAnswer
<1> DEFINE h == f[g]
<1>1. Move(g) /\ pc[g] = "AddFile.insert"
  BY DEF Move, Step, AddFileInsert
<1>2. TypeOK /\ AddedInv /\ AddInv /\ ConstantsAssumption
  BY ConstantsAssumption DEF IInv
<1>3. h \in File \ added
  BY <1>1, FilesInHand DEF Adding
<1>4. fbase[h] >= base /\ fsize[h] >= 0 /\ x[g] = fbase[h] + fsize[h] + 1 /\ x[g] \in -1 .. MaxInt
  BY <1>1, <1>2 DEF AddInv, Adding
<1>5. fbase[h] \in Int /\ fsize[h] \in Int /\ base \in 1 .. MaxInt /\ MaxInt \in Nat
  BY <1>2, <1>3, ConstantsAssumption DEF TypeOK, SharedTypeOK, AddedInv
<1>6. fbase[h] \in 1 .. MaxInt /\ fbase[h] + fsize[h] \in 1 .. MaxInt /\ fbase[h] <= fbase[h] + fsize[h]
  BY <1>4, <1>5
<1>7. \A k \in added : fbase[k] + fsize[k] < fbase[h]
  <2>1. \A k \in added : fbase[k] + fsize[k] < base /\ fbase[k] \in Int /\ fsize[k] \in Int
    BY <1>2, AbsTypes DEF AddedInv
  <2> QED
    BY <1>4, <1>5, <2>1
<1>8. files \in Seq(File) /\ files' = Append(files, h) /\ added' = added \cup {h}
      /\ fbase' = fbase /\ fsize' = fsize /\ x' = x /\ f' = f
  BY <1>2 DEF AddFileInsert, TypeOK, SharedTypeOK
<1>9. Members' = Members \cup {h}
  <2>1. /\ files' \in Seq(File) /\ Len(files') = Len(files) + 1 /\ Len(files) \in Nat
        /\ \A k \in 1 .. Len(files) : files'[k] = files[k]
        /\ files'[Len(files) + 1] = h
    BY <1>3, <1>8, AppendProperties
  <2>2. ASSUME NEW k \in Members' PROVE k \in Members \cup {h}
    <3>1. PICK n \in 1 .. Len(files) + 1 : k = files'[n]
      BY <2>1, <2>2, RangeIs DEF Members
    <3>2. n = Len(files) + 1 \/ n \in 1 .. Len(files)
      BY <2>1
    <3> QED
      BY <1>8, <2>1, <3>1, <3>2, RangeIs DEF Members
  <2>3. ASSUME NEW k \in Members \cup {h} PROVE k \in Members'
    <3>1. \E n \in 1 .. Len(files) + 1 : k = files'[n]
      BY <1>8, <2>1, <2>3, RangeIs DEF Members
    <3> QED
      BY <2>1, <3>1, RangeIs DEF Members
  <2> QED
    BY <2>2, <2>3
<1>10. absStart' = [absStart EXCEPT ![h] = fbase[h]]
       /\ absEnd' = [absEnd EXCEPT ![h] = fbase[h] + fsize[h]]
  BY <1>3, <1>8 DEF absStart, absEnd
<1>11. pc'[g] = "AddFile.store"
  BY <1>2 DEF AddFileInsert, Goto, TypeOK, CallTypeOK
<1>12. absAsked' = absAsked /\ absAnswer' = absAnswer
  BY <1>1, <1>8, <1>11, AbsCalls DEF Asking, Answered
<1> QED
  BY <1>3, <1>6, <1>7, <1>8, <1>9, <1>10, <1>12

\* RemoveFile takes one file out.
LEMMA SpliceShows ==
    ASSUME IInv, NEW g \in Goroutine, RemoveFileSplice(g)
    PROVE  /\ f[g] \in Members
           /\ Members' = Members \ {f[g]} /\ added' = added
           /\ absStart' = absStart /\ absEnd' = absEnd
           /\ absAsked' = absAsked /\ absAnswer' = absAnswer
<1>1. Move(g) /\ pc[g] = "RemoveFile.splice"
  BY DEF Move, Step, RemoveFileSplice
<1>2. /\ TypeOK /\ files \in Seq(File) /\ Len(files) \in Nat
      /\ i[g] \in 1 .. Len(files) /\ files[i[g]] = f[g]
  BY <1>1 DEF IInv, RemoveInv, TypeOK, SharedTypeOK
<1>3. /\ files' = RemoveAt(files, i[g]) /\ added' = added /\ x' = x /\ f' = f
      /\ pc'[g] = "RemoveFile.unlock"
  BY <1>2 DEF RemoveFileSplice, Goto, TypeOK, CallTypeOK
<1>4. /\ files' \in Seq(File) /\ Len(files') = Len(files) - 1
      /\ \A j \in 1 .. Len(files) - 1 : files'[j] = IF j < i[g] THEN files[j] ELSE files[j + 1]
  BY <1>2, <1>3, RemoveAtType
<1>5. \A j, k \in 1 .. Len(files) : j # k => files[j] # files[k]
  <2>1. \A j \in 1 .. Len(files) :
           fbase[files[j]] \in Int /\ fsize[files[j]] \in Int /\ fsize[files[j]] >= 0
    BY AbsTypes DEF IInv, SortedInv, AddedInv
  <2>2. \A j, k \in 1 .. Len(files) : j < k => Below(files[j], files[k])
    BY DEF IInv, SortedInv
  <2>3. ASSUME NEW j \in 1 .. Len(files), NEW k \in 1 .. Len(files), j < k
        PROVE  files[j] # files[k]
    BY <2>1, <2>2, <2>3 DEF Below
  <2> QED
    BY <1>2, <2>3
<1>6. Members' = Members \ {f[g]}
  <2>1. ASSUME NEW k \in Members' PROVE k \in Members /\ k # f[g]
    <3>1. PICK n \in 1 .. Len(files) - 1 : k = files'[n]
      BY <1>4, <2>1, RangeIs DEF Members
    <3>2. PICK m \in 1 .. Len(files) : m # i[g] /\ k = files[m]
      BY <1>2, <1>4, <3>1
    <3> QED
      BY <1>2, <1>5, <3>2, RangeIs DEF Members
  <2>2. ASSUME NEW k \in Members, k # f[g] PROVE k \in Members'
    <3>1. PICK m \in 1 .. Len(files) : k = files[m]
      BY <1>2, RangeIs DEF Members
    <3>2. m # i[g]
      BY <1>2, <2>2, <3>1
    <3>3. CASE m < i[g]
      <4>1. m \in 1 .. Len(files') /\ k = files'[m]
        BY <1>2, <1>4, <3>1, <3>3
      <4> QED
        BY <1>4, <4>1, RangeIs DEF Members
    <3>4. CASE m > i[g]
      <4>1. m - 1 \in 1 .. Len(files') /\ k = files'[m - 1]
        BY <1>2, <1>4, <3>1, <3>4
      <4> QED
        BY <1>4, <4>1, RangeIs DEF Members
    <3> QED
      BY <1>2, <3>2, <3>3, <3>4
  <2> QED
    BY <2>1, <2>2
<1>7. f[g] \in Members
  BY <1>2, RangeIs DEF Members
<1>8. absAsked' = absAsked /\ absAnswer' = absAnswer
  BY <1>1, <1>3, AbsCalls DEF Asking, Answered
<1> QED
  BY <1>1, <1>3, <1>6, <1>7, <1>8, AbsFiles

\* A look-up begins.
LEMMA AskShows ==
    ASSUME IInv, NEW g \in Goroutine, NEW p \in Pos, LookUp(g, p)
    PROVE  /\ absAsked[g] = 0
           /\ absAsked' = [absAsked EXCEPT ![g] = p]
           /\ Members' = Members /\ added' = added
           /\ absStart' = absStart /\ absEnd' = absEnd /\ absAnswer' = absAnswer
<1>1. Move(g) /\ pc[g] = "idle" /\ TypeOK
  BY DEF Move, Call, LookUp, Begin, IInv
<1>2. pc'[g] = "file.load" /\ x'[g] = p /\ added' = added /\ files' = files
  BY <1>1, ConstantsAssumption DEF LookUp, Begin, Goto, setVars, TypeOK, CallTypeOK
<1>3. \A d \in Goroutine \ {g} : absAsked'[d] = absAsked[d]
  BY <1>1, AbsCalls
<1>4. absAsked[g] = 0 /\ absAsked'[g] = p
  BY <1>1, <1>2 DEF absAsked, Asking, Answered
<1>5. absAsked' = [absAsked EXCEPT ![g] = p]
  BY <1>3, <1>4 DEF absAsked
<1>6. absAnswer' = absAnswer
  BY <1>1, <1>2, AbsCalls DEF Answered
<1> QED
  BY <1>1, <1>2, <1>4, <1>5, <1>6, AbsFiles DEF Members

\* The steps at which a look-up takes effect.
Finds(g) ==
    \/ LookUpLoad(g) /\ pc'[g] = "file.done"
    \/ LookUpSearch(g) /\ pc'[g] = "file.RUnlock"
    \/ LookUpGet(g)

\* A look-up finds a file that contains the position, in the set or in the cache,
\* or there is none in the set.
LEMMA FindShows ==
    ASSUME IInv, NEW g \in Goroutine, Finds(g)
    PROVE  /\ absAsked[g] = x[g] /\ x[g] \in Int
           /\ absAnswer[g] = NoGoroutine
           /\ Members' = Members /\ added' = added
           /\ absStart' = absStart /\ absEnd' = absEnd /\ absAsked' = absAsked
           /\ absAnswer' = [absAnswer EXCEPT ![g] = f'[g]]
           /\ \/ f'[g] \in added /\ x[g] \in Interval(f'[g]) /\ f'[g] \in Members \cup {last}
              \/ f'[g] = NoFile /\ \A h \in Members : x[g] \notin Interval(h)
<1>1. TypeOK /\ LookInv /\ Move(g) /\ pc[g] \in {"file.load", "file.search", "file.get"}
  BY DEF IInv, Finds, LookUpLoad, LookUpSearch, LookUpGet, Move, Step
<1>2. /\ pc'[g] \in Answered
      /\ x' = x /\ files' = files /\ added' = added
  BY <1>1 DEF Finds, LookUpLoad, LookUpSearch, LookUpGet, Goto, Answered, setVars, history,
              TypeOK, CallTypeOK
<1>3. x[g] \in Int /\ absAsked[g] = x[g] /\ absAnswer[g] = NoGoroutine
  BY <1>1 DEF absAsked, absAnswer, Asking, Answered, TypeOK, CallTypeOK
<1>4. absAsked' = absAsked
  BY <1>1, <1>2, AbsCalls DEF Asking, Answered
<1>5. absAnswer' = [absAnswer EXCEPT ![g] = f'[g]]
  <2>1. absAnswer'[g] = f'[g]
    BY <1>2 DEF absAnswer
  <2>2. \A d \in Goroutine \ {g} : absAnswer'[d] = absAnswer[d]
    BY <1>1, AbsCalls
  <2> QED
    BY <2>1, <2>2 DEF absAnswer
<1>6. CASE LookUpLoad(g) /\ pc'[g] = "file.done"
  <2>1. last # NoFile /\ x[g] \in Interval(last) /\ f'[g] = last
    BY <1>1, <1>6 DEF LookUpLoad, Goto, TypeOK, CallTypeOK
  <2>2. last \in added
    BY <2>1 DEF IInv, AddedInv
  <2> QED
    BY <1>1, <1>2, <1>3, <1>4, <1>5, <2>1, <2>2, AbsFiles DEF Members
<1>7. CASE LookUpSearch(g) /\ pc'[g] = "file.RUnlock"
  <2>1. PICK k \in 0 .. Len(files) :
           IsFound(k, x[g]) /\ Goto(g, IF k > 0 THEN "file.get" ELSE "file.RUnlock")
    BY <1>7 DEF LookUpSearch
  <2>2. k = 0
    BY <1>1, <1>7, <2>1 DEF Goto, TypeOK, CallTypeOK
  <2>3. \A h \in Members : x[g] \notin Interval(h)
    BY <1>3, <2>1, <2>2, SearchDecides
  <2>4. f'[g] = NoFile
    BY <1>1, <1>7 DEF LookUpSearch, LookInv
  <2> QED
    BY <1>1, <1>2, <1>3, <1>4, <1>5, <2>3, <2>4, AbsFiles DEF Members
<1>8. CASE LookUpGet(g)
  <2> DEFINE h == files[i[g]]
  <2>1. i[g] \in 1 .. Len(files) /\ IsFound(i[g], x[g]) /\ f[g] = NoFile /\ files \in Seq(File)
    BY <1>1, <1>8 DEF LookUpGet, LookInv, TypeOK, SharedTypeOK
  <2>2. h \in added /\ h \in Members /\ fbase[h] \in Int /\ fsize[h] \in Int /\ fbase[h] <= x[g]
    BY <2>1, RangeIs, AbsTypes DEF Members, IsFound
  <2>3. CASE x[g] <= fbase[h] + fsize[h]
    <3>1. f'[g] = h /\ x[g] \in Interval(h)
      BY <1>1, <1>3, <1>8, <2>2, <2>3 DEF LookUpGet, Interval, TypeOK, CallTypeOK
    <3> QED
      BY <1>1, <1>2, <1>3, <1>4, <1>5, <2>2, <3>1, AbsFiles DEF Members
  <2>4. CASE ~ (x[g] <= fbase[h] + fsize[h])
    <3>1. f'[g] = NoFile
      BY <1>8, <2>1, <2>4 DEF LookUpGet
    <3>2. x[g] \notin Interval(h) /\ i[g] \in 0 .. Len(files)
      BY <1>3, <2>1, <2>2, <2>4 DEF Interval
    <3>3. \A k \in Members : x[g] \notin Interval(k)
      BY <1>3, <2>1, <3>2, SearchDecides
    <3> QED
      BY <1>1, <1>2, <1>3, <1>4, <1>5, <3>1, <3>3, AbsFiles DEF Members
  <2> QED
    BY <2>3, <2>4
<1> QED
  BY <1>6, <1>7, <1>8 DEF Finds

\* A look-up returns with its answer, which is never "no answer".
LEMMA LeaveShows ==
    ASSUME IInv, NEW g \in Goroutine, LookUpReturn(g)
    PROVE  /\ absAnswer[g] # NoGoroutine
           /\ absAsked' = [absAsked EXCEPT ![g] = 0]
           /\ absAnswer' = [absAnswer EXCEPT ![g] = NoGoroutine]
           /\ Members' = Members /\ added' = added
           /\ absStart' = absStart /\ absEnd' = absEnd
<1>1. Move(g) /\ pc[g] = "file.done" /\ TypeOK
  BY DEF Move, Step, LookUpReturn, IInv
<1>2. pc'[g] = "idle" /\ added' = added /\ files' = files
  BY <1>1 DEF LookUpReturn, Return, Goto, setVars, TypeOK, CallTypeOK
<1>3. absAnswer[g] # NoGoroutine
  BY <1>1, ConstantsAssumption DEF absAnswer, Answered, TypeOK, CallTypeOK
<1>4. \A d \in Goroutine \ {g} : absAsked'[d] = absAsked[d] /\ absAnswer'[d] = absAnswer[d]
  BY <1>1, AbsCalls
<1>5. absAsked'[g] = 0 /\ absAnswer'[g] = NoGoroutine
  BY <1>2 DEF absAsked, absAnswer, Asking, Answered
<1>6. absAsked' = [absAsked EXCEPT ![g] = 0] /\ absAnswer' = [absAnswer EXCEPT ![g] = NoGoroutine]
  BY <1>4, <1>5 DEF absAsked, absAnswer
<1> QED
  BY <1>1, <1>2, <1>3, <1>6, AbsFiles DEF Members

\* All other steps are invisible.
LEMMA OthersShow ==
    ASSUME IInv, NEW g \in Goroutine, Move(g),
           ~ AddFileInsert(g), ~ RemoveFileSplice(g), ~ Finds(g), ~ LookUpReturn(g),
           \A p \in Pos : ~ LookUp(g, p)
    PROVE  /\ Members' = Members /\ added' = added
           /\ absStart' = absStart /\ absEnd' = absEnd
           /\ absAsked' = absAsked /\ absAnswer' = absAnswer
<1>1. TypeOK /\ pc \in [Goroutine -> Statement]
  BY DEF IInv, TypeOK, CallTypeOK
<1>2. files' = files /\ added' = added
  BY SharedStep DEF AddFile, AddFileCheck, history
<1>3. CASE Acquire(g)
  <2>1. /\ x' = x /\ f' = f
        /\ pc[g] \in Asking <=> pc'[g] \in Asking
        /\ pc[g] \in Answered <=> pc'[g] \in Answered
    BY <1>1, <1>3 DEF Acquire, AddFileLock, RemoveFileLock, LookUpRLock, IterateRLock, Goto,
                      Asking, Answered
  <2> QED
    BY <1>2, <2>1, AbsFiles, AbsCalls DEF Members
<1>4. CASE LookUpLoad(g) \/ LookUpSearch(g) \/ LookUpRUnlock(g)
  <2>1. /\ x' = x /\ (pc[g] \in Answered => f' = f)
        /\ pc[g] \in Asking <=> pc'[g] \in Asking
        /\ pc[g] \in Answered <=> pc'[g] \in Answered
    BY <1>1, <1>4 DEF LookUpLoad, LookUpSearch, LookUpRUnlock, Finds, Goto, Asking, Answered
  <2> QED
    BY <1>2, <2>1, AbsFiles, AbsCalls DEF Members
<1>5. CASE pc[g] \notin Asking /\ pc'[g] \notin Asking
  <2>1. absAsked' = absAsked
    <3>1. \A d \in Goroutine \ {g} : absAsked'[d] = absAsked[d]
      BY AbsCalls
    <3> QED
      BY <1>5, <3>1 DEF absAsked
  <2>2. absAnswer' = absAnswer
    BY <1>5, AbsCalls DEF Asking
  <2> QED
    BY <1>2, <2>1, <2>2, AbsFiles DEF Members
<1>6. CASE Call(g)
  <2>1. pc[g] \notin Asking /\ pc'[g] \notin Asking
    BY <1>1, <1>6 DEF Call, AddFile, RemoveFile, Iterate, Begin, Goto, Asking, Answered
  <2> QED
    BY <1>5, <2>1
<1>7. CASE AddFileCheck(g) \/ AddFileStore(g) \/ AddFileUnlock(g) \/ RemoveFileCAS(g)
           \/ RemoveFileSearch(g) \/ RemoveFileUnlock(g) \/ IterateGet(g)
           \/ IterateRUnlock(g) \/ IterateCall(g) \/ IterateReturn(g)
  <2>1. pc[g] \notin Asking
    BY <1>7 DEF AddFileCheck, AddFileStore, AddFileUnlock, RemoveFileCAS, RemoveFileSearch,
                RemoveFileUnlock, IterateGet, IterateRUnlock, IterateCall, IterateReturn,
                Asking, Answered
  <2>2. pc'[g] \notin Asking
    BY <1>1, <1>7
       DEF AddFileCheck, AddFileStore, AddFileUnlock, RemoveFileCAS, RemoveFileSearch,
           RemoveFileUnlock, IterateGet, IterateRUnlock, IterateCall, IterateReturn,
           Goto, Return, Asking, Answered
  <2> QED
    BY <1>5, <2>1, <2>2
<1> QED
  BY <1>3, <1>4, <1>6, <1>7 DEF Move, Step, Finds

-----------------------------------------------------------------------------
\* NoPos is never looked up.
AskInv == \A g \in Goroutine : pc[g] \in Asking => x[g] # 0

\* A look-up keeps its position until it returns.
LEMMA AskStep == IInv /\ AskInv /\ [Next]_vars => AskInv'
<1> SUFFICES ASSUME IInv, AskInv, [Next]_vars, NEW d \in Goroutine, pc'[d] \in Asking
             PROVE  x'[d] # 0
  BY DEF AskInv
<1>1. CASE UNCHANGED vars
  BY <1>1 DEF AskInv, vars, callVars
<1>2. ASSUME NEW g \in Goroutine, Move(g) PROVE x'[d] # 0
  <2>1. CASE d # g
    BY <1>2, <2>1, Others DEF AskInv, IInv, TypeOK
  <2>2. CASE d = g
    <3>1. CallTypeOK
      BY DEF IInv, TypeOK
    <3>2. \/ \E p \in Pos : LookUp(g, p)
          \/ LookUpLoad(g) \/ LookUpRLock(g) \/ LookUpSearch(g)
          \/ LookUpGet(g) \/ LookUpRUnlock(g)
      BY <1>2, <2>2, <3>1, Arrive DEF InLookUp, Asking, Answered
    <3>3. ASSUME NEW p \in Pos, LookUp(g, p) PROVE x'[d] # 0
      BY <2>2, <3>1, <3>3, ConstantsAssumption DEF LookUp, CallTypeOK
    <3>4. CASE LookUpLoad(g) \/ LookUpRLock(g) \/ LookUpSearch(g) \/ LookUpGet(g)
               \/ LookUpRUnlock(g)
      BY <2>2, <3>4 DEF LookUpLoad, LookUpRLock, LookUpSearch, LookUpGet, LookUpRUnlock,
                        AskInv, Asking, Answered
    <3> QED
      BY <3>2, <3>3, <3>4
  <2> QED
    BY <2>1, <2>2
<1> QED
  BY <1>1, <1>2 DEF Next, Move

\* The methods of a file set that any number of goroutines share act like atomic
\* operations on a set of files, but for look-ups that can still find a removed one.
THEOREM Refinement == Spec => ImplementsAbs
<1>1. Init => Abs!AbsInit
  <2> SUFFICES ASSUME Init PROVE Abs!AbsInit
    OBVIOUS
  <2>1. Members = {}
    <3>1. files \in Seq(File) /\ 1 .. Len(files) = {}
      BY DEF Init
    <3> QED
      BY <3>1, RangeIs DEF Members
  <2> QED
    BY <2>1 DEF Init, Abs!AbsInit, absStart, absEnd, absAsked, absAnswer, Asking, Answered
<1>2. IInv /\ AskInv /\ [Next]_vars => [Abs!AbsNext]_Abs!absVars
  <2> SUFFICES ASSUME IInv, AskInv, [Next]_vars PROVE [Abs!AbsNext]_Abs!absVars
    OBVIOUS
  <2>1. CASE UNCHANGED vars
    BY <2>1 DEF vars, setVars, callVars, history, Abs!absVars, Members,
                absStart, absEnd, absAsked, absAnswer
  <2>2. ASSUME NEW g \in Goroutine, Move(g) PROVE [Abs!AbsNext]_Abs!absVars
    <3> USE ConstantsAssumption
    <3>0. Members \subseteq added /\ \A h \in added : h \in File
      BY AbsTypes
    <3>1. CASE AddFileInsert(g)
      <4>1. Abs!Add(f[g], fbase[f[g]], fbase[f[g]] + fsize[f[g]])
        <5>1. \A k \in added : absEnd[k] < fbase[f[g]]
          BY <3>1, InsertShows, AbsTypes
        <5> QED
          BY <3>0, <3>1, <5>1, InsertShows DEF Abs!Add
      <4> QED
        BY <3>1, <4>1, InsertShows DEF Abs!AbsNext
    <3>2. CASE RemoveFileSplice(g)
      <4>1. Abs!Remove(f[g]) /\ f[g] \in File
        BY <3>0, <3>2, SpliceShows DEF Abs!Remove
      <4> QED
        BY <4>1 DEF Abs!AbsNext
    <3>3. ASSUME NEW p \in Pos, LookUp(g, p) PROVE Abs!Ask(g, p)
      BY <3>3, AskShows DEF Abs!Ask
    <3>4. CASE Finds(g)
      <4>1. f'[g] \in Abs!Answers(absAsked[g])
        <5>1. \A h \in added : Abs!Contains(h, x[g]) <=> x[g] \in Interval(h)
          BY <3>4, FindShows, AbsTypes DEF Abs!Contains, Interval
        <5> QED
          BY <3>0, <3>4, <5>1, FindShows DEF Abs!Answers
      <4>2. absAsked[g] # 0
        <5>1. pc[g] \in Asking
          BY <3>4 DEF Finds, LookUpLoad, LookUpSearch, LookUpGet, Asking
        <5> QED
          BY <3>4, <5>1, FindShows DEF AskInv
      <4>3. Abs!Find(g)
        BY <3>4, <4>1, <4>2, FindShows DEF Abs!Find
      <4> QED
        BY <4>3 DEF Abs!AbsNext
    <3>5. CASE LookUpReturn(g)
      <4>1. Abs!Leave(g)
        BY <3>5, LeaveShows DEF Abs!Leave
      <4> QED
        BY <4>1 DEF Abs!AbsNext
    <3>6. CASE /\ ~ AddFileInsert(g) /\ ~ RemoveFileSplice(g) /\ ~ Finds(g)
               /\ ~ LookUpReturn(g) /\ \A p \in Pos : ~ LookUp(g, p)
      BY <2>2, <3>6, OthersShow DEF Abs!absVars
    <3> QED
      BY <3>1, <3>2, <3>3, <3>4, <3>5, <3>6 DEF Abs!AbsNext
  <2> QED
    BY <2>1, <2>2 DEF Next, Move
<1>3. Init => AskInv
  BY DEF Init, AskInv, Asking, Answered
<1> QED
  BY <1>1, <1>2, <1>3, AskStep, Inductive, PTL DEF Spec, ImplementsAbs, Abs!AbsSpec

-----------------------------------------------------------------------------
(* Calls that overlap only where a callback makes one of them.               *)

\* A call in a callback is above iterations that wait for that callback.
NestInv ==
    \A g \in Goroutine : \A d \in within[g] : pc[d] = "Iterate.call" /\ pc[g] # "idle"

\* If no two goroutines are in calls, the calls in progress are on one stack.
StackInv ==
    ~ Concurrent =>
        \A g, d \in Goroutine :
            pc[g] # "idle" /\ pc[d] # "idle" => g = d \/ g \in within[d] \/ d \in within[g]

\* When a call begins and ends, and what one that is not the last waits for.
LEMMA WithinStep ==
    ASSUME NEW g \in Goroutine, Move(g), TypeOK
    PROVE  /\ \/ within' = within /\ pc[g] # "idle" /\ pc'[g] # "idle"
              \/ /\ within' = within /\ pc[g] = "idle"
                 /\ Concurrent \/ \A d \in Goroutine : pc[d] = "idle"
              \/ /\ pc[g] = "idle"
                 /\ \E d \in Goroutine :
                       /\ pc[d] = "Iterate.call" /\ Innermost(d)
                       /\ within' = [within EXCEPT ![g] = within[d] \cup {d}]
              \/ within' = [within EXCEPT ![g] = {}] /\ pc'[g] = "idle"
           /\ pc[g] = "Iterate.call" => Innermost(g)
           /\ pc[g] \in {"idle", "Iterate.call"} => UNCHANGED <<files, last>>
           /\ pc[g] = "idle" => pc'[g] # "idle"
<1>1. \A l \in Statement : Goto(g, l) => pc'[g] = l
  BY DEF Goto, TypeOK, CallTypeOK
<1> USE <1>1, StatementNames DEF setVars, history
<1>2. CASE Call(g)
  <2>1. \E l \in {"AddFile.Lock", "RemoveFile.CAS", "file.load", "Iterate.RLock"} :
           Begin(g, l) /\ UNCHANGED <<files, last>>
    BY <1>2 DEF Call, AddFile, RemoveFile, LookUp, Iterate
  <2> QED
    BY <2>1 DEF Begin
<1>3. CASE Acquire(g)
  BY <1>3 DEF Acquire, AddFileLock, RemoveFileLock, LookUpRLock, IterateRLock
<1>4. CASE AddFileUnlock(g) \/ RemoveFileUnlock(g) \/ LookUpReturn(g) \/ IterateReturn(g)
  BY <1>4 DEF AddFileUnlock, RemoveFileUnlock, LookUpReturn, IterateReturn, Return
<1>5. CASE AddFileCheck(g) \/ AddFileInsert(g) \/ AddFileStore(g)
  BY <1>5 DEF AddFileCheck, AddFileInsert, AddFileStore
<1>6. CASE RemoveFileCAS(g) \/ RemoveFileSearch(g) \/ RemoveFileSplice(g)
  BY <1>6 DEF RemoveFileCAS, RemoveFileSearch, RemoveFileSplice
<1>7. CASE LookUpLoad(g) \/ LookUpSearch(g) \/ LookUpGet(g) \/ LookUpRUnlock(g)
  BY <1>7 DEF LookUpLoad, LookUpSearch, LookUpGet, LookUpRUnlock
<1>8. CASE IterateGet(g) \/ IterateRUnlock(g) \/ IterateCall(g)
  BY <1>8 DEF IterateGet, IterateRUnlock, IterateCall
<1> QED
  BY <1>2, <1>3, <1>4, <1>5, <1>6, <1>7, <1>8 DEF Move, Step

\* Calls nest: a new one is above all that are in progress.
LEMMA NestStep ==
    ASSUME IInv, NestInv, StackInv, NEW g \in Goroutine, Move(g)
    PROVE  NestInv' /\ StackInv'
<1>1. TypeOK /\ within \in [Goroutine -> SUBSET Goroutine]
  BY DEF IInv, TypeOK, HistoryTypeOK
<1>2. \A d \in Goroutine : d # g => pc'[d] = pc[d]
  BY <1>1, Others DEF IInv, TypeOK
<1>3. Concurrent' = Concurrent
  OBVIOUS
\* g itself leaves its callback only when no call is above it.
<1>4. ASSUME NEW e \in Goroutine, g \in within[e] PROVE FALSE
  <2>1. pc[g] = "Iterate.call"
    BY <1>4 DEF NestInv
  <2> QED
    BY <1>1, <1>4, <2>1, WithinStep DEF Innermost
<1>5. CASE within' = within /\ pc[g] # "idle" /\ pc'[g] # "idle"
  <2>1. NestInv'
    BY <1>1, <1>2, <1>4, <1>5 DEF NestInv
  <2>2. StackInv'
    BY <1>2, <1>3, <1>5 DEF StackInv
  <2> QED
    BY <2>1, <2>2
<1>6. CASE /\ within' = within /\ pc[g] = "idle"
           /\ Concurrent \/ \A d \in Goroutine : pc[d] = "idle"
  <2>1. within[g] = {}
    BY <1>1, <1>6 DEF NestInv
  <2>2. NestInv'
    BY <1>1, <1>2, <1>4, <1>6, <2>1 DEF NestInv
  <2>3. StackInv'
    BY <1>2, <1>3, <1>6 DEF StackInv
  <2> QED
    BY <2>2, <2>3
<1>7. CASE /\ pc[g] = "idle"
           /\ \E d \in Goroutine :
                 /\ pc[d] = "Iterate.call" /\ Innermost(d)
                 /\ within' = [within EXCEPT ![g] = within[d] \cup {d}]
  <2>1. PICK d \in Goroutine :
           /\ pc[d] = "Iterate.call" /\ Innermost(d)
           /\ within' = [within EXCEPT ![g] = within[d] \cup {d}]
    BY <1>7
  <2>2. /\ within'[g] = within[d] \cup {d} /\ d # g
        /\ \A e \in Goroutine : e # g => within'[e] = within[e]
        /\ pc'[g] # "idle"
    BY <1>1, <1>7, <2>1, WithinStep
  <2>3. NestInv'
    BY <1>1, <1>2, <1>4, <2>1, <2>2 DEF NestInv
  <2>4. ASSUME ~ Concurrent, NEW e \in Goroutine, pc'[e] # "idle", e # g
        PROVE  e \in within'[g]
    BY <1>2, <2>1, <2>2, <2>4 DEF StackInv, Innermost
  <2>5. StackInv'
    BY <1>2, <1>3, <2>2, <2>4 DEF StackInv
  <2> QED
    BY <2>3, <2>5
<1>8. CASE within' = [within EXCEPT ![g] = {}] /\ pc'[g] = "idle"
  <2>1. within'[g] = {} /\ \A e \in Goroutine : e # g => within'[e] = within[e]
    BY <1>1, <1>8
  <2>2. NestInv'
    BY <1>1, <1>2, <1>4, <2>1 DEF NestInv
  <2>3. StackInv'
    BY <1>2, <1>3, <1>8, <2>1 DEF StackInv
  <2> QED
    BY <2>2, <2>3
<1> QED
  BY <1>1, <1>5, <1>6, <1>7, <1>8, WithinStep

\* The cache holds no file that has been removed, nor the one being removed once
\* its entry has been cleared.
CacheInv ==
    /\ last \in Members \cup {NoFile}
    /\ \A g \in Goroutine :
          /\ pc[g] \in {"RemoveFile.Lock", "RemoveFile.search", "RemoveFile.splice"}
                => last # f[g]
          /\ pc[g] = "AddFile.store" => f[g] \in Members

\* No step of another call comes between: the cache is right between any two.
LEMMA CacheStep ==
    ASSUME ~ Concurrent, IInv, NestInv, StackInv, CacheInv, NEW g \in Goroutine, Move(g)
    PROVE  CacheInv'
<1>1. TypeOK /\ pc \in [Goroutine -> Statement] /\ f \in [Goroutine -> File \cup {NoFile}]
  BY DEF IInv, TypeOK, CallTypeOK
<1>2. ASSUME NEW d \in Goroutine, d # g
      PROVE  /\ pc'[d] \in {"RemoveFile.Lock", "RemoveFile.search", "RemoveFile.splice"}
                   => last' # f'[d]
             /\ pc'[d] = "AddFile.store" => f'[d] \in Members'
  <2>1. pc'[d] = pc[d] /\ f'[d] = f[d]
    BY <1>2, Others DEF IInv, TypeOK
  <2>2. CASE pc[d] \in {"RemoveFile.Lock", "RemoveFile.search", "RemoveFile.splice",
                        "AddFile.store"}
    <3>1. pc[g] \in {"idle", "Iterate.call"}
      BY <1>2, <2>2 DEF StackInv, NestInv
    <3>2. UNCHANGED <<files, last>>
      BY <1>1, <3>1, WithinStep
    <3> QED
      BY <2>1, <3>2 DEF CacheInv, Members
  <2> QED
    BY <2>1, <2>2
<1>3. /\ last \in Members \cup {NoFile} /\ NoFile \notin Members
      /\ pc[g] \in {"RemoveFile.Lock", "RemoveFile.search", "RemoveFile.splice"} => last # f[g]
      /\ pc[g] = "AddFile.store" => f[g] \in Members
  BY ConstantsAssumption, AbsTypes DEF CacheInv
<1>4. SUFFICES /\ last' \in Members' \cup {NoFile}
               /\ pc'[g] \in {"RemoveFile.Lock", "RemoveFile.search", "RemoveFile.splice"}
                     => last' # f'[g]
               /\ pc'[g] = "AddFile.store" => f'[g] \in Members'
  BY <1>2, <1>4 DEF CacheInv
<1>5. CASE AddFileInsert(g)
  <2>1. last' = last /\ f' = f /\ pc'[g] = "AddFile.store" /\ Members' = Members \cup {f[g]}
    BY <1>1, <1>5, InsertShows DEF AddFileInsert, Goto
  <2> QED
    BY <1>3, <2>1
<1>6. CASE RemoveFileSplice(g)
  <2>1. /\ last' = last /\ f' = f /\ pc'[g] = "RemoveFile.unlock"
        /\ Members' = Members \ {f[g]} /\ pc[g] = "RemoveFile.splice"
    BY <1>1, <1>6, SpliceShows DEF RemoveFileSplice, Goto
  <2> QED
    BY <1>3, <2>1
<1>7. CASE AddFileStore(g)
  <2>1. last' = f[g] /\ pc'[g] = "AddFile.unlock" /\ files' = files /\ pc[g] = "AddFile.store"
    BY <1>1, <1>7 DEF AddFileStore, Goto
  <2> QED
    BY <1>3, <2>1 DEF Members
<1>8. CASE RemoveFileCAS(g)
  <2>1. /\ last' = (IF last = f[g] THEN NoFile ELSE last)
        /\ files' = files /\ f' = f /\ pc'[g] = "RemoveFile.Lock" /\ f[g] \in File
    BY <1>1, <1>8, FilesInHand DEF RemoveFileCAS, Goto
  <2> QED
    BY <1>3, <2>1, ConstantsAssumption DEF Members
<1>9. CASE LookUpGet(g)
  <2>1. /\ files \in Seq(File) /\ i[g] \in 1 .. Len(files)
        /\ last' \in {last, files[i[g]]} /\ files' = files /\ pc'[g] = "file.RUnlock"
    BY <1>1, <1>9 DEF LookUpGet, Goto, IInv, LookInv, TypeOK, SharedTypeOK
  <2>2. files[i[g]] \in Members
    BY <2>1, RangeIs DEF Members
  <2> QED
    BY <1>3, <2>1, <2>2 DEF Members
<1>10. CASE UNCHANGED <<files, last>>
  <2>1. CASE pc'[g] \notin {"RemoveFile.Lock", "RemoveFile.search", "RemoveFile.splice",
                            "AddFile.store"}
    BY <1>3, <1>10, <2>1 DEF Members
  <2>2. CASE RemoveFileLock(g) \/ RemoveFileSearch(g)
    <3>1. /\ pc[g] \in {"RemoveFile.Lock", "RemoveFile.search"} /\ f' = f
          /\ pc'[g] # "AddFile.store"
      BY <1>1, <2>2 DEF RemoveFileLock, RemoveFileSearch, Goto
    <3> QED
      BY <1>3, <1>10, <3>1 DEF Members
  <2>3. CASE \/ \E h \in File, b \in BaseArg, n \in Size : AddFile(g, h, b, n)
             \/ \E h \in File : RemoveFile(g, h)
             \/ AddFileLock(g) \/ AddFileCheck(g)
    <3>1. pc'[g] \in {"AddFile.Lock", "AddFile.check", "AddFile.insert", "AddFile.panic",
                      "RemoveFile.CAS"}
      BY <1>1, <2>3 DEF AddFile, RemoveFile, AddFileLock, AddFileCheck, Begin, Goto
    <3> QED
      BY <2>1, <3>1
  <2>4. Goto(g, pc'[g]) /\ CallTypeOK
    BY <1>1, StepGoes DEF Goto, TypeOK
  <2> QED
    BY <1>5, <1>6, <1>8, <2>1, <2>2, <2>3, <2>4, Arrive DEF InAddFile, InRemoveFile
<1>11. CASE AddFileCheck(g) \/ \E h \in File, b \in BaseArg, n \in Size : AddFile(g, h, b, n)
  BY <1>10, <1>11 DEF AddFileCheck, AddFile
<1> QED
  BY <1>5, <1>6, <1>7, <1>8, <1>9, <1>10, <1>11, SharedStep

\* Both invariants hold if no two goroutines are in calls at once.
LEMMA CacheInductive ==
    ASSUME ~ Concurrent
    PROVE  Spec => [](IInv /\ AskInv /\ CacheInv)
<1>1. Init => AskInv /\ NestInv /\ StackInv /\ CacheInv
  BY DEF Init, AskInv, NestInv, StackInv, CacheInv, Asking, Answered
<1>2. IInv /\ NestInv /\ StackInv /\ CacheInv /\ [Next]_vars
         => NestInv' /\ StackInv' /\ CacheInv'
  <2>1. CASE UNCHANGED vars
    BY <2>1 DEF NestInv, StackInv, CacheInv, Members, vars, setVars, callVars, history
  <2> QED
    BY <2>1, NestStep, CacheStep DEF Next, Move
<1> QED
  BY <1>1, <1>2, AskStep, Inductive, PTL DEF Spec

\* If no two goroutines are in calls at once, no look-up finds a file that has been
\* removed, though callbacks call the set while it is iterated over: the set and
\* its look-ups are those of a sequential set of intervals.
THEOREM StrictRefinement == ASSUME ~ Concurrent PROVE Spec => ImplementsStrictAbs
<1>1. Init => StrictAbs!AbsInit
  <2> SUFFICES ASSUME Init PROVE StrictAbs!AbsInit
    OBVIOUS
  <2>1. Members = {}
    <3>1. files \in Seq(File) /\ 1 .. Len(files) = {}
      BY DEF Init
    <3> QED
      BY <3>1, RangeIs DEF Members
  <2> QED
    BY <2>1 DEF Init, StrictAbs!AbsInit, absStart, absEnd, absAsked, absAnswer, Asking, Answered
<1>2. IInv /\ AskInv /\ CacheInv /\ [Next]_vars => [StrictAbs!AbsNext]_StrictAbs!absVars
  <2> SUFFICES ASSUME IInv, AskInv, CacheInv, [Next]_vars
               PROVE  [StrictAbs!AbsNext]_StrictAbs!absVars
    OBVIOUS
  <2>1. CASE UNCHANGED vars
    BY <2>1 DEF vars, setVars, callVars, history, StrictAbs!absVars, Members,
                absStart, absEnd, absAsked, absAnswer
  <2>2. ASSUME NEW g \in Goroutine, Move(g) PROVE [StrictAbs!AbsNext]_StrictAbs!absVars
    <3> USE ConstantsAssumption
    <3>0. Members \subseteq added /\ \A h \in added : h \in File
      BY AbsTypes
    <3>1. CASE AddFileInsert(g)
      <4>1. StrictAbs!Add(f[g], fbase[f[g]], fbase[f[g]] + fsize[f[g]])
        <5>1. \A k \in added : absEnd[k] < fbase[f[g]]
          BY <3>1, InsertShows, AbsTypes
        <5> QED
          BY <3>0, <3>1, <5>1, InsertShows DEF StrictAbs!Add
      <4> QED
        BY <3>1, <4>1, InsertShows DEF StrictAbs!AbsNext
    <3>2. CASE RemoveFileSplice(g)
      <4>1. StrictAbs!Remove(f[g]) /\ f[g] \in File
        BY <3>0, <3>2, SpliceShows DEF StrictAbs!Remove
      <4> QED
        BY <4>1 DEF StrictAbs!AbsNext
    <3>3. ASSUME NEW p \in Pos, LookUp(g, p) PROVE StrictAbs!Ask(g, p)
      BY <3>3, AskShows DEF StrictAbs!Ask
    <3>4. CASE Finds(g)
      <4>1. f'[g] \in StrictAbs!Answers(absAsked[g])
        <5>1. \A h \in added : StrictAbs!Contains(h, x[g]) <=> x[g] \in Interval(h)
          BY <3>4, FindShows, AbsTypes DEF StrictAbs!Contains, Interval
        <5>2. \/ f'[g] \in Members /\ x[g] \in Interval(f'[g])
              \/ f'[g] = NoFile /\ \A h \in Members : x[g] \notin Interval(h)
          BY <3>0, <3>4, FindShows DEF CacheInv
        <5> QED
          BY <3>0, <3>4, <5>1, <5>2, FindShows DEF StrictAbs!Answers
      <4>2. absAsked[g] # 0
        <5>1. pc[g] \in Asking
          BY <3>4 DEF Finds, LookUpLoad, LookUpSearch, LookUpGet, Asking
        <5> QED
          BY <3>4, <5>1, FindShows DEF AskInv
      <4>3. StrictAbs!Find(g)
        BY <3>4, <4>1, <4>2, FindShows DEF StrictAbs!Find
      <4> QED
        BY <4>3 DEF StrictAbs!AbsNext
    <3>5. CASE LookUpReturn(g)
      <4>1. StrictAbs!Leave(g)
        BY <3>5, LeaveShows DEF StrictAbs!Leave
      <4> QED
        BY <4>1 DEF StrictAbs!AbsNext
    <3>6. CASE /\ ~ AddFileInsert(g) /\ ~ RemoveFileSplice(g) /\ ~ Finds(g)
               /\ ~ LookUpReturn(g) /\ \A p \in Pos : ~ LookUp(g, p)
      BY <2>2, <3>6, OthersShow DEF StrictAbs!absVars
    <3> QED
      BY <3>1, <3>2, <3>3, <3>4, <3>5, <3>6 DEF StrictAbs!AbsNext
  <2> QED
    BY <2>1, <2>2 DEF Next, Move
<1> QED
  BY <1>1, <1>2, CacheInductive, PTL DEF Spec, ImplementsStrictAbs, StrictAbs!AbsSpec


-----------------------------------------------------------------------------
(* What an iteration skips.                                                  *)

\* Only files that have been in the set are lost, finitely many and for ever.
LostInv ==
    /\ IsFiniteSet(added)
    /\ \A g \in Goroutine : lost[g] \subseteq added /\ lost[g] \cap Members = {}

\* The files of S may be skipped by g's iteration: files before them, and no fewer,
\* have been removed meanwhile.
Excused(g, S) ==
    /\ \A h \in S : \E k \in lost[g] : fbase[k] < fbase[h]
    /\ Cardinality(S) <= Cardinality(lost[g])

\* The files of g's iteration that are before index n.
Passed(g, n) == {h \in stable[g] : \E k \in 1 .. Len(files) : k < n /\ h = files[k]}

\* The files an iteration has passed have been visited, or may be skipped.
VisitInv ==
    \A g \in Goroutine :
        /\ pc[g] \in {"Iterate.RLock", "Iterate.get"} =>
              Excused(g, Passed(g, i[g]) \ seen[g])
        /\ pc[g] \in {"Iterate.RUnlock", "Iterate.call"} /\ f[g] # NoFile =>
              Excused(g, Passed(g, i[g] + 1) \ (seen[g] \cup {f[g]}))
        /\ (pc[g] = "Iterate.RUnlock" /\ f[g] = NoFile) \/ pc[g] = "Iterate.end" =>
              Excused(g, stable[g] \ seen[g])

\* A set with fewer files needs no other excuse.
LEMMA ExcusedSubset ==
    ASSUME NEW g \in Goroutine, NEW S, NEW R, R \subseteq S, IsFiniteSet(S),
           IsFiniteSet(lost[g]), Excused(g, S)
    PROVE  Excused(g, R)
<1>1. Cardinality(R) <= Cardinality(S) /\ Cardinality(R) \in Nat /\ Cardinality(S) \in Nat
      /\ Cardinality(lost[g]) \in Nat
  BY FS_Subset, FS_CardinalityType
<1> QED
  BY <1>1 DEF Excused

\* The sets of files that occur are finite, and their bases are integers.
LEMMA FiniteFiles ==
    ASSUME IInv, LostInv, NEW g \in Goroutine
    PROVE  /\ stable[g] \subseteq Members /\ Members \subseteq added
           /\ IsFiniteSet(lost[g]) /\ IsFiniteSet(stable[g])
           /\ \A h \in added : fbase[h] \in Int
<1>1. stable[g] \subseteq Members /\ Members \subseteq added
  BY AbsTypes DEF IInv, LookInv
<1>2. IsFiniteSet(lost[g]) /\ IsFiniteSet(stable[g])
  BY <1>1, FS_Subset DEF LostInv
<1> QED
  BY <1>1, <1>2, AbsTypes

\* What a step does to the files that a call has lost, and to those that it has not.
LEMMA LostStep ==
    ASSUME IInv, NEW g \in Goroutine, Move(g), NEW d \in Goroutine
    PROVE  \/ /\ RemoveFileSplice(g)
              /\ lost'[d] = IF pc[d] \in Iterating THEN lost[d] \cup {f[g]} ELSE lost[d]
              /\ stable'[d] = stable[d] \ {f[g]}
           \/ /\ files' = files \/ AddFileInsert(g)
              /\ lost'[d] = lost[d] \/ (d = g /\ lost'[d] = {} /\ pc'[g] = "idle")
              /\ d # g \/ pc[d] \in Iterating \ {"Iterate.stop", "Iterate.end"}
                    => stable'[d] = stable[d]
<1>1. TypeOK /\ HistoryTypeOK /\ \A l \in Statement : Goto(g, l) => pc'[g] = l
  BY DEF IInv, TypeOK, CallTypeOK, Goto
<1> USE <1>1, StatementNames DEF setVars, history, HistoryTypeOK, Iterating
<1>2. CASE Call(g)
  BY <1>2 DEF Call, AddFile, RemoveFile, LookUp, Iterate, Begin
<1>3. CASE Acquire(g)
  BY <1>3 DEF Acquire, AddFileLock, RemoveFileLock, LookUpRLock, IterateRLock
<1>4. CASE AddFileUnlock(g) \/ RemoveFileUnlock(g) \/ LookUpReturn(g) \/ IterateReturn(g)
  BY <1>4 DEF AddFileUnlock, RemoveFileUnlock, LookUpReturn, IterateReturn, Return
<1>5. CASE AddFileCheck(g) \/ AddFileInsert(g) \/ AddFileStore(g)
  BY <1>5 DEF AddFileCheck, AddFileInsert, AddFileStore
<1>6. CASE RemoveFileCAS(g) \/ RemoveFileSearch(g)
  BY <1>6 DEF RemoveFileCAS, RemoveFileSearch
<1>7. CASE RemoveFileSplice(g)
  BY <1>7 DEF RemoveFileSplice, Losing
<1>8. CASE LookUpLoad(g) \/ LookUpSearch(g) \/ LookUpGet(g) \/ LookUpRUnlock(g)
  BY <1>8 DEF LookUpLoad, LookUpSearch, LookUpGet, LookUpRUnlock
<1>9. CASE IterateGet(g) \/ IterateRUnlock(g) \/ IterateCall(g)
  BY <1>9 DEF IterateGet, IterateRUnlock, IterateCall
<1> QED
  BY <1>2, <1>3, <1>4, <1>5, <1>6, <1>7, <1>8, <1>9 DEF Move, Step

\* A file that was lost does not come back.
LEMMA LostInvStep ==
    ASSUME IInv, LostInv, NEW g \in Goroutine, Move(g)
    PROVE  LostInv'
<1>1. added' = added \/ (AddFileInsert(g) /\ added' = added \cup {f[g]})
  BY SharedStep DEF AddFile, AddFileCheck, AddFileInsert, RemoveFileSplice, history
<1>2. IsFiniteSet(added')
  BY <1>1, FS_AddElement DEF LostInv
<1>3. ASSUME NEW d \in Goroutine
      PROVE  lost'[d] \subseteq added' /\ lost'[d] \cap Members' = {}
  <2>1. CASE RemoveFileSplice(g)
    <3>1. f[g] \in added /\ added' = added /\ Members' = Members \ {f[g]}
      BY <2>1, SpliceShows, AbsTypes
    <3>2. lost'[d] \subseteq lost[d] \cup {f[g]}
      BY <2>1, LostStep DEF AddFileInsert, RemoveFileSplice, Goto
    <3> QED
      BY <3>1, <3>2 DEF LostInv
  <2>2. CASE AddFileInsert(g)
    <3>1. lost'[d] = lost[d]
      BY <2>2 DEF AddFileInsert
    <3> QED
      BY <2>2, <3>1, InsertShows DEF LostInv
  <2>3. CASE files' = files /\ lost'[d] \subseteq lost[d]
    BY <1>1, <2>3 DEF LostInv, Members
  <2> QED
    BY <2>1, <2>2, <2>3, LostStep
<1> QED
  BY <1>2, <1>3 DEF LostInv

\* What an iteration of d may skip of what it has passed, it may skip after a step
\* that is not its own: a file that is removed before index n brings the one at n
\* before it, and is one more that is lost.
LEMMA OthersExcused ==
    ASSUME IInv, LostInv, NEW g \in Goroutine, Move(g), NEW d \in Goroutine, d # g,
           pc[d] \in Iterating, NEW n \in Nat, NEW V
    PROVE  /\ Excused(d, Passed(d, n) \ V) => Excused(d, Passed(d, n) \ V)'
           /\ Excused(d, stable[d] \ V) => Excused(d, stable[d] \ V)'
<1>1. /\ stable[d] \subseteq added /\ lost[d] \subseteq added
      /\ IsFiniteSet(lost[d]) /\ IsFiniteSet(stable[d])
      /\ \A h \in added : fbase[h] \in Int /\ fbase'[h] = fbase[h]
      /\ added \subseteq added'
  BY FiniteFiles, AddedFrame DEF LostInv
<1>2. files \in Seq(File) /\ Len(files) \in Nat
  BY DEF IInv, TypeOK, SharedTypeOK
<1>3. IsFiniteSet(Passed(d, n) \ V) /\ IsFiniteSet(stable[d] \ V)
      /\ Passed(d, n) \subseteq stable[d]
  <2>1. Passed(d, n) \subseteq stable[d]
    BY DEF Passed
  <2> QED
    BY <1>1, <2>1, FS_Subset
<1>4. CASE ~ RemoveFileSplice(g)
  <2>1. lost'[d] = lost[d] /\ stable'[d] = stable[d] /\ (files' = files \/ AddFileInsert(g))
    BY <1>4, LostStep
  <2>2. Passed(d, n)' \subseteq Passed(d, n)
    <3>1. CASE files' = files
      BY <2>1, <3>1 DEF Passed
    <3>2. CASE AddFileInsert(g)
      <4>1. files' = Append(files, f[g]) /\ f[g] \in File \ added
        BY <3>2, InsertShows DEF AddFileInsert
      <4>2. /\ Len(files') = Len(files) + 1 /\ files'[Len(files) + 1] = f[g]
            /\ \A k \in 1 .. Len(files) : files'[k] = files[k]
        BY <1>2, <4>1, AppendProperties
      <4>3. ASSUME NEW h \in stable[d], NEW k \in 1 .. Len(files'), k < n, h = files'[k]
            PROVE  k \in 1 .. Len(files) /\ h = files[k]
        BY <1>1, <1>2, <4>1, <4>2, <4>3
      <4> QED
        BY <2>1, <4>3 DEF Passed
    <3> QED
      BY <2>1, <3>1, <3>2
  <2>3. Excused(d, Passed(d, n) \ V) => Excused(d, (Passed(d, n)' \ V))
    BY <1>1, <1>3, <2>2, ExcusedSubset
  <2>4. \A h \in stable[d] : h \in added
    BY <1>1
  <2>5. ASSUME NEW S, S \subseteq stable[d], Excused(d, S)
        PROVE  /\ \A h \in S : \E k \in lost'[d] : fbase'[k] < fbase'[h]
               /\ Cardinality(S) <= Cardinality(lost'[d])
    BY <1>1, <2>1, <2>5 DEF Excused
  <2>6. Passed(d, n)' \ V \subseteq stable[d]
    BY <1>3, <2>2
  <2> QED
    BY <2>1, <2>3, <2>5, <2>6 DEF Excused
<1>5. CASE RemoveFileSplice(g)
  <2> DEFINE r == f[g]
  <2>1. /\ lost'[d] = lost[d] \cup {r} /\ stable'[d] = stable[d] \ {r}
        /\ fbase' = fbase
    BY <1>5, LostStep DEF RemoveFileSplice, AddFileInsert, Losing, IInv, TypeOK, HistoryTypeOK
  <2>2. r \in added /\ r \notin lost[d]
    BY <1>5, SpliceShows, AbsTypes DEF LostInv
  <2>3. /\ Cardinality(lost'[d]) = Cardinality(lost[d]) + 1
        /\ Cardinality(lost[d]) \in Nat /\ IsFiniteSet(lost'[d])
    BY <1>1, <2>1, <2>2, FS_AddElement, FS_CardinalityType
  \* One more may be skipped, if it comes after the file removed.
  <2>4. ASSUME NEW S, IsFiniteSet(S), Excused(d, S), NEW R, NEW k \in added,
               fbase[r] < fbase[k] \/ R \subseteq S, R \subseteq S \cup {k}
        PROVE  /\ \A h \in R : \E m \in lost'[d] : fbase'[m] < fbase'[h]
               /\ Cardinality(R) <= Cardinality(lost'[d])
    <3>1. \A h \in R : \E m \in lost'[d] : fbase'[m] < fbase'[h]
      BY <2>1, <2>4 DEF Excused
    <3>2. /\ IsFiniteSet(S \cup {k}) /\ Cardinality(S) \in Nat
          /\ Cardinality(S \cup {k}) <= Cardinality(S) + 1
      BY <2>4, FS_AddElement, FS_CardinalityType
    <3>3. Cardinality(R) <= Cardinality(S \cup {k})
          /\ Cardinality(R) \in Nat /\ Cardinality(S \cup {k}) \in Nat
      BY <2>4, <3>2, FS_Subset, FS_CardinalityType
    <3> QED
      BY <2>3, <2>4, <3>1, <3>2, <3>3 DEF Excused
  <2>5. Excused(d, stable[d] \ V) => Excused(d, stable[d] \ V)'
    <3> SUFFICES ASSUME Excused(d, stable[d] \ V) PROVE Excused(d, stable[d] \ V)'
      OBVIOUS
    <3>1. stable'[d] \ V \subseteq stable[d] \ V
      BY <2>1
    <3> HIDE DEF r
    <3>2. /\ \A h \in stable'[d] \ V : \E m \in lost'[d] : fbase'[m] < fbase'[h]
          /\ Cardinality(stable'[d] \ V) <= Cardinality(lost'[d])
      BY <1>3, <2>2, <2>4, <3>1
    <3> QED
      BY <3>2 DEF Excused
  <2>6. Excused(d, Passed(d, n) \ V) => Excused(d, Passed(d, n) \ V)'
    <3> SUFFICES ASSUME Excused(d, Passed(d, n) \ V) PROVE Excused(d, Passed(d, n) \ V)'
      OBVIOUS
    <3>1. files' = RemoveAt(files, i[g]) /\ i[g] \in 1 .. Len(files) /\ files[i[g]] = r
      BY <1>5 DEF RemoveFileSplice, IInv, RemoveInv
    <3>2. /\ Len(files') = Len(files) - 1
          /\ \A j \in 1 .. Len(files) - 1 :
                files'[j] = IF j < i[g] THEN files[j] ELSE files[j + 1]
      BY <1>2, <3>1, RemoveAtType
    <3> HIDE DEF r
    <3>3. CASE i[g] < n /\ n <= Len(files)
      <4>1. files[n] \in added /\ fbase[r] < fbase[files[n]]
        <5>1. n \in 1 .. Len(files)
          BY <1>2, <3>1, <3>3
        <5>2. files[n] \in added /\ Below(r, files[n])
          BY <3>1, <3>3, <5>1 DEF IInv, SortedInv
        <5>3. fbase[r] \in Int /\ fsize[r] \in Int /\ fsize[r] >= 0
              /\ fbase[files[n]] \in Int
          BY <2>2, <5>2, AbsTypes DEF IInv, AddedInv
        <5> QED
          BY <5>2, <5>3 DEF Below
      <4>2. Passed(d, n)' \subseteq Passed(d, n) \cup {files[n]}
        <5>1. ASSUME NEW h \in stable'[d], NEW k \in 1 .. Len(files'), k < n, h = files'[k]
              PROVE  h = files[n] \/ \E m \in 1 .. Len(files) : m < n /\ h = files[m]
          <6>1. CASE k < i[g]
            BY <1>2, <3>1, <3>2, <5>1, <6>1
          <6>2. CASE ~ (k < i[g])
            <7>1. k + 1 \in 1 .. Len(files) /\ h = files[k + 1]
              BY <1>2, <3>1, <3>2, <5>1, <6>2
            <7>2. k + 1 < n \/ k + 1 = n
              BY <5>1
            <7> QED
              BY <7>1, <7>2
          <6> QED
            BY <6>1, <6>2
        <5> QED
          BY <2>1, <5>1 DEF Passed
      <4>3. Passed(d, n)' \ V \subseteq (Passed(d, n) \ V) \cup {files[n]}
        BY <4>2
      <4>4. /\ \A h \in Passed(d, n)' \ V : \E m \in lost'[d] : fbase'[m] < fbase'[h]
            /\ Cardinality(Passed(d, n)' \ V) <= Cardinality(lost'[d])
        BY <1>3, <2>4, <4>1, <4>3
      <4> QED
        BY <4>4 DEF Excused
    <3>4. CASE ~ (i[g] < n /\ n <= Len(files))
      <4>1. Passed(d, n)' \subseteq Passed(d, n)
        <5>1. ASSUME NEW h \in stable'[d], NEW k \in 1 .. Len(files'), k < n, h = files'[k]
              PROVE  \E m \in 1 .. Len(files) : m < n /\ h = files[m]
          <6>1. CASE k < i[g]
            BY <1>2, <3>1, <3>2, <5>1, <6>1
          <6>2. CASE ~ (k < i[g])
            <7>1. k + 1 \in 1 .. Len(files) /\ h = files[k + 1]
              BY <1>2, <3>1, <3>2, <5>1, <6>2
            <7>2. k + 1 < n
              BY <1>2, <3>1, <3>4, <5>1, <6>2, <7>1
            <7> QED
              BY <7>1, <7>2
          <6> QED
            BY <6>1, <6>2
        <5> QED
          BY <2>1, <5>1 DEF Passed
      <4>2. Passed(d, n)' \ V \subseteq Passed(d, n) \ V
        BY <4>1
      <4>3. /\ \A h \in Passed(d, n)' \ V : \E m \in lost'[d] : fbase'[m] < fbase'[h]
            /\ Cardinality(Passed(d, n)' \ V) <= Cardinality(lost'[d])
        BY <1>3, <2>2, <2>4, <4>2
      <4> QED
        BY <4>3 DEF Excused
    <3> QED
      BY <3>3, <3>4
  <2> QED
    BY <2>5, <2>6
<1> QED
  BY <1>4, <1>5

\* The iteration's own steps visit the next file, or find that there is none.
LEMMA OwnVisit ==
    ASSUME IInv, LostInv, VisitInv, NEW g \in Goroutine, Move(g)
    PROVE  /\ pc'[g] \in {"Iterate.RLock", "Iterate.get"} =>
                 Excused(g, Passed(g, i[g]) \ seen[g])'
           /\ pc'[g] \in {"Iterate.RUnlock", "Iterate.call"} /\ f'[g] # NoFile =>
                 Excused(g, Passed(g, i[g] + 1) \ (seen[g] \cup {f[g]}))'
           /\ (pc'[g] = "Iterate.RUnlock" /\ f'[g] = NoFile) \/ pc'[g] = "Iterate.end" =>
                 Excused(g, stable[g] \ seen[g])'
<1>1. /\ TypeOK /\ CallTypeOK /\ pc \in [Goroutine -> Statement]
      /\ i[g] \in Nat /\ files \in Seq(File) /\ Len(files) \in Nat
  BY DEF IInv, TypeOK, SharedTypeOK, CallTypeOK
<1>2. IsFiniteSet(lost[g]) /\ IsFiniteSet(stable[g]) /\ stable[g] \subseteq Members
  BY FiniteFiles
<1>3. SUFFICES ASSUME pc'[g] \in {"Iterate.RLock", "Iterate.get", "Iterate.RUnlock",
                                  "Iterate.call", "Iterate.end"}
               PROVE  /\ pc'[g] \in {"Iterate.RLock", "Iterate.get"} =>
                            Excused(g, Passed(g, i[g]) \ seen[g])'
                      /\ pc'[g] \in {"Iterate.RUnlock", "Iterate.call"} /\ f'[g] # NoFile =>
                            Excused(g, Passed(g, i[g] + 1) \ (seen[g] \cup {f[g]}))'
                      /\ (pc'[g] = "Iterate.RUnlock" /\ f'[g] = NoFile)
                           \/ pc'[g] = "Iterate.end" =>
                            Excused(g, stable[g] \ seen[g])'
  OBVIOUS
<1>4. Iterate(g) \/ IterateRLock(g) \/ IterateGet(g) \/ IterateRUnlock(g) \/ IterateCall(g)
  BY <1>1, <1>3, Arrive DEF InIterate
<1>5. CASE Iterate(g)
  <2>1. i'[g] = 1 /\ pc'[g] = "Iterate.RLock" /\ lost'[g] = lost[g]
    BY <1>1, <1>5 DEF Iterate, Begin, Goto, CallTypeOK
  <2>2. Passed(g, i[g])' = {}
    BY <2>1 DEF Passed
  <2>3. Cardinality(lost[g]) \in Nat /\ Cardinality({}) = 0
    BY <1>2, FS_CardinalityType, FS_EmptySet
  <2> QED
    BY <2>1, <2>2, <2>3 DEF Excused
<1>6. CASE IterateRLock(g)
  <2>1. /\ UNCHANGED <<i, seen, files, fbase, stable, lost>> /\ pc[g] = "Iterate.RLock"
        /\ pc'[g] = "Iterate.get"
    BY <1>1, <1>6 DEF IterateRLock, Goto, setVars, history
  <2>2. Excused(g, Passed(g, i[g]) \ seen[g])
    BY <2>1 DEF VisitInv
  <2> QED
    BY <2>1, <2>2 DEF Excused, Passed
<1>7. CASE IterateGet(g)
  <2>1. /\ UNCHANGED <<i, seen, files, fbase, stable, lost>> /\ pc[g] = "Iterate.get"
        /\ pc'[g] = "Iterate.RUnlock"
        /\ f'[g] = IF i[g] <= Len(files) THEN files[i[g]] ELSE NoFile
    BY <1>1, <1>7 DEF IterateGet, Goto, setVars, history, CallTypeOK
  <2>2. Excused(g, Passed(g, i[g]) \ seen[g]) /\ i[g] >= 1
    BY <2>1 DEF VisitInv, IInv, IterInv
  <2>3. IsFiniteSet(Passed(g, i[g]) \ seen[g])
    BY <1>2, FS_Subset DEF Passed
  <2>4. CASE f'[g] # NoFile
    <3>1. i[g] <= Len(files) /\ f'[g] = files[i[g]]
      BY <2>1, <2>4
    <3>2. Passed(g, i[g] + 1) \subseteq Passed(g, i[g]) \cup {f'[g]}
      <4>1. \A k \in 1 .. Len(files) : k < i[g] + 1 => k < i[g] \/ k = i[g]
        BY <1>1
      <4> QED
        BY <3>1, <4>1 DEF Passed
    <3>3. Passed(g, i[g] + 1) \ (seen[g] \cup {f'[g]}) \subseteq Passed(g, i[g]) \ seen[g]
      BY <3>2
    <3>4. Excused(g, Passed(g, i[g] + 1) \ (seen[g] \cup {f'[g]}))
      BY <1>2, <2>2, <2>3, <3>3, ExcusedSubset
    <3> QED
      BY <2>1, <2>4, <3>4 DEF Excused, Passed
  <2>5. CASE f'[g] = NoFile
    <3>1. ~ (i[g] <= Len(files))
      <4>1. ASSUME i[g] <= Len(files) PROVE FALSE
        <5>1. files[i[g]] \in File
          BY <1>1, <2>2, <4>1
        <5> QED
          BY <2>1, <2>5, <4>1, <5>1, ConstantsAssumption
      <4> QED
        BY <4>1
    <3>2. stable[g] \subseteq Passed(g, i[g])
      <4>1. ASSUME NEW h \in stable[g] PROVE \E k \in 1 .. Len(files) : k < i[g] /\ h = files[k]
        <5>1. PICK k \in 1 .. Len(files) : h = files[k]
          BY <1>1, <1>2, RangeIs DEF Members
        <5> QED
          BY <1>1, <3>1, <5>1
      <4> QED
        BY <4>1 DEF Passed
    <3>3. stable[g] \ seen[g] \subseteq Passed(g, i[g]) \ seen[g]
      BY <3>2
    <3>4. Excused(g, stable[g] \ seen[g])
      BY <1>2, <2>2, <2>3, <3>3, ExcusedSubset
    <3> QED
      BY <2>1, <2>5, <3>4 DEF Excused
  <2> QED
    BY <2>4, <2>5
<1>8. CASE IterateRUnlock(g)
  <2>1. /\ UNCHANGED <<f, i, seen, files, fbase, stable, lost>> /\ pc[g] = "Iterate.RUnlock"
        /\ pc'[g] = IF f[g] = NoFile THEN "Iterate.end" ELSE "Iterate.call"
    BY <1>1, <1>8 DEF IterateRUnlock, Goto, setVars, history
  <2> QED
    BY <2>1 DEF VisitInv, Excused, Passed
<1>9. CASE IterateCall(g)
  <2>1. /\ i'[g] = i[g] + 1 /\ UNCHANGED <<files, fbase, stable, lost>>
        /\ pc[g] = "Iterate.call" /\ pc'[g] = "Iterate.RLock"
        /\ seen'[g] = seen[g] \cup {f[g]}
    BY <1>1, <1>3, <1>9 DEF IterateCall, Goto, setVars, CallTypeOK, TypeOK, HistoryTypeOK
  <2>2. Excused(g, Passed(g, i[g] + 1) \ (seen[g] \cup {f[g]}))
    BY <2>1 DEF VisitInv, IInv, IterInv
  <2> QED
    BY <2>1, <2>2 DEF Excused, Passed
<1> QED
  BY <1>4, <1>5, <1>6, <1>7, <1>8, <1>9

\* Every step keeps the invariant of the iterations.
LEMMA VisitStep ==
    ASSUME IInv, LostInv, VisitInv, NEW g \in Goroutine, Move(g)
    PROVE  VisitInv'
<1>1. ASSUME NEW d \in Goroutine, d # g
      PROVE  /\ pc'[d] \in {"Iterate.RLock", "Iterate.get"} =>
                   Excused(d, Passed(d, i[d]) \ seen[d])'
             /\ pc'[d] \in {"Iterate.RUnlock", "Iterate.call"} /\ f'[d] # NoFile =>
                   Excused(d, Passed(d, i[d] + 1) \ (seen[d] \cup {f[d]}))'
             /\ (pc'[d] = "Iterate.RUnlock" /\ f'[d] = NoFile) \/ pc'[d] = "Iterate.end" =>
                   Excused(d, stable[d] \ seen[d])'
  <2>1. pc'[d] = pc[d] /\ f'[d] = f[d] /\ i'[d] = i[d] /\ seen'[d] = seen[d]
    BY <1>1, Others, OthersSeen DEF IInv, TypeOK
  <2>2. PICK n \in Nat, S \in SUBSET File, F \in File \cup {NoFile} :
           n = i[d] /\ S = seen[d] /\ F = f[d]
    BY DEF IInv, TypeOK, CallTypeOK, HistoryTypeOK
  <2>3. n + 1 \in Nat
    OBVIOUS
  <2>4. CASE pc[d] \in {"Iterate.RLock", "Iterate.get"}
    <3>1. Excused(d, Passed(d, n) \ S)
      BY <2>2, <2>4 DEF VisitInv
    <3>2. Excused(d, Passed(d, n) \ S)'
      BY <1>1, <2>4, <3>1, OthersExcused DEF Iterating
    <3> QED
      BY <2>1, <2>2, <2>4, <3>2
  <2>5. CASE pc[d] \in {"Iterate.RUnlock", "Iterate.call"} /\ f[d] # NoFile
    <3>1. Excused(d, Passed(d, n + 1) \ (S \cup {F}))
      BY <2>2, <2>5 DEF VisitInv
    <3>2. Excused(d, Passed(d, n + 1) \ (S \cup {F}))'
      BY <1>1, <2>3, <2>5, <3>1, OthersExcused DEF Iterating
    <3> QED
      BY <2>1, <2>2, <2>5, <3>2
  <2>6. CASE (pc[d] = "Iterate.RUnlock" /\ f[d] = NoFile) \/ pc[d] = "Iterate.end"
    <3>1. Excused(d, stable[d] \ S)
      BY <2>2, <2>6 DEF VisitInv
    <3>2. Excused(d, stable[d] \ S)'
      BY <1>1, <2>3, <2>6, <3>1, OthersExcused DEF Iterating
    <3> QED
      BY <2>1, <2>2, <2>6, <3>2
  <2> QED
    BY <2>1, <2>4, <2>5, <2>6
<1> QED
  BY <1>1, OwnVisit DEF VisitInv

\* An iteration that is not stopped visits the files that are in the set all the
\* time, but for at most one later file for each that is removed meanwhile.
THEOREM IterateIsComplete == Spec => []IterateComplete
<1>1. Init => LostInv /\ VisitInv
  BY FS_EmptySet DEF Init, LostInv, VisitInv
<1>2. IInv /\ LostInv /\ VisitInv /\ [Next]_vars => LostInv' /\ VisitInv'
  <2>1. CASE UNCHANGED vars
    <3>1. ASSUME IInv, LostInv PROVE LostInv'
      BY <2>1, <3>1 DEF LostInv, Members, vars, setVars, history
    <3>2. UNCHANGED <<pc, f, i, seen, files, fbase, stable, lost>>
      BY <2>1 DEF vars, setVars, callVars, history
    <3>3. ASSUME VisitInv, NEW g \in Goroutine
          PROVE  /\ pc'[g] \in {"Iterate.RLock", "Iterate.get"} =>
                       Excused(g, Passed(g, i[g]) \ seen[g])'
                 /\ pc'[g] \in {"Iterate.RUnlock", "Iterate.call"} /\ f'[g] # NoFile =>
                       Excused(g, Passed(g, i[g] + 1) \ (seen[g] \cup {f[g]}))'
                 /\ (pc'[g] = "Iterate.RUnlock" /\ f'[g] = NoFile)
                      \/ pc'[g] = "Iterate.end" =>
                       Excused(g, stable[g] \ seen[g])'
      <4>1. /\ Excused(g, Passed(g, i[g]) \ seen[g])' <=> Excused(g, Passed(g, i[g]) \ seen[g])
            /\ Excused(g, Passed(g, i[g] + 1) \ (seen[g] \cup {f[g]}))'
                  <=> Excused(g, Passed(g, i[g] + 1) \ (seen[g] \cup {f[g]}))
            /\ Excused(g, stable[g] \ seen[g])' <=> Excused(g, stable[g] \ seen[g])
        BY <3>2 DEF Excused, Passed
      <4>2. pc'[g] = pc[g] /\ f'[g] = f[g]
        BY <3>2
      <4> QED
        BY <3>3, <4>1, <4>2 DEF VisitInv
    <3> QED
      BY <3>1, <3>3 DEF VisitInv
  <2> QED
    BY <2>1, LostInvStep, VisitStep DEF Next, Move
<1>3. VisitInv => IterateComplete
  BY DEF VisitInv, Excused, IterateComplete
<1> QED
  BY <1>1, <1>2, <1>3, Inductive, PTL DEF Spec
==============================================================================
