------------------------------- MODULE FileSet -------------------------------
(***************************************************************************)
(* token.FileSet (src/token/position.go): a set of source files, each with *)
(* an interval [base, base+size] of Pos values, used by many goroutines at *)
(* once.  The set is guarded by a sync.RWMutex; `last`, the cache of the   *)
(* file looked up most recently, is an atomic pointer that the fast path   *)
(* of a lookup and the first statement of RemoveFile use without the lock. *)
(*                                                                         *)
(* Each goroutine runs one call at a time; pc[g] is the statement it is    *)
(* about to execute and f[g], x[g], i[g] are the locals of that call.      *)
(* Iterate holds no lock while its callback runs, so the callback may call *)
(* the set itself, Iterate included: such a call is that of another member *)
(* of Goroutine, and within[g] are the iterations below it on the stack.   *)
(* Statements of a critical section are separate steps wherever the lock   *)
(* is what keeps them together, so it is the lock, not the granularity of  *)
(* the model, that makes the properties below hold.                        *)
(***************************************************************************)
EXTENDS Integers, Sequences, FiniteSets, SequencesExt

CONSTANTS
    Goroutine,  \* the goroutines that share the file set, and nested calls
    Concurrent, \* do calls of the set overlap, other than nested ones?
    File,       \* the *File values the program can allocate or hold
    Foreign,    \* those of them that belong to another file set
    MaxInt,     \* the largest int; arithmetic wraps to -MaxInt-1
    Size,       \* the sizes passed to AddFile
    BaseArg,    \* the base offsets passed to AddFile
    Pos,        \* the positions looked up, NoPos excluded
    NoFile,     \* a nil *File
    NoGoroutine \* the lock has no writer

ASSUME ConstantsAssumption ==
    /\ Concurrent \in BOOLEAN
    /\ MaxInt \in Nat \ {0}
    /\ Foreign \subseteq File
    /\ Size \subseteq -1 .. MaxInt
    /\ BaseArg \subseteq -1 .. MaxInt
    /\ Pos \subseteq Int \ {0}
    /\ NoFile \notin File
    /\ NoGoroutine \notin Goroutine \cup File \cup {NoFile}

VARIABLES
    base, files, last,  \* FileSet.base, FileSet.files, FileSet.last
    writer, readers,    \* FileSet.mutex: its writer, its readers
    fbase, fsize,       \* File.base, File.size
    pc, f, x, i,        \* each goroutine's next statement and locals
    allocated,          \* the files some AddFile has allocated
    within,             \* within[g]: the iterations whose callback made g's call
    \* History variables: nothing in the code reads them.
    added,              \* the files AddFile has put into the set, ever
    retired,            \* the files some completed RemoveFile was given
    gone,               \* gone[g]: retired when g's call began
    stable,             \* stable[g]: in the set ever since g's call began
    lost,               \* lost[g]: removed from the set since g's Iterate began
    seen                \* seen[g]: the files g's Iterate has called its f with

setVars == <<base, files, last, fbase, fsize, allocated>>
lockVars == <<writer, readers>>
callVars == <<pc, f, x, i>>
history == <<within, added, retired, gone, stable, lost, seen>>
vars == <<setVars, lockVars, callVars, history>>

-----------------------------------------------------------------------------
\* int addition, which wraps.
Wrap(n) == IF n > MaxInt THEN n - 2 * (MaxInt + 1) ELSE n

\* The interval of positions of file h.
Interval(h) == fbase[h] .. fbase[h] + fsize[h]

Members == Range(files)

\* Mutant: a search for the first file at or after y.
IsFoundStrict(k, y) ==
    /\ k \in 0 .. Len(files)
    /\ k > 0 => fbase[files[k]] < y
    /\ k < Len(files) => y <= fbase[files[k + 1]]

\* What searchFiles returns: the last index whose file starts at or before x,
\* 0 (the code's -1) when there is none.
IsFound(k, y) ==
    /\ k \in 0 .. Len(files)
    /\ k > 0 => fbase[files[k]] <= y
    /\ k < Len(files) => y < fbase[files[k + 1]]

\* The statements of Iterate.
Iterating ==
    {"Iterate.RLock", "Iterate.get", "Iterate.RUnlock", "Iterate.call",
     "Iterate.stop", "Iterate.end"}

Goto(g, l) == pc' = [pc EXCEPT ![g] = l]

\* No call of d's callback is running.
Innermost(d) == \A e \in Goroutine : d \notin within[e]

\* g begins a call, of its own or in a callback that is running: the history
\* is what the call's promises are about.
Begin(g, l) ==
    /\ pc[g] = "idle"
    /\ \/ /\ Concurrent \/ \A d \in Goroutine : pc[d] = "idle"
          /\ UNCHANGED within
       \/ \E d \in Goroutine :
             /\ pc[d] = "Iterate.call"
             /\ Innermost(d)
             /\ within' = [within EXCEPT ![g] = within[d] \cup {d}]
    /\ Goto(g, l)
    /\ UNCHANGED lost
    /\ stable' = [stable EXCEPT ![g] = Members]
    /\ gone' = [gone EXCEPT ![g] = retired]

\* g's call returns; its locals are forgotten.
Return(g) ==
    /\ Goto(g, "idle")
    /\ f' = [f EXCEPT ![g] = NoFile]
    /\ x' = [x EXCEPT ![g] = 0]
    /\ i' = [i EXCEPT ![g] = 0]
    /\ stable' = [stable EXCEPT ![g] = {}]
    /\ within' = [within EXCEPT ![g] = {}]
    /\ gone' = [gone EXCEPT ![g] = {}]
    /\ lost' = [lost EXCEPT ![g] = {}]
    /\ seen' = [seen EXCEPT ![g] = {}]

Init ==
    /\ base = 1 /\ files = << >> /\ last = NoFile
    /\ writer = NoGoroutine /\ readers = {}
    /\ fbase = [h \in File |-> IF h \in Foreign THEN 1 ELSE 0]
    /\ fsize = [h \in File |-> 0]
    /\ allocated = Foreign
    /\ pc = [g \in Goroutine |-> "idle"]
    /\ f = [g \in Goroutine |-> NoFile]
    /\ x = [g \in Goroutine |-> 0]
    /\ i = [g \in Goroutine |-> 0]
    /\ added = {} /\ retired = {}
    /\ gone = [g \in Goroutine |-> {}]
    /\ within = [g \in Goroutine |-> {}]
    /\ stable = [g \in Goroutine |-> {}]
    /\ lost = [g \in Goroutine |-> {}]
    /\ seen = [g \in Goroutine |-> {}]

-----------------------------------------------------------------------------
\* sync.RWMutex.  Which blocked goroutine gets the lock first is left open;
\* that each of them gets it is the strong fairness of Fairness below.
Lock(g) ==
    /\ writer = NoGoroutine /\ readers = {}
    /\ writer' = g
    /\ UNCHANGED readers

RLock(g) ==
    /\ writer = NoGoroutine
    /\ readers' = readers \cup {g}
    /\ UNCHANGED writer

RUnlock(g) ==
    /\ readers' = readers \ {g}
    /\ UNCHANGED writer

-----------------------------------------------------------------------------
\* AddFile(filename, base, size)

\* The File is allocated before the lock is taken.
AddFile(g, h, b, n) ==
    /\ h \notin allocated
    /\ Begin(g, "AddFile.Lock")
    /\ allocated' = allocated \cup {h}
    /\ fsize' = [fsize EXCEPT ![h] = n]
    /\ f' = [f EXCEPT ![g] = h]
    /\ x' = [x EXCEPT ![g] = b]
    /\ UNCHANGED <<base, files, last, fbase, lockVars, i, added, retired, seen>>

\* Mutant: AddFile does not take the lock.
AddFileNoLock(g) ==
    /\ pc[g] = "AddFile.Lock"
    /\ Goto(g, "AddFile.check")
    /\ UNCHANGED <<setVars, lockVars, f, x, i, history>>

AddFileLock(g) ==
    /\ pc[g] = "AddFile.Lock"
    /\ Lock(g)
    /\ Goto(g, "AddFile.check")
    /\ UNCHANGED <<setVars, f, x, i, history>>

\* Everything up to the overflow check: a negative base stands for s.base; a
\* base below s.base, a negative size and an overflow panic (to the deferred
\* Unlock).  f.base is assigned before the size is looked at.
AddFileCheck(g) ==
    LET h == f[g]
        b == IF x[g] < 0 THEN base ELSE x[g]
        end == Wrap(b + Wrap(fsize[h] + 1))
    IN  /\ pc[g] = "AddFile.check"
        /\ \/ /\ b < base
              /\ Goto(g, "AddFile.panic")
              /\ UNCHANGED <<fbase, x>>
           \/ /\ b >= base
              /\ fbase' = [fbase EXCEPT ![h] = b]
              /\ IF fsize[h] < 0 \/ end < 0
                 THEN Goto(g, "AddFile.panic") /\ UNCHANGED x
                 ELSE Goto(g, "AddFile.insert") /\ x' = [x EXCEPT ![g] = end]
        /\ UNCHANGED <<base, files, last, fsize, allocated, lockVars, f, i, history>>

AddFileInsert(g) ==
    /\ pc[g] = "AddFile.insert"
    /\ base' = x[g]
    /\ files' = Append(files, f[g])
    /\ added' = added \cup {f[g]}
    /\ Goto(g, "AddFile.store")
    /\ UNCHANGED <<last, fbase, fsize, allocated, lockVars, f, x, i,
                   within, retired, gone, stable, lost, seen>>

AddFileStore(g) ==
    /\ pc[g] = "AddFile.store"
    /\ last' = f[g]
    /\ Goto(g, "AddFile.unlock")
    /\ UNCHANGED <<base, files, fbase, fsize, allocated, lockVars, f, x, i, history>>

\* The deferred Unlock, which also runs when AddFile panics.
AddFileUnlock(g) ==
    /\ pc[g] \in {"AddFile.unlock", "AddFile.panic"}
    /\ writer' = NoGoroutine
    /\ Return(g)
    /\ UNCHANGED <<setVars, readers, added, retired>>

-----------------------------------------------------------------------------
\* RemoveFile(file).  The file is one the program can hold: one of another
\* set, or one that AddFile has stored where a look-up can find it.
RemoveFile(g, h) ==
    /\ h \in added \cup Foreign
    /\ \A d \in Goroutine : pc[d] = "AddFile.store" => f[d] # h
    /\ Begin(g, "RemoveFile.CAS")
    /\ f' = [f EXCEPT ![g] = h]
    /\ UNCHANGED <<setVars, lockVars, x, i, added, retired, seen>>

\* Mutant: RemoveFile leaves the cache alone.
RemoveFileNoCAS(g) ==
    /\ pc[g] = "RemoveFile.CAS"
    /\ Goto(g, "RemoveFile.Lock")
    /\ UNCHANGED <<setVars, lockVars, f, x, i, history>>

\* s.last.CompareAndSwap(file, nil), before the lock is taken.
RemoveFileCAS(g) ==
    /\ pc[g] = "RemoveFile.CAS"
    /\ last' = IF last = f[g] THEN NoFile ELSE last
    /\ Goto(g, "RemoveFile.Lock")
    /\ UNCHANGED <<base, files, fbase, fsize, allocated, lockVars, f, x, i, history>>

RemoveFileLock(g) ==
    /\ pc[g] = "RemoveFile.Lock"
    /\ Lock(g)
    /\ Goto(g, "RemoveFile.search")
    /\ UNCHANGED <<setVars, f, x, i, history>>

RemoveFileSearch(g) ==
    /\ pc[g] = "RemoveFile.search"
    /\ \E k \in 0 .. Len(files) :
          /\ IsFound(k, fbase[f[g]])
          /\ i' = [i EXCEPT ![g] = k]
          /\ IF k > 0 /\ files[k] = f[g]
             THEN Goto(g, "RemoveFile.splice")
             ELSE Goto(g, "RemoveFile.unlock")
    /\ UNCHANGED <<setVars, lockVars, f, x, history>>

\* What h's removal is to the calls in progress.
Losing(h) ==
    /\ stable' = [d \in Goroutine |-> stable[d] \ {h}]
    /\ lost' = [d \in Goroutine |->
                   IF pc[d] \in Iterating THEN lost[d] \cup {h} ELSE lost[d]]

\* Mutant: the last element is cleared, but the slice keeps its length.
RemoveFileSpliceNil(g) ==
    /\ pc[g] = "RemoveFile.splice"
    /\ files' = Append(RemoveAt(files, i[g]), NoFile)
    /\ Losing(f[g])
    /\ Goto(g, "RemoveFile.unlock")
    /\ UNCHANGED <<base, last, fbase, fsize, allocated, lockVars, f, x, i,
                   within, added, retired, gone, seen>>

\* Mutant: off by one, the element after the file is removed.
RemoveFileSpliceNext(g) ==
    /\ pc[g] = "RemoveFile.splice"
    /\ files' = RemoveAt(files, IF i[g] < Len(files) THEN i[g] + 1 ELSE i[g])
    /\ Losing(f[g])
    /\ Goto(g, "RemoveFile.unlock")
    /\ UNCHANGED <<base, last, fbase, fsize, allocated, lockVars, f, x, i,
                   within, added, retired, gone, seen>>

RemoveFileSplice(g) ==
    /\ pc[g] = "RemoveFile.splice"
    /\ files' = RemoveAt(files, i[g])
    /\ Losing(f[g])
    /\ Goto(g, "RemoveFile.unlock")
    /\ UNCHANGED <<base, last, fbase, fsize, allocated, lockVars, f, x, i,
                   within, added, retired, gone, seen>>

RemoveFileUnlock(g) ==
    /\ pc[g] = "RemoveFile.unlock"
    /\ writer' = NoGoroutine
    /\ retired' = retired \cup {f[g]}
    /\ Return(g)
    /\ UNCHANGED <<setVars, readers, added>>

-----------------------------------------------------------------------------
\* File(p), and through it PositionFor and Position.
LookUp(g, p) ==
    /\ Begin(g, "file.load")
    /\ x' = [x EXCEPT ![g] = p]
    /\ UNCHANGED <<setVars, lockVars, f, i, added, retired, seen>>

\* Mutant: the fast path compares with the end of the cached file only.
LookUpLoadNoBase(g) ==
    /\ pc[g] = "file.load"
    /\ IF last # NoFile /\ x[g] <= fbase[last] + fsize[last]
       THEN f' = [f EXCEPT ![g] = last] /\ Goto(g, "file.done")
       ELSE Goto(g, "file.RLock") /\ UNCHANGED f
    /\ UNCHANGED <<setVars, lockVars, x, i, history>>

\* The fast path: one load of the cache, and no lock.
LookUpLoad(g) ==
    /\ pc[g] = "file.load"
    /\ IF last # NoFile /\ x[g] \in Interval(last)
       THEN f' = [f EXCEPT ![g] = last] /\ Goto(g, "file.done")
       ELSE Goto(g, "file.RLock") /\ UNCHANGED f
    /\ UNCHANGED <<setVars, lockVars, x, i, history>>

LookUpRLock(g) ==
    /\ pc[g] = "file.RLock"
    /\ RLock(g)
    /\ Goto(g, "file.search")
    /\ UNCHANGED <<setVars, f, x, i, history>>

LookUpSearch(g) ==
    /\ pc[g] = "file.search"
    /\ \E k \in 0 .. Len(files) :
          /\ IsFound(k, x[g])
          /\ i' = [i EXCEPT ![g] = k]
          /\ Goto(g, IF k > 0 THEN "file.get" ELSE "file.RUnlock")
    /\ UNCHANGED <<setVars, lockVars, f, x, history>>

\* f := s.files[i]; on a hit the cache is updated while only the read lock is
\* held.
LookUpGet(g) ==
    LET h == files[i[g]]
    IN  /\ pc[g] = "file.get"
        /\ IF x[g] <= fbase[h] + fsize[h]
           THEN last' = h /\ f' = [f EXCEPT ![g] = h]
           ELSE UNCHANGED <<last, f>>
        /\ Goto(g, "file.RUnlock")
        /\ UNCHANGED <<base, files, fbase, fsize, allocated, lockVars, x, i, history>>

LookUpRUnlock(g) ==
    /\ pc[g] = "file.RUnlock"
    /\ RUnlock(g)
    /\ Goto(g, "file.done")
    /\ UNCHANGED <<setVars, f, x, i, history>>

LookUpReturn(g) ==
    /\ pc[g] = "file.done"
    /\ Return(g)
    /\ UNCHANGED <<setVars, lockVars, added, retired>>

-----------------------------------------------------------------------------
\* Iterate(f): the read lock is held for one element at a time, and never
\* while the callback runs.
Iterate(g) ==
    /\ Begin(g, "Iterate.RLock")
    /\ i' = [i EXCEPT ![g] = 1]
    /\ UNCHANGED <<setVars, lockVars, f, x, added, retired, seen>>

IterateRLock(g) ==
    /\ pc[g] = "Iterate.RLock"
    /\ RLock(g)
    /\ Goto(g, "Iterate.get")
    /\ UNCHANGED <<setVars, f, x, i, history>>

\* Mutant: the bound is off by one.
IterateGetShort(g) ==
    /\ pc[g] = "Iterate.get"
    /\ f' = [f EXCEPT ![g] = IF i[g] < Len(files) THEN files[i[g]] ELSE NoFile]
    /\ Goto(g, "Iterate.RUnlock")
    /\ UNCHANGED <<setVars, lockVars, x, i, history>>

IterateGet(g) ==
    /\ pc[g] = "Iterate.get"
    /\ f' = [f EXCEPT ![g] = IF i[g] <= Len(files) THEN files[i[g]] ELSE NoFile]
    /\ Goto(g, "Iterate.RUnlock")
    /\ UNCHANGED <<setVars, lockVars, x, i, history>>

IterateRUnlock(g) ==
    /\ pc[g] = "Iterate.RUnlock"
    /\ RUnlock(g)
    /\ Goto(g, IF f[g] = NoFile THEN "Iterate.end" ELSE "Iterate.call")
    /\ UNCHANGED <<setVars, f, x, i, history>>

\* Mutant: the index stays, as if every callback removed its file.
IterateCallStay(g) ==
    /\ pc[g] = "Iterate.call"
    /\ Innermost(g)
    /\ seen' = [seen EXCEPT ![g] = @ \cup {f[g]}]
    /\ Goto(g, "Iterate.RLock") \/ Goto(g, "Iterate.stop")
    /\ UNCHANGED <<setVars, lockVars, f, x, i, within, added, retired, gone, stable, lost>>

\* The callback is done, with the calls it has made, and asks for the next file
\* (TRUE) or for no more (FALSE, or a panic, which ends Iterate as well).
IterateCall(g) ==
    /\ pc[g] = "Iterate.call"
    /\ Innermost(g)
    /\ seen' = [seen EXCEPT ![g] = @ \cup {f[g]}]
    /\ \/ Goto(g, "Iterate.RLock") /\ i' = [i EXCEPT ![g] = @ + 1]
       \/ Goto(g, "Iterate.stop") /\ UNCHANGED i
    /\ UNCHANGED <<setVars, lockVars, f, x, within, added, retired, gone, stable, lost>>

IterateReturn(g) ==
    /\ pc[g] \in {"Iterate.end", "Iterate.stop"}
    /\ Return(g)
    /\ UNCHANGED <<setVars, lockVars, added, retired>>

-----------------------------------------------------------------------------
Call(g) ==
    \/ \E h \in File, b \in BaseArg, n \in Size : AddFile(g, h, b, n)
    \/ \E h \in File : RemoveFile(g, h)
    \/ \E p \in Pos : LookUp(g, p)
    \/ Iterate(g)

\* The steps that wait for the lock.
Acquire(g) ==
    \/ AddFileLock(g) \/ RemoveFileLock(g) \/ LookUpRLock(g) \/ IterateRLock(g)

Step(g) ==
    \/ AddFileCheck(g) \/ AddFileInsert(g) \/ AddFileStore(g) \/ AddFileUnlock(g)
    \/ RemoveFileCAS(g) \/ RemoveFileSearch(g) \/ RemoveFileSplice(g)
    \/ RemoveFileUnlock(g)
    \/ LookUpLoad(g) \/ LookUpSearch(g) \/ LookUpGet(g) \/ LookUpRUnlock(g)
    \/ LookUpReturn(g)
    \/ IterateGet(g) \/ IterateRUnlock(g) \/ IterateCall(g) \/ IterateReturn(g)

Next == \E g \in Goroutine : Call(g) \/ Acquire(g) \/ Step(g)

\* A goroutine in a call keeps running, but for the lock and for its callback's
\* calls: a RWMutex starves nobody, and a callback makes finitely many calls.  No
\* goroutine has to make a call.
Fairness == \A g \in Goroutine : SF_vars(Acquire(g) \/ Step(g))

Spec == Init /\ [][Next]_vars

FairSpec == Spec /\ Fairness

-----------------------------------------------------------------------------
Statement ==
    {"idle",
     "AddFile.Lock", "AddFile.check", "AddFile.insert", "AddFile.store",
     "AddFile.unlock", "AddFile.panic",
     "RemoveFile.CAS", "RemoveFile.Lock", "RemoveFile.search",
     "RemoveFile.splice", "RemoveFile.unlock",
     "file.load", "file.RLock", "file.search", "file.get", "file.RUnlock",
     "file.done"} \cup Iterating

SharedTypeOK ==
    /\ base \in Int
    /\ files \in Seq(File)
    /\ last \in File \cup {NoFile}
    /\ fbase \in [File -> Int]
    /\ fsize \in [File -> Int]
    /\ allocated \subseteq File

LockTypeOK ==
    /\ writer \in Goroutine \cup {NoGoroutine}
    /\ readers \subseteq Goroutine

CallTypeOK ==
    /\ pc \in [Goroutine -> Statement]
    /\ f \in [Goroutine -> File \cup {NoFile}]
    /\ x \in [Goroutine -> Int]
    /\ i \in [Goroutine -> Nat]

HistoryTypeOK ==
    /\ added \subseteq File
    /\ retired \subseteq File
    /\ gone \in [Goroutine -> SUBSET File]
    /\ within \in [Goroutine -> SUBSET Goroutine]
    /\ stable \in [Goroutine -> SUBSET File]
    /\ lost \in [Goroutine -> SUBSET File]
    /\ seen \in [Goroutine -> SUBSET File]

\* The types of the variables (the fields of FileSet and File, the calls' locals).
TypeOK == SharedTypeOK /\ LockTypeOK /\ CallTypeOK /\ HistoryTypeOK

\* "The byte offsets for each file in a file set are mapped into distinct
\* (integer) intervals, one interval [base, base+size] per file": the
\* intervals of all files ever added, removed ones included, are disjoint, and
\* none of them overflows, however the goroutines' AddFile calls interleave.
DistinctIntervals ==
    \A h \in added :
        /\ fbase[h] \in 1 .. MaxInt
        /\ fbase[h] + fsize[h] \in fbase[h] .. MaxInt
        /\ \A k \in added : h # k => Interval(h) \cap Interval(k) = {}

\* A lookup returns a file of this set (never one of another set) whose
\* interval contains the position, whatever was removed meanwhile.
LookUpSound ==
    \A g \in Goroutine :
        pc[g] = "file.done" /\ f[g] # NoFile
            => f[g] \in added /\ x[g] \in Interval(f[g])

\* A lookup of a position in a file that stays in the set for the whole call
\* returns that file: neither the cache nor the index computed by the search
\* can be overtaken by the other goroutines.
StableLookUp ==
    \A g \in Goroutine :
        pc[g] = "file.done" =>
            \A h \in stable[g] : x[g] \in Interval(h) => f[g] = h

\* Iterate calls its f "for the files in the file set in the order they were
\* added", and never twice for the same file, although files can be added and
\* removed between two calls.
IterateInOrder ==
    \A g \in Goroutine :
        pc[g] = "Iterate.call" =>
            \A h \in seen[g] : fbase[h] < fbase[f[g]]

\* RemoveFile removes a file "so that subsequent queries for its Pos interval
\* yield a negative result": a lookup that begins after RemoveFile(h) returned
\* does not find h.
RemovedIsGone ==
    \A g \in Goroutine : pc[g] = "file.done" => f[g] \notin gone[g]

\* "Iterate calls f for the files in the file set in the order they were added
\* until f returns false", for the files that are in the set all the time but
\* these: a file removed meanwhile, by f or by another goroutine, can make the
\* iteration skip one that follows it, and no more than one.
IterateComplete ==
    \A g \in Goroutine :
        pc[g] = "Iterate.end" =>
            /\ \A h \in stable[g] \ seen[g] :
                  \E k \in lost[g] : fbase[k] < fbase[h]
            /\ Cardinality(stable[g] \ seen[g]) <= Cardinality(lost[g])

\* RemoveFile removes the file it was given and no other, whatever was added or
\* removed since its search; "removing a file that does not belong to the set
\* has no effect", even if it starts at the same base as one that does.
RemovesOnlyItsFile ==
    [][\A h \in Members \ Members' :
          \E g \in Goroutine : pc[g] = "RemoveFile.splice" /\ f[g] = h]_vars

\* Every call returns, a panicking AddFile included: no path of any method
\* leaves the lock held.
CallsReturn ==
    \A g \in Goroutine : pc[g] # "idle" ~> pc[g] = "idle"

-----------------------------------------------------------------------------
\* FileSet implements FileSetAbs.  AddFile and RemoveFile take effect when
\* s.files changes; a look-up takes effect when the cache hits, or when the
\* search or the comparison with the end of the file decides.
Answered == {"file.RUnlock", "file.done"}
Asking == {"file.load", "file.RLock", "file.search", "file.get"} \cup Answered

absStart == [h \in File |-> IF h \in added THEN fbase[h] ELSE 0]
absEnd == [h \in File |-> IF h \in added THEN fbase[h] + fsize[h] ELSE 0]
absAsked == [g \in Goroutine |-> IF pc[g] \in Asking THEN x[g] ELSE 0]
absAnswer ==
    [g \in Goroutine |-> IF pc[g] \in Answered THEN f[g] ELSE NoGoroutine]

Abs == INSTANCE FileSetAbs WITH
    Caller <- Goroutine, AFile <- File, Position <- 1 .. MaxInt, Query <- Pos,
    Nil <- NoFile, None <- NoGoroutine, StaleHits <- TRUE,
    members <- Members, removed <- added \ Members,
    start <- absStart, end <- absEnd, asked <- absAsked, answer <- absAnswer

StrictAbs == INSTANCE FileSetAbs WITH
    Caller <- Goroutine, AFile <- File, Position <- 1 .. MaxInt, Query <- Pos,
    Nil <- NoFile, None <- NoGoroutine, StaleHits <- FALSE,
    members <- Members, removed <- added \ Members,
    start <- absStart, end <- absEnd, asked <- absAsked, answer <- absAnswer

\* With any number of goroutines the methods act like atomic operations on a
\* set of files, but for look-ups that can still find a removed file.
ImplementsAbs == Abs!AbsSpec

\* Calls that do not overlap, but for those of callbacks, never see a removed file.
ImplementsStrictAbs == StrictAbs!AbsSpec
=============================================================================
