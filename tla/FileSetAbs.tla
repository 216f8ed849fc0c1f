----------------------------- MODULE FileSetAbs ------------------------------
(***************************************************************************)
(* What token.FileSet promises its callers: a set of files with intervals  *)
(* of positions, whose operations take effect one at a time.  FileSet      *)
(* implements it; the lock, the order of the files and the cache of the    *)
(* last file looked up are not visible here.                               *)
(*                                                                         *)
(* With StaleHits a look-up may also return a file that was removed: that  *)
(* is all it can count on while other goroutines remove files.             *)
(***************************************************************************)
EXTENDS Integers

CONSTANTS
    Caller,     \* whoever calls the methods
    AFile,      \* the files
    Position,   \* the positions files can occupy
    Query,      \* the positions looked up
    Nil,        \* the answer "no file"
    None,       \* no answer yet
    StaleHits   \* may a look-up return a removed file?

VARIABLES
    members,    \* the files in the set
    removed,    \* the files that were in the set
    start, end, \* the first and the last position of each file of the set
    asked,      \* asked[c]: the position c is looking up, 0 when it is not
    answer      \* answer[c]: Nil or the file found, None before that

absVars == <<members, removed, start, end, asked, answer>>

Contains(h, p) == start[h] <= p /\ p <= end[h]

\* The files a look-up of p may return.
Answers(p) ==
    LET hits == {h \in members : Contains(h, p)}
    IN  hits \cup {h \in removed : StaleHits /\ Contains(h, p)}
             \cup {n \in {Nil} : hits = {}}

AbsInit ==
    /\ members = {} /\ removed = {}
    /\ start = [h \in AFile |-> 0]
    /\ end = [h \in AFile |-> 0]
    /\ asked = [c \in Caller |-> 0]
    /\ answer = [c \in Caller |-> None]

\* The new file lies beyond every file there has been.
Add(h, s, e) ==
    /\ h \notin members \cup removed
    /\ s <= e
    /\ \A k \in members \cup removed : end[k] < s
    /\ members' = members \cup {h}
    /\ start' = [start EXCEPT ![h] = s]
    /\ end' = [end EXCEPT ![h] = e]
    /\ UNCHANGED <<removed, asked, answer>>

Remove(h) ==
    /\ h \in members
    /\ members' = members \ {h}
    /\ removed' = removed \cup {h}
    /\ UNCHANGED <<start, end, asked, answer>>

Ask(c, p) ==
    /\ asked[c] = 0
    /\ asked' = [asked EXCEPT ![c] = p]
    /\ UNCHANGED <<members, removed, start, end, answer>>

Find(c) ==
    /\ asked[c] # 0
    /\ answer[c] = None
    /\ \E h \in Answers(asked[c]) : answer' = [answer EXCEPT ![c] = h]
    /\ UNCHANGED <<members, removed, start, end, asked>>

\* c goes away with its answer.
Leave(c) ==
    /\ answer[c] # None
    /\ asked' = [asked EXCEPT ![c] = 0]
    /\ answer' = [answer EXCEPT ![c] = None]
    /\ UNCHANGED <<members, removed, start, end>>

AbsNext ==
    \/ \E h \in AFile, s, e \in Position : Add(h, s, e)
    \/ \E h \in AFile : Remove(h)
    \/ \E c \in Caller, p \in Query : Ask(c, p)
    \/ \E c \in Caller : Find(c) \/ Leave(c)

AbsSpec == AbsInit /\ [][AbsNext]_absVars
==============================================================================
