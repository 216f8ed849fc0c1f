------------------------------ MODULE AliasMode ------------------------------
(***************************************************************************)
(* _aliasAny (types/check.go): the process-wide counter by which           *)
(* concurrent type checkers agree on whether alias types exist.  It is     *)
(* positive while checkers with Config._EnableAlias run, negative while    *)
(* checkers without it do.  checkFiles moves it by one and panics when     *)
(* that reveals a checker of the other kind; Scope.Lookup("any") consults  *)
(* it to pick the object it returns.                                       *)
(*                                                                         *)
(* The counter is moved BEFORE the comparison and the deferred correction  *)
(* is registered AFTER it, so a refused checker stays counted: if the      *)
(* program recovers its panic, the counter is wrong from then on.          *)
(***************************************************************************)
EXTENDS Integers, FiniteSets

CONSTANTS
    Goroutine,  \* goroutines that type-check packages
    MaxLeaked   \* the bound on the refused checkers that are recovered

ASSUME AliasAssumption == IsFiniteSet(Goroutine)

VARIABLES
    gotypesalias,   \* the GODEBUG setting: are aliases enabled?
    inuse,          \* _aliasAny
    pc,             \* what each goroutine is doing
    enable,         \* its Config._EnableAlias
    v,              \* the setting its aliasAny() has read, and may return; else TRUE
    dead,           \* a panic has ended the program
    \* History: nothing in the code reads it.
    leaked          \* leaked[d]: recovered refused checkers that count d

vars == <<gotypesalias, inuse, pc, enable, v, dead, leaked>>

-----------------------------------------------------------------------------
Goto(g, l) == pc' = [pc EXCEPT ![g] = l]

\* A checker changes the counter in the direction of its mode.
Delta(g) == IF enable[g] THEN 1 ELSE -1

Init ==
    /\ gotypesalias = TRUE
    /\ inuse = 0
    /\ pc = [g \in Goroutine |-> "idle"]
    /\ enable = [g \in Goroutine |-> TRUE]
    /\ v = [g \in Goroutine |-> TRUE]
    /\ dead = FALSE
    /\ leaked = [d \in {1, -1} |-> 0]

\* The setting can be changed at any time.
SetGoDebug ==
    /\ gotypesalias' = ~ gotypesalias
    /\ UNCHANGED <<inuse, pc, enable, v, dead, leaked>>

\* NewChecker copies the setting into the Config.
NewChecker(g) ==
    /\ pc[g] = "idle"
    /\ enable' = [enable EXCEPT ![g] = gotypesalias]
    /\ Goto(g, "checkFiles")
    /\ UNCHANGED <<gotypesalias, inuse, v, dead, leaked>>

\* checkFiles: the atomic addition and the test of its result.
CheckFiles(g) ==
    /\ pc[g] = "checkFiles"
    /\ inuse' = inuse + Delta(g)
    /\ Goto(g, IF inuse' * Delta(g) > 0 THEN "check" ELSE "refused")
    /\ UNCHANGED <<gotypesalias, enable, v, dead, leaked>>

\* Mutant: aliasAny does not compare the setting with the counter.
AliasAnyUnchecked(g) ==
    /\ pc[g] = "aliasAny"
    /\ Goto(g, "check")
    /\ v' = [v EXCEPT ![g] = TRUE]
    /\ UNCHANGED <<gotypesalias, inuse, enable, dead, leaked>>

\* Lookup("any") calls aliasAny, which first reads the setting ...
LookupAny(g) ==
    /\ pc[g] = "check"
    /\ v' = [v EXCEPT ![g] = gotypesalias]
    /\ Goto(g, "aliasAny")
    /\ UNCHANGED <<gotypesalias, inuse, enable, dead, leaked>>

\* ... and then the counter, and panics when they do not match.
AliasAny(g) ==
    /\ pc[g] = "aliasAny"
    /\ IF inuse # 0 /\ v[g] # (inuse > 0)
       THEN Goto(g, "mutated")
       ELSE Goto(g, "check")
    /\ v' = [v EXCEPT ![g] = TRUE]
    /\ UNCHANGED <<gotypesalias, inuse, enable, dead, leaked>>

\* Mutant: the correction is not deferred, and a bailout skips it.
FinishNotDeferred(g) ==
    /\ pc[g] \in {"check", "mutated"}
    /\ inuse' \in {inuse - Delta(g), inuse}
    /\ Goto(g, IF pc[g] = "check" THEN "idle" ELSE "panic")
    /\ UNCHANGED <<gotypesalias, enable, v, dead, leaked>>

\* Mutant: the correction has the sign of the setting, not of the Config.
FinishBySetting(g) ==
    /\ pc[g] \in {"check", "mutated"}
    /\ inuse' = inuse - (IF gotypesalias THEN 1 ELSE -1)
    /\ Goto(g, IF pc[g] = "check" THEN "idle" ELSE "panic")
    /\ UNCHANGED <<gotypesalias, enable, v, dead, leaked>>

\* checkFiles returns, by a bailout too, or panics further: the deferred
\* correction runs in any case.
Finish(g) ==
    /\ pc[g] \in {"check", "mutated"}
    /\ inuse' = inuse - Delta(g)
    /\ Goto(g, IF pc[g] = "check" THEN "idle" ELSE "panic")
    /\ UNCHANGED <<gotypesalias, enable, v, dead, leaked>>

\* The caller of the checker recovers its panic, which does not undo the
\* addition of a refused one.
Recover(g) ==
    /\ pc[g] \in {"refused", "panic"}
    /\ IF pc[g] = "refused"
       THEN /\ leaked[1] + leaked[-1] < MaxLeaked
            /\ leaked' = [leaked EXCEPT ![Delta(g)] = @ + 1]
       ELSE UNCHANGED leaked
    /\ Goto(g, "idle")
    /\ UNCHANGED <<gotypesalias, inuse, enable, v, dead>>

\* A panic nobody recovers ends the program; some time passes until then.
Panic(g) ==
    /\ pc[g] \in {"refused", "panic"}
    /\ dead' = TRUE
    /\ UNCHANGED <<gotypesalias, inuse, pc, enable, v, leaked>>

Step(g) ==
    \/ NewChecker(g) \/ CheckFiles(g) \/ LookupAny(g) \/ AliasAny(g)
    \/ Finish(g) \/ Recover(g) \/ Panic(g)

Next ==
    /\ ~ dead
    /\ SetGoDebug \/ \E g \in Goroutine : Step(g)

Spec == Init /\ [][Next]_vars

-----------------------------------------------------------------------------
\* g is type checking.
Checking(g) == pc[g] \in {"check", "aliasAny", "mutated"}

\* g was refused, and has not left the function that refused it.
Refused(g) == pc[g] = "refused"

\* No checker has been refused, unless its panic has ended the program.
NoneRefused ==
    /\ leaked = [d \in {1, -1} |-> 0]
    /\ \A g \in Goroutine : ~ Refused(g)

\* The checkers of S with aliases, less those without.
Balance(S) == Cardinality({g \in S : enable[g]}) - Cardinality({g \in S : ~ enable[g]})

\* The types of the variables.
TypeOK ==
    /\ gotypesalias \in BOOLEAN
    /\ inuse \in Int
    /\ pc \in [Goroutine -> {"idle", "checkFiles", "check", "aliasAny",
                             "mutated", "refused", "panic"}]
    /\ enable \in [Goroutine -> BOOLEAN]
    /\ v \in [Goroutine -> BOOLEAN]
    /\ dead \in BOOLEAN
    /\ leaked \in [{1, -1} -> Nat]

\* What the counter counts, whatever panics and is recovered: the checkers that
\* run, those being refused, and for ever those that were refused (checkFiles).
CounterIsExact ==
    inuse = Balance({g \in Goroutine : Checking(g) \/ Refused(g)})
              + leaked[1] - leaked[-1]

\* "if any goroutine tries to type check concurrently with a different
\* EnableAlias value, we panic": checkers that run at the same time agree, until
\* one is refused.  After that they need not, if its panic is recovered: it may
\* have moved the counter to 0, and the next of its mode is let in.
ModesAgree ==
    NoneRefused => \A g, h \in Goroutine :
                       Checking(g) /\ Checking(h) => enable[g] = enable[h]

\* "0: no type checking is occurring, negative: without _EnableAlias set,
\* positive: with _EnableAlias set", until a checker is refused; from then on the
\* counter is off by those that were, and by no more.
CounterNamesMode ==
    /\ CounterIsExact
    /\ NoneRefused =>
          /\ inuse = 0 <=> \A g \in Goroutine : ~ Checking(g)
          /\ \A g \in Goroutine : Checking(g) => (inuse > 0) = enable[g]

\* The "any" a checker finds is the one its own mode asks for, although the
\* setting can change between the reads of the setting and of the counter, until a
\* checker is refused.
AnyMatchesMode ==
    [][\A g \in Goroutine :
          pc[g] = "aliasAny" /\ pc'[g] = "check" /\ NoneRefused => v[g] = enable[g]]_vars
==============================================================================
