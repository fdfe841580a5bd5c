------------------------------ MODULE FileLock ------------------------------
(***************************************************************************)
(* withFileLock (cli/src/cloud/file-lock.ts): a lock between the ocra      *)
(* processes of one machine, kept as a file.  A process makes the file     *)
(* exclusively, writes who it is into it, runs its function, and removes   *)
(* the file.  A lock that was left behind is removed by whoever waits for  *)
(* it; removers of one lock take turns through a second file, the claim.   *)
(*                                                                         *)
(* Every step is one call of the file system, so processes interleave, and *)
(* die, between any two of them.  Time is the age of a file and how long a *)
(* process has waited.                                                     *)
(***************************************************************************)
EXTENDS Processes

CONSTANTS
  StaleAge,    \* staleMs: a file older than this was left behind
  WaitAge,     \* waitMs: who waited this long goes on without the lock
  MaxTurns,    \* bound: calls of a process
  MaxFlaws     \* bound: how many kinds of flaws a behaviour meets

ASSUME LockAssumption ==
  /\ StaleAge \in Nat
  /\ WaitAge \in Nat
  /\ StaleAge < WaitAge
  /\ MaxTurns \in Nat
  /\ MaxFlaws \in Nat

VARIABLES
  lock,      \* the lock file: {} or one record
  claims,    \* the claim files, at most one for a key
  lpc,       \* where a process is in withFileLock
  turn,      \* counts a process's calls: with its pid, the random token
  held,      \* the call made the lock, and removes it when it ends
  seen,      \* the key of the lock the process is removing
  waited,    \* how long the call has waited
  flaws      \* history: what went wrong that the lock cannot make good

lockVars == <<lock, claims, lpc, turn, held, seen, waited, flaws>>

-----------------------------------------------------------------------------
\* A lock is told from others by its text.  A file that was made and not yet
\* written has none: all such files read alike.
Blank == <<>>
Keys == (Procs \X Nat) \cup {Blank}
Key(l) == IF l.text THEN <<l.by, l.turn>> ELSE Blank
MyKey(p) == <<p, turn[p]>>

LockFiles == [by : Procs, turn : Nat, text : BOOLEAN, age : 0..StaleAge + 1]
ClaimFiles == [key : Keys, age : 0..StaleAge + 1]
Places == {"out", "try", "made", "read", "wait", "claim", "sweep", "check",
           "remove", "removed", "missed", "in", "dead"}

\* "bare": a call went on without the lock.  "judged": a lock was taken for
\* dead by its age, or a claim was.  "unwritten": a lock file was made and its
\* text could not be written.  "unclaimed": a claim file could not be written.
\* "unremoved": a file to be removed could not be, or not be read again for it.
Flaws == {"bare", "judged", "unwritten", "unclaimed", "unremoved"}
Flawed(f) ==
  /\ Cardinality(flaws \cup {f}) <= MaxFlaws
  /\ flaws' = flaws \cup {f}

LockTypeOK ==
  /\ lock \subseteq LockFiles /\ \A k, l \in lock : k = l
  /\ claims \subseteq ClaimFiles
  /\ \A c, d \in claims : c.key = d.key => c = d
  /\ lpc \in [Procs -> Places]
  /\ turn \in [Procs -> Nat]
  /\ held \in [Procs -> BOOLEAN]
  /\ seen \in [Procs -> Keys]
  /\ waited \in [Procs -> 0..WaitAge]
  /\ flaws \subseteq Flaws

LockInit ==
  /\ lock = {} /\ claims = {}
  /\ lpc = [p \in Procs |-> "out"]
  /\ turn = [p \in Procs |-> 0]
  /\ held = [p \in Procs |-> FALSE]
  /\ seen = [p \in Procs |-> Blank]
  /\ waited = [p \in Procs |-> 0]
  /\ flaws = {}

Exits == {p \in Procs : lpc[p] = "dead"}
Goes(p, from, to) == lpc[p] = from /\ lpc' = [lpc EXCEPT ![p] = to]

\* Mutant: the process that wrote a lock counts as gone while it runs.
ExitedAlways(l) == l.text

\* isStale: by the process the text names, or by age.
Exited(l) == l.text /\ lpc[l.by] = "dead"
Old(f) == f.age > StaleAge
Stale(l) == Exited(l) \/ Old(l)

-----------------------------------------------------------------------------
\* acquire: the call begins.
Begin(p) ==
  /\ turn[p] < MaxTurns
  /\ Goes(p, "out", "try")
  /\ turn' = [turn EXCEPT ![p] = @ + 1]
  /\ waited' = [waited EXCEPT ![p] = 0]
  /\ UNCHANGED <<lock, claims, held, seen, flaws>>

\* The exclusive create, which leaves an empty file for a moment.
Make(p) ==
  /\ lock = {}
  /\ Goes(p, "try", "made")
  /\ lock' = {[by |-> p, turn |-> turn[p], text |-> FALSE, age |-> 0]}
  /\ UNCHANGED <<claims, turn, held, seen, waited, flaws>>

\* The text is written into the file that was made, wherever it is by now.
WriteText(p) ==
  /\ Goes(p, "made", "in")
  /\ held' = [held EXCEPT ![p] = TRUE]
  /\ lock' = {[l EXCEPT !.text = @ \/ (l.by = p /\ l.turn = turn[p])] : l \in lock}
  /\ UNCHANGED <<claims, turn, seen, waited, flaws>>

\* The disk is full: the call goes on without a lock, the empty file stays.
WriteFails(p) ==
  /\ Goes(p, "made", "in")
  /\ Flawed("unwritten")
  /\ UNCHANGED <<lock, claims, turn, held, seen, waited>>

\* whyNotMade, undefined: nothing can be made there at all.
CannotMake(p) ==
  /\ lock = {}
  /\ Goes(p, "try", "in")
  /\ Flawed("bare")
  /\ UNCHANGED <<lock, claims, turn, held, seen, waited>>

\* whyNotMade, "removing": Windows still keeps the removed file.
StillRemoving(p) ==
  /\ lock = {}
  /\ Goes(p, "try", "wait")
  /\ UNCHANGED <<lock, claims, turn, held, seen, waited, flaws>>

\* whyNotMade, "lock".
Occupied(p) ==
  /\ lock # {}
  /\ Goes(p, "try", "read")
  /\ UNCHANGED <<lock, claims, turn, held, seen, waited, flaws>>

\* readLock and isStale.
Read(p) ==
  \/ /\ lock = {}
     /\ Goes(p, "read", "try")
     /\ UNCHANGED <<lock, claims, turn, held, seen, waited, flaws>>
  \/ \E l \in lock :
       /\ ~Stale(l)
       /\ Goes(p, "read", "wait")
       /\ UNCHANGED <<lock, claims, turn, held, seen, waited, flaws>>
  \/ \E l \in lock :
       /\ Stale(l)
       /\ Goes(p, "read", "claim")
       /\ seen' = [seen EXCEPT ![p] = Key(l)]
       /\ IF Exited(l) THEN UNCHANGED flaws ELSE Flawed("judged")
       /\ UNCHANGED <<lock, claims, turn, held, waited>>

-----------------------------------------------------------------------------
\* removeLock, by the holder that is done (held) or by a process that waits.
\* Where its caller goes on when nothing was removed:
Elsewhere(p) == IF held[p] THEN "out" ELSE "wait"
LetsGo(p) == held' = [held EXCEPT ![p] = FALSE]

ClaimOf(k) == {c \in claims : c.key = k}

\* Mutant: the claim is not made exclusively.
ClaimShared(p) ==
  /\ Goes(p, "claim", "check")
  /\ claims' = claims \cup {[key |-> seen[p], age |-> 0]}
  /\ UNCHANGED <<lock, turn, held, seen, waited, flaws>>

Claim(p) ==
  \/ /\ ClaimOf(seen[p]) = {}
     /\ Goes(p, "claim", "check")
     /\ claims' = claims \cup {[key |-> seen[p], age |-> 0]}
     /\ UNCHANGED <<lock, turn, held, seen, waited, flaws>>
  \/ /\ \E c \in ClaimOf(seen[p]) : Old(c)
     /\ Goes(p, "claim", "sweep")
     /\ UNCHANGED <<lock, claims, turn, held, seen, waited, flaws>>
  \/ /\ \E c \in ClaimOf(seen[p]) : ~Old(c)
     /\ Goes(p, "claim", Elsewhere(p))
     /\ LetsGo(p)
     /\ UNCHANGED <<lock, claims, turn, seen, waited, flaws>>
  \/ /\ ClaimOf(seen[p]) = {}
     /\ Goes(p, "claim", Elsewhere(p))
     /\ LetsGo(p)
     /\ Flawed("unclaimed")
     /\ UNCHANGED <<lock, claims, turn, seen, waited>>

\* A claim found old is removed by its name, whoever's it is by now.
Sweep(p) ==
  /\ Goes(p, "sweep", Elsewhere(p))
  /\ LetsGo(p)
  /\ claims' = claims \ ClaimOf(seen[p])
  /\ Flawed("judged")
  /\ UNCHANGED <<lock, turn, seen, waited>>

\* Mutant: whatever lock is there is removed.
CheckNothing(p) ==
  /\ Goes(p, "check", "remove")
  /\ UNCHANGED <<lock, claims, turn, held, seen, waited, flaws>>

Check(p) ==
  /\ Goes(p, "check", IF \E l \in lock : Key(l) = seen[p] THEN "remove" ELSE "missed")
  /\ UNCHANGED <<lock, claims, turn, held, seen, waited, flaws>>

\* The file is removed by its name, whoever's it is by now.
RemoveLock(p) ==
  /\ Goes(p, "remove", "removed")
  /\ lock' = {}
  /\ UNCHANGED <<claims, turn, held, seen, waited, flaws>>

\* Mutant: the claim goes only with its lock.
UnclaimRemoved(p) ==
  /\ \/ /\ Goes(p, "removed", IF held[p] THEN "out" ELSE "try")
        /\ claims' = claims \ ClaimOf(seen[p])
     \/ /\ Goes(p, "missed", Elsewhere(p))
        /\ UNCHANGED claims
  /\ LetsGo(p)
  /\ UNCHANGED <<lock, turn, seen, waited, flaws>>

Unclaim(p) ==
  /\ \/ Goes(p, "removed", IF held[p] THEN "out" ELSE "try")
     \/ Goes(p, "missed", Elsewhere(p))
  /\ LetsGo(p)
  /\ claims' = claims \ ClaimOf(seen[p])
  /\ UNCHANGED <<lock, turn, seen, waited, flaws>>

\* A file stays, and nobody hears of it: the lock cannot be read again or
\* removed, or the claim cannot be, its own or an old one.
NotRemoved(p) ==
  /\ \/ (Goes(p, "check", "missed") \/ Goes(p, "remove", "missed")) /\ UNCHANGED held
     \/ Goes(p, "removed", IF held[p] THEN "out" ELSE "try") /\ LetsGo(p)
     \/ (Goes(p, "missed", Elsewhere(p)) \/ Goes(p, "sweep", Elsewhere(p))) /\ LetsGo(p)
  /\ Flawed("unremoved")
  /\ UNCHANGED <<lock, claims, turn, seen, waited>>

-----------------------------------------------------------------------------
\* A poll of the wait: another try, or on without the lock.
Poll(p) ==
  /\ waited[p] < WaitAge
  /\ Goes(p, "wait", "try")
  /\ UNCHANGED <<lock, claims, turn, held, seen, waited, flaws>>

GiveUp(p) ==
  /\ waited[p] = WaitAge
  /\ Goes(p, "wait", "in")
  /\ Flawed("bare")
  /\ UNCHANGED <<lock, claims, turn, held, seen, waited>>

\* The function is done: its lock goes, if it had one.
Leave(p) ==
  /\ \/ held[p] /\ Goes(p, "in", "claim") /\ seen' = [seen EXCEPT ![p] = MyKey(p)]
     \/ ~held[p] /\ Goes(p, "in", "out") /\ UNCHANGED seen
  /\ UNCHANGED <<lock, claims, turn, held, waited, flaws>>

\* The process dies, in the middle of whatever it does.
Crash(p) ==
  /\ lpc[p] # "dead"
  /\ Cardinality(Exits) < MaxCrashes
  /\ lpc' = [lpc EXCEPT ![p] = "dead"]
  /\ UNCHANGED <<lock, claims, turn, held, seen, waited, flaws>>

\* Time passes for files and for the calls that have begun to wait.
Older(f) == [f EXCEPT !.age = IF @ > StaleAge THEN @ ELSE @ + 1]
Waiting(p) == lpc[p] \in {"try", "read", "wait", "claim", "sweep", "check",
                          "remove", "removed", "missed"} /\ ~held[p]
Tick ==
  /\ lock # {} \/ claims # {} \/ \E p \in Procs : Waiting(p)
  /\ lock' = {Older(l) : l \in lock}
  /\ claims' = {Older(c) : c \in claims}
  /\ waited' = [p \in Procs |->
                  IF Waiting(p) /\ waited[p] < WaitAge THEN waited[p] + 1 ELSE waited[p]]
  /\ UNCHANGED <<lpc, turn, held, seen, flaws>>

\* What happens inside a call without its caller.
LockStep(p) ==
  \/ Make(p) \/ WriteText(p) \/ WriteFails(p) \/ CannotMake(p)
  \/ StillRemoving(p) \/ Occupied(p) \/ Read(p) \/ Claim(p) \/ Sweep(p)
  \/ Check(p) \/ RemoveLock(p) \/ Unclaim(p) \/ NotRemoved(p) \/ Poll(p) \/ GiveUp(p)

LockNext ==
  \/ Tick
  \/ \E p \in Procs : Begin(p) \/ LockStep(p) \/ Leave(p) \/ Crash(p)

LockSpec == LockInit /\ [][LockNext]_lockVars

-----------------------------------------------------------------------------
\* While no lock or claim was taken for dead by its age alone, at most one
\* process runs with the lock, whatever processes died, and however many went
\* on without it: what "removers of one lock take turns" (removeLock) is for.
Holders == {p \in Procs : lpc[p] = "in" /\ held[p]}
OneHolder == "judged" \notin flaws => \A p, q \in Holders : p = q

\* When every call is over nothing is left at the path, unless a process died
\* or a file could not be written, removed or read again: a release that finds
\* its lock claimed leaves it to the claimant (removeLock returns false), which
\* must remove it.
Unserved == {"unwritten", "unclaimed", "unremoved"}
NothingLeft ==
  (\A p \in Procs : lpc[p] = "out") /\ Unserved \cap flaws = {}
    => lock = {} /\ claims = {}

\* The lock keeps what Turns promises: each step of a call is a step there, or
\* none.
PlaceOf(p) ==
  CASE lpc[p] \in {"out", "dead"} -> lpc[p]
    [] lpc[p] = "in" -> IF held[p] THEN "with" ELSE "without"
    [] OTHER -> IF held[p] THEN "leaves" ELSE "waits"

Harm == {h \in {"bare", "judged"} : h \in flaws \/ (h = "bare" /\ "unwritten" \in flaws)}

Promise == INSTANCE Turns
  WITH place <- [p \in Procs |-> PlaceOf(p)], harm <- Harm, MaxHarms <- Cardinality(Flaws)
KeepsTurns == Promise!TurnsSpec
=============================================================================
