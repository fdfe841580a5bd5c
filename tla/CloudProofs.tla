------------------------------ MODULE CloudProofs ------------------------------
(***************************************************************************)
(* The lock keeps processes apart, leaves nothing behind, and is what      *)
(* Turns promises its callers, for every set of processes, every age limit *)
(* and every number of crashes and of calls.                               *)
(***************************************************************************)
EXTENDS MCCloud, DataFacts

\* Where a process may be removing a lock, and where it holds a claim to it.
Removing == {"claim", "sweep", "check", "remove", "removed", "missed"}
Claiming == {"check", "remove", "removed", "missed"}

Mine(p, l) == l.by = p /\ l.turn = turn[p]

\* A process has its lock from the time it holds one until it removes it.
HeldInv(p) ==
  /\ lpc[p] = "made" => \E l \in lock : Mine(p, l) /\ ~l.text
  /\ held[p] /\ lpc[p] \in {"in", "claim", "sweep", "check", "remove"}
       => \E l \in lock : Mine(p, l) /\ l.text

\* It removes its own lock, or that of a process that is dead, and none whose
\* owner could not be read.
SeenInv(p) ==
  /\ lpc[p] \in Removing /\ held[p] => seen[p] = MyKey(p)
  /\ lpc[p] \in Removing /\ ~held[p] =>
       \E d \in Procs : \E t \in Nat : seen[p] = <<d, t>> /\ lpc[d] = "dead"
  /\ lpc[p] = "remove" => \E l \in lock : Key(l) = seen[p]

\* Of those who would remove the same lock, one has the claim.
ClaimInv(p) ==
  lpc[p] \in Claiming =>
    /\ \E c \in claims : c.key = seen[p]
    /\ \A q \in Procs : lpc[q] \in Claiming /\ seen[q] = seen[p] => q = p

Apart == \A p \in Procs : HeldInv(p) /\ SeenInv(p) /\ ClaimInv(p)
NotYetHeld == \A p \in Procs : lpc[p] \in {"out", "try", "made", "read", "wait"} => ~held[p]
LockInv ==
  /\ LockTypeOK
  /\ NotYetHeld
  /\ "judged" \notin flaws => Apart

-----------------------------------------------------------------------------
LEMMA LockFirst == LockInit => LockInv
BY LockAssumption
   DEF LockInit, LockInv, LockTypeOK, Places, Keys, Blank, Apart, NotYetHeld,
       HeldInv, SeenInv, ClaimInv, Removing, Claiming

\* Types.
LEMMA LockTypesKept ==
  ASSUME LockTypeOK, [LockNext]_lockVars
  PROVE  LockTypeOK'
<1> USE LockAssumption DEF LockTypeOK, Places, Goes, Flawed, Flaws, LetsGo, Elsewhere
<1>1. ASSUME NEW p \in Procs, Begin(p) PROVE LockTypeOK'
  BY <1>1 DEF Begin
<1>2. ASSUME NEW p \in Procs, Make(p) PROVE LockTypeOK'
  BY <1>2 DEF Make, LockFiles
<1>3. ASSUME NEW p \in Procs, WriteText(p) PROVE LockTypeOK'
  <2>1. \A l \in LockFiles : [l EXCEPT !.text = @ \/ (l.by = p /\ l.turn = turn[p])] \in LockFiles
    BY DEF LockFiles
  <2>2. lock' \subseteq LockFiles /\ \A k, l \in lock' : k = l
    BY <1>3, <2>1 DEF WriteText
  <2>3. QED BY <1>3, <2>2 DEF WriteText
<1>4. ASSUME NEW p \in Procs, WriteFails(p) \/ CannotMake(p) \/ StillRemoving(p) \/ Occupied(p)
      PROVE LockTypeOK'
  BY <1>4 DEF WriteFails, CannotMake, StillRemoving, Occupied
<1>5. ASSUME NEW p \in Procs, Read(p) PROVE LockTypeOK'
  <2>1. \A l \in LockFiles : Key(l) \in Keys
    BY DEF Key, Keys, LockFiles
  <2>2. \A l \in lock : Key(l) \in Keys
    BY <2>1
  <2>3. flaws' \subseteq Flaws
    BY <1>5 DEF Read
  <2>4. seen' \in [Procs -> Keys]
    BY <1>5, <2>2 DEF Read
  <2>5. QED BY <1>5, <2>3, <2>4 DEF Read
<1>6. ASSUME NEW p \in Procs, Claim(p) PROVE LockTypeOK'
  <2>1. CASE claims' = claims \cup {[key |-> seen[p], age |-> 0]} /\ ClaimOf(seen[p]) = {}
    <3>1. [key |-> seen[p], age |-> 0] \in ClaimFiles
      BY DEF ClaimFiles
    <3>2. claims' \subseteq ClaimFiles
      BY <2>1, <3>1
    <3>3. \A c, d \in claims' : c.key = d.key => c = d
      BY <2>1 DEF ClaimOf
    <3>4. QED BY <1>6, <3>2, <3>3 DEF Claim
  <2>2. CASE UNCHANGED claims
    BY <1>6, <2>2 DEF Claim
  <2>3. QED BY <1>6, <2>1, <2>2 DEF Claim
<1>7. ASSUME NEW p \in Procs, Sweep(p) \/ Unclaim(p) PROVE LockTypeOK'
  BY <1>7 DEF Sweep, Unclaim, ClaimOf
<1>8. ASSUME NEW p \in Procs, Check(p) \/ RemoveLock(p) \/ Poll(p) \/ GiveUp(p) \/ Crash(p) PROVE LockTypeOK'
  BY <1>8 DEF Check, RemoveLock, Poll, GiveUp, Crash
<1>9. ASSUME NEW p \in Procs, Leave(p) PROVE LockTypeOK'
  BY <1>9 DEF Leave, MyKey, Keys
<1>10. ASSUME Tick PROVE LockTypeOK'
  <2>1. \A l \in LockFiles : Older(l) \in LockFiles
    BY DEF Older, LockFiles
  <2>2. \A c \in ClaimFiles : Older(c) \in ClaimFiles /\ Older(c).key = c.key
    BY DEF Older, ClaimFiles
  <2>3. waited' \in [Procs -> 0..WaitAge]
    BY <1>10 DEF Tick
  <2>4. lock' \subseteq LockFiles /\ \A k, l \in lock' : k = l
    BY <1>10, <2>1 DEF Tick
  <2>5. claims' \subseteq ClaimFiles /\ \A c, d \in claims' : c.key = d.key => c = d
    BY <1>10, <2>2 DEF Tick
  <2>6. QED BY <1>10, <2>3, <2>4, <2>5 DEF Tick
<1>11. CASE UNCHANGED lockVars
  BY <1>11 DEF lockVars
<1>12. ASSUME NEW p \in Procs, NotRemoved(p) PROVE LockTypeOK'
  BY <1>12 DEF NotRemoved
<1>13. QED
  BY <1>1, <1>2, <1>3, <1>4, <1>5, <1>6, <1>7, <1>8, <1>9, <1>10, <1>11, <1>12 DEF LockNext, LockStep
-----------------------------------------------------------------------------
\* The key of a lock that was written is not that of one that was not.
LEMMA NotBlank == \A d, t : <<d, t>> # Blank
BY DEF Blank

\* What a living process does to itself leaves the others as they are, as long as
\* locks being removed stay.
LEMMA SeenKept ==
  ASSUME Apart, NEW p \in Procs, lpc[p] # "dead",
         \A r \in Procs \ {p} : lpc'[r] = lpc[r] /\ held'[r] = held[r]
                               /\ seen'[r] = seen[r] /\ turn'[r] = turn[r],
         lock' = lock \/ \A r \in Procs : lpc[r] # "remove"
  PROVE  /\ \A q \in Procs \ {p} : SeenInv(q)'
         /\ lpc'[p] \notin Removing => SeenInv(p)'
<1> SUFFICES ASSUME NEW q \in Procs \ {p}, lpc'[q] \in Removing PROVE SeenInv(q)'
  BY DEF SeenInv, Removing
<1>1. q # p /\ SeenInv(q)
  BY DEF Apart
<1>2. held'[q] => seen'[q] = MyKey(q)'
  BY <1>1 DEF SeenInv, MyKey
<1>3. ~held'[q] => \E d \in Procs : \E t \in Nat : seen'[q] = <<d, t>> /\ lpc'[d] = "dead"
  BY <1>1 DEF SeenInv
<1>4. lpc'[q] = "remove" => \E l \in lock' : Key(l) = seen'[q]
  BY <1>1 DEF SeenInv
<1>5. QED BY <1>2, <1>3, <1>4 DEF SeenInv, Key, Blank

\* What a process does before it has the lock disturbs no one: files it makes
\* are new, and the others' stay.
LEMMA AcquireKeeps ==
  ASSUME LockTypeOK, NotYetHeld, Apart, NEW p \in Procs,
         Begin(p) \/ Make(p) \/ WriteText(p) \/ WriteFails(p) \/ CannotMake(p)
           \/ StillRemoving(p) \/ Occupied(p) \/ Poll(p) \/ GiveUp(p)
  PROVE  Apart'
<1> USE DEF LockTypeOK, Places, Goes, Removing, Claiming
<1>1. ASSUME NEW q \in Procs, ~(Make(p) \/ WriteText(p)) PROVE HeldInv(q)' /\ SeenInv(q)'
  <2>1. lock' = lock /\ held' = held /\ seen' = seen
    BY <1>1 DEF Begin, WriteFails, CannotMake, StillRemoving, Occupied, Poll, GiveUp
  <2>2. /\ lpc[p] \in {"out", "made", "try", "wait"}
        /\ lpc' \in [Procs -> Places] /\ lpc'[p] \in {"try", "in", "wait", "read"}
        /\ \A r \in Procs \ {p} : lpc'[r] = lpc[r] /\ turn'[r] = turn[r]
    BY <1>1 DEF Begin, WriteFails, CannotMake, StillRemoving, Occupied, Poll, GiveUp
  <2>3. ~held[p]
    BY <2>2 DEF NotYetHeld
  <2>4. HeldInv(q)'
    BY <2>1, <2>2, <2>3 DEF Apart, HeldInv, Mine
  <2>5. SeenInv(q)'
    BY <2>1, <2>2, <2>3, SeenKept
  <2>6. QED BY <2>4, <2>5
<1>2. ASSUME NEW q \in Procs, Make(p) PROVE HeldInv(q)' /\ SeenInv(q)'
  <2>1. \A r \in Procs \ {p} : lpc'[r] = lpc[r]
    BY <1>2 DEF Make
  <2>2. lpc[p] = "try" /\ lpc'[p] = "made" /\ ~held'[p] /\ held' = held /\ seen' = seen /\ turn' = turn /\ lock = {}
    BY <1>2 DEF Make, NotYetHeld
  <2>3. \E l \in lock' : l.by = p /\ l.turn = turn'[p] /\ ~l.text
    BY <1>2, <2>2 DEF Make
  <2>4. HeldInv(q)'
    BY <2>1, <2>2, <2>3 DEF Apart, HeldInv, Mine
  <2>5. \A r \in Procs : lpc[r] # "remove"
    BY <2>2 DEF Apart, SeenInv
  <2>7. SeenInv(q)'
    BY <2>1, <2>2, <2>5, SeenKept
  <2>8. QED BY <2>4, <2>7
<1>3. ASSUME NEW q \in Procs, WriteText(p) PROVE HeldInv(q)' /\ SeenInv(q)'
  <2>1. PICK l \in lock : Mine(p, l) /\ ~l.text
    BY <1>3 DEF WriteText, Apart, HeldInv
  <2> DEFINE written == [l EXCEPT !.text = @ \/ (l.by = p /\ l.turn = turn[p])]
  <2>2. lock = {l} /\ written \in lock'
    BY <1>3, <2>1 DEF WriteText
  <2>3. written.by = p /\ written.turn = turn[p] /\ written.text
    <3>1. l \in LockFiles
      OBVIOUS
    <3>2. QED BY <2>1, <3>1 DEF Mine, LockFiles
  <2> HIDE DEF written
  <2>4. /\ \A r \in Procs \ {p} : lpc'[r] = lpc[r] /\ held'[r] = held[r]
        /\ lpc[p] = "made" /\ lpc'[p] = "in" /\ turn' = turn /\ seen' = seen
    BY <1>3 DEF WriteText
  <2>5. \A r \in Procs \ {p} : lpc[r] # "made"
    BY <2>1, <2>2 DEF Apart, HeldInv, Mine
  <2>6. \A r \in Procs : ~(held[r] /\ lpc[r] \in {"in", "claim", "sweep", "check", "remove"})
    BY <2>1, <2>2 DEF Apart, HeldInv
  <2>7. \A r \in Procs : lpc[r] # "remove"
    <3>1. ASSUME NEW r \in Procs, lpc[r] = "remove" PROVE seen[r] # Blank
      <4>1. SeenInv(r)
        BY DEF Apart
      <4>2. CASE held[r]
        BY <3>1, <4>1, <4>2, NotBlank DEF SeenInv, MyKey
      <4>3. CASE ~held[r]
        BY <3>1, <4>1, <4>3, NotBlank DEF SeenInv
      <4>4. QED BY <4>2, <4>3
    <3>2. \A k \in lock : Key(k) = Blank
      BY <2>1, <2>2 DEF Key
    <3>3. QED BY <3>1, <3>2 DEF Apart, SeenInv
  <2>8. HeldInv(q)'
    BY <2>2, <2>3, <2>4, <2>5, <2>6 DEF HeldInv, Mine
  <2>9. SeenInv(q)'
    BY <2>4, <2>7, SeenKept
  <2>10. QED BY <2>8, <2>9
<1>4. ASSUME NEW q \in Procs PROVE ClaimInv(q)'
  BY <1>4 DEF Apart, ClaimInv, Begin, Make, WriteText, WriteFails, CannotMake,
              StillRemoving, Occupied, Poll, GiveUp
<1>5. QED BY <1>1, <1>2, <1>3, <1>4 DEF Apart

\* Who is not removing a lock, and does not make or write one, may do what it likes.
LEMMA HeldKept ==
  ASSUME Apart, NEW p \in Procs, lock' = lock,
         \A r \in Procs \ {p} : lpc'[r] = lpc[r] /\ held'[r] = held[r] /\ turn'[r] = turn[r],
         lpc'[p] # "made",
         held'[p] /\ lpc'[p] \in {"in", "claim", "sweep", "check", "remove"}
           => \E l \in lock : Mine(p, l) /\ l.text /\ turn'[p] = turn[p]
  PROVE  \A q \in Procs : HeldInv(q)'
<1> SUFFICES ASSUME NEW q \in Procs PROVE HeldInv(q)'
  OBVIOUS
<1>1. CASE q = p
  BY <1>1 DEF HeldInv, Mine
<1>2. CASE q # p
  BY <1>2 DEF Apart, HeldInv, Mine
<1>3. QED BY <1>1, <1>2

\* A claim goes with its process; the others keep theirs.
LEMMA ClaimKept ==
  ASSUME Apart, NEW p \in Procs, claims \subseteq claims',
         \A r \in Procs \ {p} : lpc'[r] = lpc[r] /\ seen'[r] = seen[r],
         lpc'[p] \in Claiming => lpc[p] \in Claiming /\ seen'[p] = seen[p]
  PROVE  \A q \in Procs : ClaimInv(q)'
BY DEF Apart, ClaimInv

\* A lock that is read as left behind, and not by its age, is a dead process's.
LEMMA ReadKeeps ==
  ASSUME LockTypeOK, NotYetHeld, Apart, NEW p \in Procs, Read(p), "judged" \notin flaws'
  PROVE  Apart'
<1> USE DEF LockTypeOK, Places, Goes, Removing, Claiming
<1>1. /\ lpc[p] = "read" /\ lpc'[p] \in {"try", "wait", "claim"} /\ ~held[p]
      /\ \A r \in Procs \ {p} : lpc'[r] = lpc[r] /\ held'[r] = held[r]
                            /\ turn'[r] = turn[r] /\ seen'[r] = seen[r]
      /\ lock' = lock /\ claims' = claims /\ held' = held /\ turn' = turn
  BY DEF Read, NotYetHeld
<1>2. lpc'[p] = "claim" => \E d \in Procs : \E t \in Nat : seen'[p] = <<d, t>> /\ lpc[d] = "dead"
  <2>1. SUFFICES ASSUME lpc'[p] = "claim"
                 PROVE  \E d \in Procs : \E t \in Nat : seen'[p] = <<d, t>> /\ lpc[d] = "dead"
    OBVIOUS
  <2>2. PICK l \in lock : seen'[p] = Key(l) /\ Exited(l)
    BY <2>1 DEF Read, Flawed
  <2>3. l.by \in Procs /\ l.turn \in Nat
    BY DEF LockFiles
  <2>4. QED BY <2>2, <2>3 DEF Key, Exited
<1>3. \A q \in Procs : HeldInv(q)'
  BY <1>1, HeldKept
<1>4. ASSUME NEW q \in Procs PROVE SeenInv(q)'
  <2>1. CASE q = p
    BY <1>1, <1>2, <2>1 DEF SeenInv
  <2>2. CASE q # p
    BY <1>1, <2>2, SeenKept
  <2>3. QED BY <2>1, <2>2
<1>5. \A q \in Procs : ClaimInv(q)'
  BY <1>1, ClaimKept
<1>6. QED BY <1>3, <1>4, <1>5 DEF Apart

\* A claim is made only where there is none.
LEMMA ClaimKeeps ==
  ASSUME LockTypeOK, NotYetHeld, Apart, NEW p \in Procs, Claim(p)
  PROVE  Apart'
<1> USE DEF LockTypeOK, Places, Goes, LetsGo, Elsewhere, Removing, Claiming
<1>1. /\ lpc[p] = "claim" /\ lpc'[p] \in {"check", "sweep", "out", "wait"}
      /\ lpc'[p] \in {"check", "sweep"} => held'[p] = held[p]
      /\ lpc'[p] \in {"out", "wait"} => ~held'[p]
      /\ \A r \in Procs \ {p} : lpc'[r] = lpc[r] /\ held'[r] = held[r]
                            /\ turn'[r] = turn[r] /\ seen'[r] = seen[r]
      /\ lock' = lock /\ turn' = turn /\ seen' = seen /\ claims \subseteq claims'
  BY DEF Claim
<1>2. \A q \in Procs : HeldInv(q)'
  <2>1. held[p] => \E l \in lock : Mine(p, l) /\ l.text
    BY <1>1 DEF Apart, HeldInv
  <2>2. QED BY <1>1, <2>1, HeldKept
<1>3. \A q \in Procs \ {p} : SeenInv(q)'
  BY <1>1, SeenKept
<1>4. SeenInv(p)'
  <2>1. SeenInv(p)
    BY DEF Apart
  <2>2. QED BY <1>1, <2>1 DEF SeenInv, MyKey
<1>5. ASSUME NEW q \in Procs PROVE ClaimInv(q)'
  <2>1. CASE lpc'[p] # "check"
    BY <1>1, <2>1, ClaimKept
  <2>2. CASE lpc'[p] = "check"
    <3>1. ClaimOf(seen[p]) = {} /\ claims' = claims \cup {[key |-> seen[p], age |-> 0]}
      BY <2>2 DEF Claim
    <3>2. \A r \in Procs : lpc[r] \in Claiming => seen[r] # seen[p]
      BY <3>1 DEF Apart, ClaimInv, ClaimOf
    <3>3. [key |-> seen[p], age |-> 0] \in claims' /\ [key |-> seen[p], age |-> 0].key = seen[p]
      BY <3>1
    <3>4. QED BY <1>1, <3>2, <3>3 DEF Apart, ClaimInv
  <2>3. QED BY <2>1, <2>2
<1>6. QED BY <1>2, <1>3, <1>4, <1>5 DEF Apart

LEMMA CheckKeeps ==
  ASSUME LockTypeOK, NotYetHeld, Apart, NEW p \in Procs, Check(p)
  PROVE  Apart'
<1> USE DEF LockTypeOK, Places, Goes, Removing, Claiming
<1>1. /\ lpc[p] = "check" /\ lpc'[p] \in {"remove", "missed"}
      /\ \A r \in Procs \ {p} : lpc'[r] = lpc[r]
      /\ lock' = lock /\ turn' = turn /\ seen' = seen /\ held' = held /\ claims' = claims
      /\ lpc'[p] = "remove" => \E l \in lock : Key(l) = seen[p]
  BY DEF Check
<1>2. \A q \in Procs : HeldInv(q)'
  <2>1. held[p] => \E l \in lock : Mine(p, l) /\ l.text
    BY <1>1 DEF Apart, HeldInv
  <2>2. QED BY <1>1, <2>1, HeldKept
<1>3. \A q \in Procs \ {p} : SeenInv(q)'
  BY <1>1, SeenKept
<1>4. SeenInv(p)'
  <2>1. SeenInv(p)
    BY DEF Apart
  <2>2. QED BY <1>1, <2>1 DEF SeenInv, MyKey, Key, Blank
<1>5. \A q \in Procs : ClaimInv(q)'
  BY <1>1, ClaimKept
<1>6. QED BY <1>2, <1>3, <1>4, <1>5 DEF Apart

\* What is removed is the remover's own lock or a dead process's, and nobody
\* else is removing it.
LEMMA RemoveKeeps ==
  ASSUME LockTypeOK, NotYetHeld, Apart, NEW p \in Procs, RemoveLock(p)
  PROVE  Apart'
<1> USE DEF LockTypeOK, Places, Goes, Removing, Claiming
<1>1. /\ lpc[p] = "remove" /\ lpc'[p] = "removed"
      /\ \A r \in Procs \ {p} : lpc'[r] = lpc[r]
      /\ lock' = {} /\ turn' = turn /\ seen' = seen /\ held' = held /\ claims' = claims
  BY DEF RemoveLock
<1>2. PICK l \in lock : Key(l) = seen[p]
  BY <1>1 DEF Apart, SeenInv
<1>3. lock = {l}
  BY <1>2
<1>4. \E d \in Procs : \E t \in Nat : seen[p] = <<d, t>> /\ (d = p \/ lpc[d] = "dead")
  BY <1>1 DEF Apart, SeenInv, MyKey
<1>5. l.text /\ (l.by = p \/ lpc[l.by] = "dead")
  BY <1>2, <1>4, NotBlank DEF Key
<1>6. ASSUME NEW q \in Procs \ {p} PROVE HeldInv(q)'
  BY <1>1, <1>3, <1>5 DEF Apart, HeldInv, Mine
<1>7. HeldInv(p)'
  BY <1>1 DEF HeldInv
<1>8. ASSUME NEW q \in Procs \ {p} PROVE lpc[q] # "remove"
  BY <1>1, <1>2, <1>3 DEF Apart, SeenInv, ClaimInv
<1>9. ASSUME NEW q \in Procs PROVE SeenInv(q)'
  <2>1. SeenInv(q)
    BY DEF Apart
  <2>2. lpc'[q] # "remove" /\ (lpc'[q] \in Removing => lpc[q] \in Removing)
    BY <1>1, <1>8
  <2>3. \A d \in Procs : lpc[d] = "dead" => lpc'[d] = "dead"
    BY <1>1
  <2>4. QED BY <1>1, <2>1, <2>2, <2>3 DEF SeenInv, MyKey
<1>10. \A q \in Procs : ClaimInv(q)'
  BY <1>1, ClaimKept
<1>11. QED BY <1>6, <1>7, <1>9, <1>10 DEF Apart

LEMMA UnclaimKeeps ==
  ASSUME LockTypeOK, NotYetHeld, Apart, NEW p \in Procs, Unclaim(p)
  PROVE  Apart'
<1> USE DEF LockTypeOK, Places, Goes, LetsGo, Elsewhere, Removing, Claiming
<1>1. /\ lpc[p] \in {"removed", "missed"} /\ lpc'[p] \in {"out", "try", "wait"} /\ ~held'[p]
      /\ \A r \in Procs \ {p} : lpc'[r] = lpc[r] /\ held'[r] = held[r]
      /\ lock' = lock /\ turn' = turn /\ seen' = seen /\ claims' = claims \ ClaimOf(seen[p])
  BY DEF Unclaim
<1>2. \A q \in Procs : HeldInv(q)'
  BY <1>1, HeldKept
<1>3. \A q \in Procs : SeenInv(q)'
  BY <1>1, SeenKept
<1>4. \A q \in Procs : ClaimInv(q)'
  BY <1>1 DEF Apart, ClaimInv, ClaimOf
<1>5. QED BY <1>2, <1>3, <1>4 DEF Apart

\* A file that stays is no more to anyone than it was.
LEMMA NotRemovedKeeps ==
  ASSUME LockTypeOK, NotYetHeld, Apart, NEW p \in Procs, NotRemoved(p)
  PROVE  Apart'
<1> USE DEF LockTypeOK, Places, Goes, LetsGo, Elsewhere, Removing, Claiming
<1>1. /\ lpc[p] \in {"sweep", "check", "remove", "removed", "missed"}
      /\ lpc'[p] \in {"missed", "out", "try", "wait"}
      /\ lpc'[p] = "missed" => lpc[p] \in {"check", "remove"} /\ held'[p] = held[p]
      /\ lpc'[p] # "missed" => ~held'[p]
      /\ \A r \in Procs \ {p} : lpc'[r] = lpc[r] /\ held'[r] = held[r]
      /\ lock' = lock /\ turn' = turn /\ seen' = seen /\ claims' = claims
  BY DEF NotRemoved
<1>2. \A q \in Procs : HeldInv(q)'
  BY <1>1, HeldKept
<1>3. \A q \in Procs \ {p} : SeenInv(q)'
  BY <1>1, SeenKept
<1>4. SeenInv(p)'
  <2>1. SeenInv(p)
    BY DEF Apart
  <2>2. QED BY <1>1, <2>1 DEF SeenInv, MyKey
<1>5. \A q \in Procs : ClaimInv(q)'
  BY <1>1, ClaimKept
<1>6. QED BY <1>2, <1>3, <1>4, <1>5 DEF Apart

LEMMA GoingKeeps ==
  ASSUME LockTypeOK, NotYetHeld, Apart, NEW p \in Procs, Leave(p) \/ Crash(p)
  PROVE  Apart'
<1> USE DEF LockTypeOK, Places, Goes, Removing, Claiming
<1>1. /\ lpc'[p] = "claim" => held[p] /\ seen'[p] = MyKey(p) /\ lpc[p] = "in"
      /\ lpc'[p] \in {"claim", "out", "dead"} /\ lpc[p] # "dead"
      /\ \A r \in Procs \ {p} : lpc'[r] = lpc[r] /\ seen'[r] = seen[r]
      /\ lock' = lock /\ turn' = turn /\ held' = held /\ claims' = claims
  BY DEF Leave, Crash
<1>2. \A q \in Procs : HeldInv(q)'
  <2>1. held[p] /\ lpc'[p] = "claim" => \E l \in lock : Mine(p, l) /\ l.text
    BY <1>1 DEF Apart, HeldInv
  <2>2. QED BY <1>1, <2>1, HeldKept
<1>3. \A q \in Procs \ {p} : SeenInv(q)'
  BY <1>1, SeenKept
<1>4. SeenInv(p)'
  BY <1>1 DEF SeenInv, MyKey
<1>5. \A q \in Procs : ClaimInv(q)'
  BY <1>1, ClaimKept
<1>6. QED BY <1>2, <1>3, <1>4, <1>5 DEF Apart

LEMMA TickKeeps ==
  ASSUME LockTypeOK, NotYetHeld, Apart, Tick
  PROVE  Apart'
<1>1. /\ lpc' = lpc /\ turn' = turn /\ held' = held /\ seen' = seen
      /\ lock' = {Older(l) : l \in lock} /\ claims' = {Older(c) : c \in claims}
  BY DEF Tick
<1>2. \A l \in lock : Older(l).by = l.by /\ Older(l).turn = l.turn /\ Older(l).text = l.text
  BY DEF LockTypeOK, LockFiles, Older
<1>3. \A c \in claims : Older(c).key = c.key
  BY DEF LockTypeOK, ClaimFiles, Older
<1>4. ASSUME NEW q \in Procs PROVE HeldInv(q)'
  BY <1>1, <1>2 DEF Apart, HeldInv, Mine
<1>5. ASSUME NEW q \in Procs PROVE SeenInv(q)'
  <2>1. SeenInv(q)
    BY DEF Apart
  <2>2. \A l \in lock : Key(Older(l)) = Key(l)
    BY <1>2 DEF Key
  <2>3. (\E l \in lock : Key(l) = seen[q]) => \E k \in lock' : Key(k) = seen[q]
    BY <1>1, <2>2
  <2>4. QED BY <1>1, <2>1, <2>3 DEF SeenInv, MyKey, Key, Blank
<1>6. ASSUME NEW q \in Procs PROVE ClaimInv(q)'
  BY <1>1, <1>3 DEF Apart, ClaimInv
<1>7. QED BY <1>4, <1>5, <1>6 DEF Apart

LEMMA HeldLater ==
  ASSUME LockTypeOK, NotYetHeld, [LockNext]_lockVars
  PROVE  NotYetHeld'
<1> USE DEF LockTypeOK, NotYetHeld, Goes, LetsGo, Elsewhere
<1>1. ASSUME NEW p \in Procs, Begin(p) \/ LockStep(p) \/ Leave(p) \/ Crash(p) PROVE NotYetHeld'
  <2>1. \A r \in Procs \ {p} : lpc'[r] = lpc[r] /\ held'[r] = held[r]
    BY <1>1 DEF Begin, LockStep, Leave, Crash, Make, WriteText, WriteFails, CannotMake, StillRemoving,
                Occupied, Read, Claim, Sweep, Check, RemoveLock, Unclaim, NotRemoved, Poll, GiveUp
  <2>2. lpc'[p] \in {"out", "try", "made", "read", "wait"} => ~held'[p]
    BY <1>1 DEF Begin, LockStep, Leave, Crash, Make, WriteText, WriteFails, CannotMake, StillRemoving,
                Occupied, Read, Claim, Sweep, Check, RemoveLock, Unclaim, NotRemoved, Poll, GiveUp
  <2>3. QED BY <2>1, <2>2
<1>2. CASE Tick \/ UNCHANGED lockVars
  BY <1>2 DEF Tick, lockVars
<1>3. QED BY <1>1, <1>2 DEF LockNext

LEMMA FlawsStay ==
  ASSUME LockTypeOK, [LockNext]_lockVars
  PROVE  flaws \subseteq flaws'
BY DEF LockNext, LockStep, lockVars, Flawed, Begin, Leave, Crash, Tick, Make, WriteText, WriteFails,
       CannotMake, StillRemoving, Occupied, Read, Claim, Sweep, Check, RemoveLock, Unclaim, NotRemoved, Poll, GiveUp

LEMMA LockStepKeeps ==
  ASSUME LockInv, [LockNext]_lockVars
  PROVE  LockInv'
<1> USE DEF LockInv
<1>1. LockTypeOK'
  BY LockTypesKept
<1>2. NotYetHeld'
  BY HeldLater
<1>3. SUFFICES ASSUME "judged" \notin flaws' PROVE Apart'
  BY <1>1, <1>2
<1>4. flaws \subseteq flaws'
  BY FlawsStay
<1>5. Apart
  BY <1>3, <1>4
<1>6. ASSUME NEW p \in Procs, Sweep(p) PROVE FALSE
  BY <1>3, <1>6 DEF Sweep, Flawed
<1>7. ASSUME NEW p \in Procs, Begin(p) \/ LockStep(p) \/ Leave(p) \/ Crash(p) PROVE Apart'
  BY <1>3, <1>5, <1>6, <1>7, AcquireKeeps, ReadKeeps, ClaimKeeps, CheckKeeps, RemoveKeeps, UnclaimKeeps,
     NotRemovedKeeps, GoingKeeps
     DEF LockStep
<1>8. CASE UNCHANGED lockVars
  BY <1>5, <1>8 DEF lockVars, Apart, HeldInv, SeenInv, ClaimInv, Mine, MyKey, Key, Blank
<1>9. QED BY <1>5, <1>7, <1>8, TickKeeps DEF LockNext

THEOREM LockInvariant == LockSpec => []LockInv
BY LockFirst, LockStepKeeps, PTL DEF LockSpec

-----------------------------------------------------------------------------
\* The types of the lock, its claims and its processes.
THEOREM LockTypes == LockSpec => []LockTypeOK
<1>1. LockInv => LockTypeOK
  BY DEF LockInv
<1>2. QED BY <1>1, LockInvariant, PTL

\* One process at a time has the lock, whatever died and whoever goes on
\* without it, unless a file was taken for left behind by its age alone.
THEOREM OneHolderAlways == LockSpec => []OneHolder
<1>1. LockInv => OneHolder
  BY DEF LockInv, LockTypeOK, Apart, HeldInv, OneHolder, Holders, Mine
<1>2. QED BY <1>1, LockInvariant, PTL

-----------------------------------------------------------------------------
(* Nothing is left, whatever was taken for left behind by its age *)

\* A key that was read is that of a call which wrote its lock, and holds it or
\* is over.
PastKey(k) ==
  k # Blank =>
    /\ k[2] <= turn[k[1]]
    /\ k[2] = turn[k[1]] => held[k[1]] \/ lpc[k[1]] \in {"out", "dead"}
KeysInv ==
  /\ \A l \in lock : PastKey(Key(l))
  /\ \A p \in Procs :
       lpc[p] \in Removing => PastKey(seen[p]) /\ (held[p] => seen[p] = MyKey(p))

\* A lock that was removed or missed does not come back, unless it was missed
\* because it could not be read or removed.
MissedInv == "unremoved" \notin flaws =>
  \A p \in Procs : lpc[p] \in {"removed", "missed"} => \A l \in lock : l.text => Key(l) # seen[p]

\* Of every claim and every lock some process is yet to remove it.
Removes(p, l) ==
  \/ lpc[p] = "made" /\ Mine(p, l)
  \/ lpc[p] \in {"in", "claim"} /\ held[p] /\ Mine(p, l) /\ l.text
  \/ lpc[p] = "check" /\ seen[p] = Key(l) /\ l.text
  \/ lpc[p] = "remove"
Sound == (\A p \in Procs : lpc[p] # "dead") /\ Unserved \cap flaws = {}
ClaimsLeft == \A c \in claims : \E p \in Procs : lpc[p] \in Claiming /\ seen[p] = c.key
LocksLeft == \A l \in lock : \E p \in Procs : Removes(p, l)
LeftInv == Sound => ClaimsLeft /\ LocksLeft

LEMMA KeyParts ==
  ASSUME LockTypeOK
  PROVE  /\ \A l \in lock : /\ Key(l) \in Keys /\ l.by \in Procs /\ l.turn \in Nat
                            /\ Key(l) # Blank <=> l.text
                            /\ l.text => Key(l) = <<l.by, l.turn>>
         /\ \A k \in Keys : k # Blank => k[1] \in Procs /\ k[2] \in Nat /\ k = <<k[1], k[2]>>
<1>1. \A l \in lock : l.by \in Procs /\ l.turn \in Nat /\ l.text \in BOOLEAN
  BY DEF LockTypeOK, LockFiles
<1>2. \A l \in lock : /\ Key(l) \in Keys /\ (Key(l) # Blank <=> l.text)
                      /\ l.text => Key(l) = <<l.by, l.turn>>
  BY <1>1, NotBlank DEF Key, Keys
<1>3. \A k \in Keys : k # Blank => k[1] \in Procs /\ k[2] \in Nat /\ k = <<k[1], k[2]>>
  BY DEF Keys
<1>4. QED BY <1>1, <1>2, <1>3

\* What was past stays so.
LEMMA PastStays ==
  ASSUME LockTypeOK, NotYetHeld, KeysInv, [LockNext]_lockVars, NEW k \in Keys, PastKey(k)
  PROVE  PastKey(k)'
<1> USE DEF LockTypeOK, Goes, LetsGo, Elsewhere, Places
<1>1. SUFFICES ASSUME k # Blank PROVE PastKey(k)'
  BY DEF PastKey, Blank
<1>2. PICK d \in Procs, t \in Nat : k = <<d, t>>
  BY <1>1, KeyParts
<1>3. t <= turn[d] /\ (t = turn[d] => held[d] \/ lpc[d] \in {"out", "dead"})
  BY <1>1, <1>2 DEF PastKey
<1>4. SUFFICES t <= turn'[d] /\ (t = turn'[d] => held'[d] \/ lpc'[d] \in {"out", "dead"})
  BY <1>2 DEF PastKey
<1>5. ASSUME NEW p \in Procs, Begin(p) PROVE t <= turn'[d] /\ (t = turn'[d] => held'[d] \/ lpc'[d] \in {"out", "dead"})
  BY <1>3, <1>5 DEF Begin
<1>6. ASSUME NEW p \in Procs, LockStep(p) \/ Leave(p) \/ Crash(p)
      PROVE  t <= turn'[d] /\ (t = turn'[d] => held'[d] \/ lpc'[d] \in {"out", "dead"})
  <2>1. turn' = turn /\ \A r \in Procs \ {p} : lpc'[r] = lpc[r] /\ held'[r] = held[r]
    BY <1>6 DEF LockStep, Leave, Crash, Make, WriteText, WriteFails, CannotMake, StillRemoving,
                Occupied, Read, Claim, Sweep, Check, RemoveLock, Unclaim, NotRemoved, Poll, GiveUp
  <2>2. lpc[p] \notin {"out", "dead"} \/ Crash(p)
    BY <1>6 DEF LockStep, Leave, Make, WriteText, WriteFails, CannotMake, StillRemoving,
                Occupied, Read, Claim, Sweep, Check, RemoveLock, Unclaim, NotRemoved, Poll, GiveUp
  <2>3. held[p] => held'[p] \/ lpc'[p] \in {"out", "dead"}
    BY <1>6 DEF LockStep, Leave, Crash, Make, WriteText, WriteFails, CannotMake, StillRemoving,
                Occupied, Read, Claim, Sweep, Check, RemoveLock, Unclaim, NotRemoved, Poll, GiveUp
  <2>4. Crash(p) => lpc'[p] = "dead"
    BY DEF Crash
  <2>5. QED BY <1>3, <2>1, <2>2, <2>3, <2>4
<1>7. CASE Tick \/ UNCHANGED lockVars
  BY <1>3, <1>7 DEF Tick, lockVars
<1>8. QED BY <1>5, <1>6, <1>7 DEF LockNext

LEMMA KeysLater ==
  ASSUME LockTypeOK, NotYetHeld, KeysInv, [LockNext]_lockVars
  PROVE  KeysInv'
<1> USE DEF LockTypeOK, Goes, LetsGo, Elsewhere, Places, Removing
<1>1. \A k \in Keys : PastKey(k) => PastKey(k)'
  BY PastStays
<1>2. ASSUME NEW l \in lock' PROVE PastKey(Key(l))'
  <2>1. ASSUME NEW k \in lock, Key(l) = Key(k) PROVE PastKey(Key(l))'
    <3>1. Key(k) \in Keys /\ PastKey(Key(k))
      BY KeyParts DEF KeysInv
    <3>2. QED BY <1>1, <2>1, <3>1
  <2>2. ASSUME NEW p \in Procs, Make(p) PROVE PastKey(Key(l))'
    BY <1>2, <2>2 DEF Make, Key, PastKey
  <2>3. ASSUME NEW p \in Procs, WriteText(p) PROVE PastKey(Key(l))'
    <3>1. PICK k \in lock : l = [k EXCEPT !.text = @ \/ (k.by = p /\ k.turn = turn[p])]
      BY <1>2, <2>3 DEF WriteText
    <3>2. /\ k \in LockFiles /\ l.by = k.by /\ l.turn = k.turn
          /\ l.text = (k.text \/ (k.by = p /\ k.turn = turn[p]))
      BY <3>1 DEF LockFiles
    <3>3. CASE Key(l) = Key(k)
      BY <2>1, <3>3
    <3>4. CASE Key(l) # Key(k)
      <4>1. l.text /\ Key(l) = <<p, turn[p]>>
        BY <3>2, <3>4 DEF Key, LockFiles
      <4>2. held'[p] /\ turn' = turn
        BY <2>3 DEF WriteText
      <4>3. QED BY <4>1, <4>2 DEF PastKey
    <3>5. QED BY <3>3, <3>4
  <2>4. CASE Tick
    <3>1. PICK k \in lock : l = Older(k)
      BY <1>2, <2>4 DEF Tick
    <3>2. Key(l) = Key(k)
      BY <3>1 DEF LockFiles, Older, Key
    <3>3. QED BY <2>1, <3>2
  <2>5. CASE l \in lock
    BY <2>1, <2>5
  <2>6. lock' \subseteq lock \/ Tick \/ \E p \in Procs : Make(p) \/ WriteText(p)
    BY DEF LockNext, LockStep, lockVars, Begin, Leave, Crash, WriteFails, CannotMake,
           StillRemoving, Occupied, Read, Claim, Sweep, Check, RemoveLock, Unclaim, NotRemoved, Poll, GiveUp
  <2>7. QED BY <1>2, <2>2, <2>3, <2>4, <2>5, <2>6
<1>3. ASSUME NEW q \in Procs, lpc'[q] \in Removing
      PROVE  PastKey(seen[q])' /\ (held'[q] => seen'[q] = <<q, turn'[q]>>)
  <2>1. CASE lpc[q] \in Removing /\ seen'[q] = seen[q] /\ (held'[q] => held[q]) /\ turn'[q] = turn[q]
    <3>1. seen[q] \in Keys /\ PastKey(seen[q]) /\ (held[q] => seen[q] = MyKey(q))
      BY <2>1 DEF KeysInv
    <3>2. QED BY <1>1, <2>1, <3>1 DEF MyKey, PastKey
  <2>2. ASSUME Read(q) PROVE PastKey(seen[q])' /\ (held'[q] => seen'[q] = <<q, turn'[q]>>)
    <3>1. PICK l \in lock : seen'[q] = Key(l)
      BY <1>3, <2>2 DEF Read
    <3>2. Key(l) \in Keys /\ PastKey(Key(l))
      BY KeyParts DEF KeysInv
    <3>3. ~held'[q]
      BY <2>2 DEF Read, NotYetHeld
    <3>4. QED BY <1>1, <3>1, <3>2, <3>3 DEF PastKey
  <2>3. ASSUME Leave(q) PROVE PastKey(seen[q])' /\ (held'[q] => seen'[q] = <<q, turn'[q]>>)
    BY <1>3, <2>3 DEF Leave, MyKey, PastKey
  <2>4. \/ lpc[q] \in Removing /\ seen'[q] = seen[q] /\ (held'[q] => held[q]) /\ turn'[q] = turn[q]
        \/ Read(q) \/ Leave(q)
    <3>1. CASE Tick \/ UNCHANGED lockVars
      BY <1>3, <3>1 DEF Tick, lockVars
    <3>2. ASSUME NEW p \in Procs, p # q, Begin(p) \/ LockStep(p) \/ Leave(p) \/ Crash(p)
          PROVE  lpc[q] \in Removing /\ seen'[q] = seen[q] /\ (held'[q] => held[q]) /\ turn'[q] = turn[q]
      BY <1>3, <3>2 DEF Begin, LockStep, Leave, Crash, Make, WriteText, WriteFails, CannotMake, StillRemoving,
                  Occupied, Read, Claim, Sweep, Check, RemoveLock, Unclaim, NotRemoved, Poll, GiveUp
    <3>3. ASSUME Begin(q) \/ LockStep(q) \/ Leave(q) \/ Crash(q)
          PROVE  \/ lpc[q] \in Removing /\ seen'[q] = seen[q] /\ (held'[q] => held[q]) /\ turn'[q] = turn[q]
                 \/ Read(q) \/ Leave(q)
      BY <1>3, <3>3 DEF Begin, LockStep, Crash, Make, WriteText, WriteFails, CannotMake, StillRemoving,
                  Occupied, Claim, Sweep, Check, RemoveLock, Unclaim, NotRemoved, Poll, GiveUp
    <3>4. QED BY <3>1, <3>2, <3>3 DEF LockNext
  <2>5. QED BY <2>1, <2>2, <2>3, <2>4
<1>4. QED BY <1>2, <1>3 DEF KeysInv, MyKey

\* A lock gets no key that was seen before it.
LEMMA MissedLater ==
  ASSUME LockTypeOK, NotYetHeld, KeysInv, MissedInv, [LockNext]_lockVars
  PROVE  MissedInv'
<1> USE DEF LockTypeOK, Goes, LetsGo, Elsewhere, Places
<1>1. SUFFICES ASSUME "unremoved" \notin flaws',
                      NEW q \in Procs, lpc'[q] \in {"removed", "missed"}, NEW l \in lock', l.text
               PROVE  Key(l) # seen'[q]
  BY DEF MissedInv, Key
<1>0. "unremoved" \notin flaws
  BY <1>1, FlawsStay
<1>2. ASSUME NEW k \in lock, k.text, Key(l) = Key(k), lpc[q] \in {"removed", "missed"},
             seen'[q] = seen[q]
      PROVE  Key(l) # seen'[q]
  BY <1>0, <1>2 DEF MissedInv
<1>3. ASSUME NEW p \in Procs, WriteText(p) PROVE Key(l) # seen'[q]
  <2>1. lpc[p] = "made" /\ lpc[q] \in {"removed", "missed"} /\ seen' = seen
    BY <1>1, <1>3 DEF WriteText
  <2>2. PICK k \in lock : l = [k EXCEPT !.text = @ \/ (k.by = p /\ k.turn = turn[p])]
    BY <1>3 DEF WriteText
  <2>3. /\ k \in LockFiles /\ l.by = k.by /\ l.turn = k.turn
        /\ l.text = (k.text \/ (k.by = p /\ k.turn = turn[p]))
    BY <2>2 DEF LockFiles
  <2>4. CASE k.text
    BY <1>1, <1>2, <2>1, <2>3, <2>4 DEF Key
  <2>5. CASE ~k.text
    <3>1. Key(l) = <<p, turn[p]>>
      BY <1>1, <2>3, <2>5 DEF Key, LockFiles
    <3>2. PastKey(seen[q]) /\ ~held[p] /\ lpc[p] \notin {"out", "dead"}
      BY <2>1 DEF KeysInv, NotYetHeld, Removing
    <3>3. seen[q] # <<p, turn[p]>>
      BY <3>2, NotBlank, SMTT(30) DEF PastKey
    <3>4. QED BY <2>1, <3>1, <3>3
  <2>6. QED BY <2>3, <2>4, <2>5 DEF LockFiles
<1>4. ASSUME NEW p \in Procs, Make(p) PROVE FALSE
  BY <1>1, <1>4 DEF Make
<1>5. CASE Tick
  <2>1. PICK k \in lock : l = Older(k)
    BY <1>5 DEF Tick
  <2>2. k.text /\ Key(l) = Key(k)
    BY <1>1, <2>1 DEF LockFiles, Older, Key
  <2>3. lpc[q] \in {"removed", "missed"} /\ seen'[q] = seen[q]
    BY <1>1, <1>5 DEF Tick
  <2>4. QED BY <1>2, <2>2, <2>3
<1>6. ASSUME NEW p \in Procs,
             Begin(p) \/ WriteFails(p) \/ CannotMake(p) \/ StillRemoving(p) \/ Occupied(p)
               \/ Read(p) \/ Claim(p) \/ Sweep(p) \/ Unclaim(p) \/ Poll(p) \/ GiveUp(p)
               \/ Leave(p) \/ Crash(p)
      PROVE  Key(l) # seen'[q]
  <2>1. lpc[q] \in {"removed", "missed"} /\ seen'[q] = seen[q] /\ lock' = lock
    BY <1>1, <1>6 DEF Begin, WriteFails, CannotMake, StillRemoving, Occupied, Read, Claim, Sweep,
                      Unclaim, Poll, GiveUp, Leave, Crash
  <2>2. QED BY <1>1, <1>2, <2>1
<1>7. ASSUME NEW p \in Procs, Check(p) PROVE Key(l) # seen'[q]
  <2>1. lock' = lock /\ seen' = seen
    BY <1>7 DEF Check
  <2>2. CASE p = q
    BY <1>1, <1>7, <2>1, <2>2 DEF Check
  <2>3. CASE p # q
    BY <1>1, <1>2, <1>7, <2>1, <2>3 DEF Check
  <2>4. QED BY <2>2, <2>3
<1>8. ASSUME NEW p \in Procs, RemoveLock(p) PROVE FALSE
  BY <1>1, <1>8 DEF RemoveLock
<1>9. CASE UNCHANGED lockVars
  BY <1>1, <1>2, <1>9 DEF lockVars
<1>10. ASSUME NEW p \in Procs, NotRemoved(p) PROVE FALSE
  BY <1>1, <1>10 DEF NotRemoved, Flawed
<1>11. QED BY <1>3, <1>4, <1>5, <1>6, <1>7, <1>8, <1>9, <1>10 DEF LockNext, LockStep

LEMMA SoundBefore ==
  ASSUME LockTypeOK, [LockNext]_lockVars, Sound'
  PROVE  Sound
<1> USE DEF LockTypeOK, Goes, LetsGo, Elsewhere, Places
<1>1. flaws \subseteq flaws'
  BY FlawsStay
<1>2. \A q \in Procs : lpc[q] = "dead" => lpc'[q] = "dead"
  BY DEF LockNext, LockStep, lockVars, Begin, Leave, Crash, Tick, Make, WriteText, WriteFails,
         CannotMake, StillRemoving, Occupied, Read, Claim, Sweep, Check, RemoveLock, Unclaim, NotRemoved, Poll, GiveUp
<1>3. QED BY <1>1, <1>2 DEF Sound

\* Who takes a claim removes it.
LEMMA ClaimsLater ==
  ASSUME LockTypeOK, Sound', ClaimsLeft, [LockNext]_lockVars
  PROVE  ClaimsLeft'
<1> USE DEF LockTypeOK, Goes, LetsGo, Elsewhere, Places, Claiming
<1>1. SUFFICES ASSUME NEW c \in claims' PROVE \E q \in Procs : lpc'[q] \in Claiming /\ seen'[q] = c.key
  BY DEF ClaimsLeft
<1>2. ASSUME NEW p \in Procs, Claim(p), c \notin claims
      PROVE  lpc'[p] \in Claiming /\ seen'[p] = c.key
  BY <1>1, <1>2 DEF Claim
<1>3. ASSUME NEW k \in claims, c.key = k.key, claims' \subseteq claims \/ Tick \/ \E p \in Procs : Claim(p)
      PROVE  \E q \in Procs : lpc'[q] \in Claiming /\ seen'[q] = c.key
  <2>1. PICK q \in Procs : lpc[q] \in Claiming /\ seen[q] = c.key
    BY <1>3 DEF ClaimsLeft
  <2>2. CASE Tick \/ UNCHANGED lockVars
    BY <2>1, <2>2 DEF Tick, lockVars
  <2>3. ASSUME NEW p \in Procs, p # q, Begin(p) \/ LockStep(p) \/ Leave(p) \/ Crash(p)
        PROVE  lpc'[q] = lpc[q] /\ seen'[q] = seen[q]
    BY <2>3 DEF Begin, LockStep, Leave, Crash, Make, WriteText, WriteFails, CannotMake, StillRemoving,
                Occupied, Read, Claim, Sweep, Check, RemoveLock, Unclaim, NotRemoved, Poll, GiveUp
  <2>4. ~Crash(q)
    BY DEF Crash, Sound
  <2>5. ~(Begin(q) \/ Leave(q) \/ Make(q) \/ WriteText(q) \/ WriteFails(q) \/ CannotMake(q)
            \/ StillRemoving(q) \/ Occupied(q) \/ Read(q) \/ Claim(q) \/ Sweep(q) \/ Poll(q) \/ GiveUp(q))
    BY <2>1 DEF Begin, Leave, Make, WriteText, WriteFails, CannotMake, StillRemoving,
                Occupied, Read, Claim, Sweep, Poll, GiveUp
  <2>6. CASE Check(q) \/ RemoveLock(q)
    BY <2>1, <2>6 DEF Check, RemoveLock
  <2>7. CASE Unclaim(q)
    <3>1. c \in claims /\ c.key # seen[q]
      BY <1>1, <2>7 DEF Unclaim, ClaimOf
    <3>2. QED BY <2>1, <3>1
  <2>8. ~NotRemoved(q)
    BY DEF NotRemoved, Flawed, Sound, Unserved
  <2>9. QED BY <2>1, <2>2, <2>3, <2>4, <2>5, <2>6, <2>7, <2>8 DEF LockNext, LockStep
<1>4. CASE Tick
  <2>1. PICK k \in claims : c = Older(k)
    BY <1>4 DEF Tick
  <2>2. c.key = k.key
    BY <2>1 DEF ClaimFiles, Older
  <2>3. QED BY <1>3, <1>4, <2>2
<1>5. claims' \subseteq claims \/ Tick \/ \E p \in Procs : Claim(p)
  BY DEF LockNext, LockStep, lockVars, Begin, Leave, Crash, Make, WriteText, WriteFails,
         CannotMake, StillRemoving, Occupied, Read, Sweep, Check, RemoveLock, Unclaim, NotRemoved, Poll, GiveUp
<1>6. QED BY <1>1, <1>2, <1>3, <1>4, <1>5

\* Who makes a lock removes it, or leaves it to who has claimed it.
LEMMA LocksLater ==
  ASSUME LockTypeOK, NotYetHeld, KeysInv, MissedInv, Sound', ClaimsLeft, LocksLeft, [LockNext]_lockVars
  PROVE  LocksLeft'
<1> USE DEF LockTypeOK, Goes, LetsGo, Elsewhere, Places
<1>1. SUFFICES ASSUME NEW l \in lock' PROVE \E q \in Procs : Removes(q, l)'
  BY DEF LocksLeft
<1>2. ASSUME NEW p \in Procs, Make(p) PROVE Removes(p, l)'
  BY <1>1, <1>2 DEF Make, Removes, Mine
<1>3. ASSUME NEW p \in Procs, RemoveLock(p) PROVE FALSE
  BY <1>1, <1>3 DEF RemoveLock
<1>4. CASE Tick
  <2>1. PICK k \in lock : l = Older(k)
    BY <1>1, <1>4 DEF Tick
  <2>2. k \in LockFiles /\ l.by = k.by /\ l.turn = k.turn /\ l.text = k.text /\ Key(l) = Key(k)
    BY <2>1 DEF LockFiles, Older, Key
  <2>3. PICK q \in Procs : Removes(q, k)
    BY DEF LocksLeft
  <2>4. lpc' = lpc /\ held' = held /\ turn' = turn /\ seen' = seen
    BY <1>4 DEF Tick
  <2>5. QED BY <2>2, <2>3, <2>4 DEF Removes, Mine, Key
<1>5. ASSUME NEW p \in Procs, WriteText(p) PROVE \E q \in Procs : Removes(q, l)'
  <2>1. PICK k \in lock : l = [k EXCEPT !.text = @ \/ (k.by = p /\ k.turn = turn[p])]
    BY <1>1, <1>5 DEF WriteText
  <2>2. /\ k \in LockFiles /\ l.by = k.by /\ l.turn = k.turn
        /\ l.text = (k.text \/ (k.by = p /\ k.turn = turn[p]))
    BY <2>1 DEF LockFiles
  <2>3. PICK q \in Procs : Removes(q, k)
    BY DEF LocksLeft
  <2>4. /\ lpc[p] = "made" /\ lpc'[p] = "in" /\ held'[p] /\ turn' = turn /\ seen' = seen
        /\ \A r \in Procs \ {p} : lpc'[r] = lpc[r] /\ held'[r] = held[r]
    BY <1>5 DEF WriteText
  <2>5. CASE q = p
    <3>1. Mine(p, k)
      BY <2>3, <2>4, <2>5 DEF Removes
    <3>2. QED BY <2>2, <2>4, <3>1 DEF Removes, Mine
  <2>6. CASE q # p
    BY <2>2, <2>3, <2>4, <2>6 DEF Removes, Mine, Key
  <2>7. QED BY <2>5, <2>6
<1>6. ASSUME l \in lock, NEW q \in Procs, Removes(q, l),
             \/ UNCHANGED lockVars
             \/ \E p \in Procs \ {q} : Begin(p) \/ LockStep(p) \/ Leave(p) \/ Crash(p)
      PROVE  Removes(q, l)'
  <2>1. lpc'[q] = lpc[q] /\ held'[q] = held[q] /\ turn'[q] = turn[q] /\ seen'[q] = seen[q]
    BY <1>6 DEF lockVars, Begin, LockStep, Leave, Crash, Make, WriteText, WriteFails, CannotMake, StillRemoving,
                Occupied, Read, Claim, Sweep, Check, RemoveLock, Unclaim, NotRemoved, Poll, GiveUp
  <2>2. QED BY <1>6, <2>1 DEF Removes, Mine, Key
<1>7. ASSUME l \in lock, NEW p \in Procs, Removes(p, l),
             Begin(p) \/ LockStep(p) \/ Leave(p) \/ Crash(p), ~WriteText(p)
      PROVE  \E q \in Procs : Removes(q, l)'
  <2>1. ~(Crash(p) \/ Make(p) \/ RemoveLock(p) \/ WriteFails(p) \/ NotRemoved(p))
    BY <1>2, <1>3, <1>7 DEF Sound, Unserved, Crash, Make, Removes, WriteFails, NotRemoved, Flawed
  <2>2. ~(Begin(p) \/ CannotMake(p) \/ StillRemoving(p) \/ Occupied(p) \/ Read(p) \/ Sweep(p)
            \/ Unclaim(p) \/ Poll(p) \/ GiveUp(p))
    BY <1>7 DEF Removes, Begin, CannotMake, StillRemoving, Occupied, Read, Sweep, Unclaim, Poll, GiveUp
  <2>3. CASE Leave(p)
    BY <1>7, <2>3 DEF Leave, Removes, Mine
  <2>4. CASE Check(p)
    BY <1>7, <2>4 DEF Check, Removes
  <2>5. CASE Claim(p)
    <3>1. lpc[p] = "claim" /\ held[p] /\ Mine(p, l) /\ l.text
      BY <1>7, <2>5 DEF Claim, Removes
    <3>2. seen[p] = Key(l)
      BY <3>1 DEF KeysInv, Removing, Key, MyKey, Mine
    <3>3. CASE lpc'[p] = "check"
      <4>1. seen'[p] = Key(l)'
        BY <2>5, <3>2 DEF Claim, Key
      <4>2. QED BY <3>1, <3>3, <4>1 DEF Removes
    <3>4. CASE lpc'[p] # "check"
      <4>1. ClaimOf(seen[p]) # {}
        BY <2>5, <3>4 DEF Claim, Flawed, Sound, Unserved
      <4>2. PICK q \in Procs : lpc[q] \in Claiming /\ seen[q] = Key(l)
        BY <3>2, <4>1 DEF ClaimOf, ClaimsLeft
      <4>3. lpc[q] \in {"check", "remove"} /\ q # p
        BY <1>7, <3>1, <4>2, SoundBefore DEF MissedInv, Claiming, Sound, Unserved
      <4>4. lpc'[q] = lpc[q] /\ seen' = seen
        BY <2>5, <4>3 DEF Claim
      <4>5. QED BY <3>1, <4>2, <4>3, <4>4 DEF Removes, Key
    <3>5. QED BY <3>3, <3>4
  <2>6. QED BY <1>7, <2>1, <2>2, <2>3, <2>4, <2>5 DEF LockStep
<1>8. lock' \subseteq lock \/ Tick \/ \E p \in Procs : Make(p) \/ WriteText(p)
  BY DEF LockNext, LockStep, lockVars, Begin, Leave, Crash, WriteFails, CannotMake,
         StillRemoving, Occupied, Read, Claim, Sweep, Check, RemoveLock, Unclaim, NotRemoved, Poll, GiveUp
<1>9. ASSUME lock' \subseteq lock, ~Tick, \A p \in Procs : ~Make(p) /\ ~WriteText(p)
      PROVE  \E q \in Procs : Removes(q, l)'
  <2>1. l \in lock
    BY <1>1, <1>9
  <2>2. PICK q \in Procs : Removes(q, l)
    BY <2>1 DEF LocksLeft
  <2>3. QED BY <1>6, <1>7, <1>9, <2>1, <2>2 DEF LockNext
<1>10. QED BY <1>2, <1>4, <1>5, <1>8, <1>9

LEMMA LeftStep ==
  ASSUME LockInv, KeysInv, MissedInv, LeftInv, [LockNext]_lockVars
  PROVE  KeysInv' /\ MissedInv' /\ LeftInv'
<1>1. LockTypeOK /\ NotYetHeld
  BY DEF LockInv
<1>2. KeysInv' /\ MissedInv'
  BY <1>1, KeysLater, MissedLater
<1>3. LeftInv'
  <2>1. SUFFICES ASSUME Sound' PROVE ClaimsLeft' /\ LocksLeft'
    BY DEF LeftInv
  <2>2. ClaimsLeft /\ LocksLeft
    BY <1>1, <2>1, SoundBefore DEF LeftInv
  <2>3. QED BY <1>1, <2>1, <2>2, ClaimsLater, LocksLater
<1>4. QED BY <1>2, <1>3

\* When every call is over nothing is left at the path, whatever locks and claims
\* were taken for left behind by their age, unless a process died or a file could
\* not be written, removed or read again: a release that finds its lock claimed leaves
\* it to the claimant.
THEOREM NothingLeftAlways == LockSpec => []NothingLeft
<1>1. LockInit => KeysInv /\ MissedInv /\ LeftInv
  BY DEF LockInit, KeysInv, MissedInv, LeftInv, ClaimsLeft, LocksLeft, Removing
<1>2. LeftInv => NothingLeft
  BY DEF LeftInv, Sound, ClaimsLeft, LocksLeft, Removes, Claiming, NothingLeft
<1>3. QED BY <1>1, <1>2, LeftStep, LockInvariant, PTL DEF LockSpec

-----------------------------------------------------------------------------
(* The refinement: each step of a call is one of a turn, or none *)

places == [p \in Procs |-> PlaceOf(p)]

\* Sets are counted alike in Turns.
LEMMA SameCount == \A S : Promise!Cardinality(S) = Cardinality(S)
BY DEF Cardinality, Promise!Cardinality

LEMMA MayHarm ==
  \A h \in {"bare", "judged"} : Promise!Cardinality(Harm \cup {h}) <= Cardinality(Flaws)
<1>1. SUFFICES ASSUME NEW h \in {"bare", "judged"}
               PROVE  Cardinality(Harm \cup {h}) <= Cardinality(Flaws)
  BY SameCount
<1>2. IsFiniteSet(Flaws)
  <2>1. IsFiniteSet({"bare"})
    BY FS_Singleton
  <2>2. IsFiniteSet({"bare"} \cup {"judged"})
    BY <2>1, FS_AddElement
  <2>3. IsFiniteSet({"bare"} \cup {"judged"} \cup {"unwritten"})
    BY <2>2, FS_AddElement
  <2>4. IsFiniteSet({"bare"} \cup {"judged"} \cup {"unwritten"} \cup {"unclaimed"})
    BY <2>3, FS_AddElement
  <2>5. IsFiniteSet({"bare"} \cup {"judged"} \cup {"unwritten"} \cup {"unclaimed"} \cup {"unremoved"})
    BY <2>4, FS_AddElement
  <2>6. Flaws = {"bare"} \cup {"judged"} \cup {"unwritten"} \cup {"unclaimed"} \cup {"unremoved"}
    BY DEF Flaws
  <2>7. QED BY <2>5, <2>6
<1>3. Harm \cup {h} \subseteq Flaws
  BY DEF Harm, Flaws
<1>4. QED BY <1>2, <1>3, FS_Subset

\* What a step of p does to its place.
LEMMA PlaceMoves ==
  ASSUME NEW p \in Procs, NEW to,
         \A r \in Procs \ {p} : lpc'[r] = lpc[r] /\ held'[r] = held[r],
         PlaceOf(p)' = to
  PROVE  places' = [places EXCEPT ![p] = to]
<1>1. \A r \in Procs \ {p} : PlaceOf(r)' = PlaceOf(r)
  BY DEF PlaceOf
<1>2. QED BY <1>1 DEF places

LEMMA StepIsTurn ==
  ASSUME LockInv, [LockNext]_lockVars
  PROVE  [Promise!TurnsNext]_(Promise!turnVars)
<1> USE DEF LockInv, LockTypeOK, Goes, Places, LetsGo, Elsewhere
<1>1. SUFFICES ASSUME NEW p \in Procs, Begin(p) \/ LockStep(p) \/ Leave(p) \/ Crash(p)
               PROVE  [Promise!TurnsNext]_(Promise!turnVars)
  <2>1. CASE Tick \/ UNCHANGED lockVars
    <3>1. lpc' = lpc /\ held' = held /\ flaws' = flaws
      BY <2>1 DEF Tick, lockVars
    <3>2. UNCHANGED Promise!turnVars
      BY <3>1 DEF Promise!turnVars, PlaceOf, Harm
    <3>3. QED BY <3>2
  <2>2. QED BY <1>1, <2>1 DEF LockNext
<1>2. \A r \in Procs \ {p} : lpc'[r] = lpc[r] /\ held'[r] = held[r]
  BY <1>1 DEF Begin, LockStep, Leave, Crash, Make, WriteText, WriteFails, CannotMake, StillRemoving,
              Occupied, Read, Claim, Sweep, Check, RemoveLock, Unclaim, NotRemoved, Poll, GiveUp
<1>3. places[p] = PlaceOf(p) /\ places'[p] = PlaceOf(p)'
  BY DEF places
<1>5. CASE Begin(p)
  <2>1. PlaceOf(p) = "out" /\ PlaceOf(p)' = "waits" /\ flaws' = flaws
    BY <1>5 DEF Begin, PlaceOf, NotYetHeld
  <2>2. Harm' = Harm
    BY <2>1 DEF Harm
  <2>3. Promise!AsksTurn(p)
    BY <1>2, <1>3, <2>1, <2>2, PlaceMoves DEF Promise!AsksTurn, Promise!Moves, places
  <2>4. QED BY <2>3 DEF Promise!TurnsNext
<1>6. CASE WriteText(p)
  <2>1. PlaceOf(p) = "waits" /\ PlaceOf(p)' = "with" /\ flaws' = flaws
    BY <1>6 DEF WriteText, PlaceOf, NotYetHeld
  <2>2. Harm' = Harm
    BY <2>1 DEF Harm
  <2>3. ASSUME "judged" \notin Harm, NEW q \in Procs PROVE PlaceOf(q) # "with"
    <3>1. Apart
      BY <2>3 DEF Harm
    <3>2. \E l \in lock : Mine(p, l) /\ ~l.text
      BY <1>6, <3>1 DEF WriteText, Apart, HeldInv
    <3>3. ~(lpc[q] = "in" /\ held[q])
      BY <3>1, <3>2 DEF Apart, HeldInv, Mine
    <3>4. QED BY <3>3 DEF PlaceOf
  <2>4. Promise!TakesTurn(p)
    BY <1>2, <1>3, <2>1, <2>2, <2>3, PlaceMoves DEF Promise!TakesTurn, Promise!Moves, places
  <2>5. QED BY <2>4 DEF Promise!TurnsNext
<1>7. CASE WriteFails(p) \/ CannotMake(p) \/ GiveUp(p)
  <2>1. PlaceOf(p) = "waits" /\ PlaceOf(p)' = "without"
    BY <1>7 DEF WriteFails, CannotMake, GiveUp, PlaceOf, NotYetHeld
  <2>2. Harm' = Harm \cup {"bare"}
    BY <1>7 DEF WriteFails, CannotMake, GiveUp, Harm, Flawed
  <2>3. Promise!Suffers("bare")
    BY <2>2, MayHarm DEF Promise!Suffers
  <2>4. Promise!Moves(p, "waits", "without")
    BY <1>2, <1>3, <2>1, PlaceMoves DEF Promise!Moves, places
  <2>5. Promise!GoesWithout(p)
    BY <2>3, <2>4 DEF Promise!GoesWithout
  <2>6. QED BY <2>5 DEF Promise!TurnsNext
<1>8. CASE Leave(p)
  <2>1. /\ flaws' = flaws
        /\ \/ PlaceOf(p) = "with" /\ PlaceOf(p)' = "leaves"
           \/ PlaceOf(p) = "without" /\ PlaceOf(p)' = "out"
    BY <1>8 DEF Leave, PlaceOf
  <2>2. Harm' = Harm
    BY <2>1 DEF Harm
  <2>3. Promise!EndsTurn(p)
    BY <1>2, <1>3, <2>1, <2>2, PlaceMoves DEF Promise!EndsTurn, Promise!LeavesTurn, Promise!Moves, places
  <2>4. QED BY <2>3 DEF Promise!TurnsNext
<1>9. CASE Crash(p)
  <2>1. PlaceOf(p) # "dead" /\ PlaceOf(p)' = "dead" /\ flaws' = flaws
    BY <1>9 DEF Crash, PlaceOf
  <2>2. Harm' = Harm
    BY <2>1 DEF Harm
  <2>3. Promise!Dead = Exits
    BY DEF Promise!Dead, Exits, PlaceOf
  <2>4. places' = [places EXCEPT ![p] = "dead"]
    BY <1>2, <2>1, PlaceMoves
  <2>5. Promise!Cardinality(Promise!Dead) < MaxCrashes
    BY <1>9, <2>3, SameCount DEF Crash
  <2>6. Promise!Dies(p)
    BY <1>3, <2>1, <2>2, <2>4, <2>5 DEF Promise!Dies, places
  <2>7. QED BY <2>6 DEF Promise!TurnsNext
<1>10. CASE Make(p) \/ StillRemoving(p) \/ Occupied(p) \/ Check(p) \/ RemoveLock(p) \/ Poll(p)
  <2>1. PlaceOf(p)' = PlaceOf(p) /\ flaws' = flaws
    BY <1>10 DEF Make, StillRemoving, Occupied, Check, RemoveLock, Poll, PlaceOf, NotYetHeld
  <2>2. UNCHANGED Promise!turnVars
    BY <1>2, <2>1 DEF Promise!turnVars, PlaceOf, Harm
  <2>3. QED BY <2>2
<1>11. CASE Read(p) \/ Sweep(p)
  <2>1. PlaceOf(p) = "waits" \/ (Sweep(p) /\ PlaceOf(p) = "leaves")
    BY <1>11 DEF Read, Sweep, PlaceOf, NotYetHeld
  <2>2. PlaceOf(p)' = IF PlaceOf(p) = "waits" THEN "waits" ELSE "out"
    BY <1>11, <2>1 DEF Read, Sweep, PlaceOf, NotYetHeld
  <2>3. Harm' = Harm \/ Harm' = Harm \cup {"judged"}
    BY <1>11 DEF Read, Sweep, Harm, Flawed
  <2>4. CASE PlaceOf(p) = "waits"
    <3>1. UNCHANGED places
      BY <1>2, <1>3, <2>2, <2>4, PlaceMoves, ZenonT(60) DEF places
    <3>2. CASE Harm' = Harm
      BY <3>1, <3>2 DEF places, Promise!turnVars
    <3>3. CASE Harm' = Harm \cup {"judged"}
      <4>1. Promise!Suffers("judged")
        BY <3>3, MayHarm DEF Promise!Suffers
      <4>2. Promise!Judges(p)
        BY <1>3, <2>4, <3>1, <4>1 DEF Promise!Judges, places
      <4>3. QED BY <4>2 DEF Promise!TurnsNext
    <3>4. QED BY <2>3, <3>2, <3>3
  <2>5. CASE PlaceOf(p) = "leaves"
    <3>1. Promise!Suffers("judged") \/ UNCHANGED Harm
      BY <2>3, MayHarm DEF Promise!Suffers
    <3>2. Promise!Moves(p, "leaves", "out")
      BY <1>2, <1>3, <2>2, <2>5, PlaceMoves DEF Promise!Moves, places
    <3>3. Promise!Left(p)
      BY <3>1, <3>2 DEF Promise!Left
    <3>4. QED BY <3>3 DEF Promise!TurnsNext
  <2>6. QED BY <2>1, <2>4, <2>5
<1>12. CASE Claim(p) \/ Unclaim(p) \/ NotRemoved(p)
  <2>1. Harm' = Harm
    BY <1>12 DEF Claim, Unclaim, NotRemoved, Harm, Flawed
  <2>2. \/ PlaceOf(p)' = PlaceOf(p)
        \/ PlaceOf(p) = "leaves" /\ PlaceOf(p)' = "out"
    BY <1>12 DEF Claim, Unclaim, NotRemoved, PlaceOf
  <2>3. CASE PlaceOf(p)' = PlaceOf(p)
    BY <1>2, <2>1, <2>3 DEF Promise!turnVars, PlaceOf, Harm
  <2>4. CASE PlaceOf(p) = "leaves" /\ PlaceOf(p)' = "out"
    <3>1. Promise!Left(p)
      BY <1>2, <1>3, <2>1, <2>4, PlaceMoves DEF Promise!Left, Promise!Moves, places
    <3>2. QED BY <3>1 DEF Promise!TurnsNext
  <2>5. QED BY <2>2, <2>3, <2>4
<1>13. QED
  BY <1>1, <1>5, <1>6, <1>7, <1>8, <1>9, <1>10, <1>11, <1>12 DEF LockStep

\* The lock is what Turns promises, whatever processes do and die.
THEOREM LockKeepsTurns == LockSpec => KeepsTurns
<1>1. LockInit => Promise!TurnsInit
  BY DEF LockInit, Promise!TurnsInit, PlaceOf, Harm
<1>2. QED BY <1>1, LockInvariant, StepIsTurn, PTL DEF LockSpec, KeepsTurns, Promise!TurnsSpec
-----------------------------------------------------------------------------
(* The session, on what Turns promises *)

\* A call that renews a pair, one that was given the next pair, and a login
\* that has its pair and waits to save it.
Saves(p) == call[p].at = "write" /\ call[p].op # "login"
Renewing(p) == call[p].at \in {"asked", "refused", "compare"} \/ Saves(p)
Rotated(p) == call[p].at = "compare" \/ Saves(p)
LoggingIn(p) == call[p].at = "write" /\ call[p].op = "login"

\* Every pair anybody has was issued by the server, at some time.
Issued(s) == s \in Pairs => s[2] <= srv[s[1]]
IssuedInv ==
  /\ \A s \in file : Issued(s)
  /\ \A p \in Procs : Issued(call[p].saved) /\ Issued(call[p].got) /\ Issued(call[p].refused)

CallInv(p) ==
  /\ Renewing(p) => call[p].saved \in Pairs
  /\ call[p].at = "refused" => call[p].saved[2] < srv[call[p].saved[1]]
  /\ Rotated(p) => /\ call[p].got \in Pairs
                   /\ call[p].got = <<call[p].saved[1], call[p].saved[2] + 1>>
  /\ call[p].at = "done" /\ call[p].result = "ok" => call[p].got \in Pairs
  /\ call[p].op = "login" => call[p].at \in {"write", "done"}

\* The pair of a login is nobody else's until it is saved.
LoginInv(p) ==
  LoggingIn(p) =>
    /\ call[p].got \in Pairs /\ call[p].got[2] = 1 /\ srv[call[p].got[1]] = 1
    /\ \A s \in file : s[1] # call[p].got[1]
    /\ \A q \in Procs \ {p} : call[p].got[1] \notin {call[q].saved[1], call[q].got[1]}

\* As long as every call waited its turn, one at a time renews a pair, and the
\* file keeps that pair meanwhile.
TurnInv ==
  harm \subseteq {"lost"} =>
    /\ \A p \in Procs : place[p] # "without"
    /\ \A p, q \in Procs : place[p] = "with" /\ place[q] = "with" => p = q
    /\ \A p \in Procs : Alive(p) /\ Renewing(p) => place[p] = "with" /\ file = {call[p].saved}

\* And as long as no pair was lost it is the newest, or its session has ended.
CurrentInv ==
  harm = {} =>
    /\ \A p \in Procs : Alive(p) =>
         /\ call[p].at = "asked" => srv[call[p].saved[1]] \in {call[p].saved[2], Ended}
         /\ call[p].at = "refused" => srv[call[p].saved[1]] = Ended
         /\ Rotated(p) => srv[call[p].got[1]] \in {call[p].got[2], Ended}
    /\ (\A p \in Procs : Alive(p) => ~Rotated(p)) => \A s \in file : srv[s[1]] \in {s[2], Ended}

ServerInv == IssuedInv /\ \A p \in Procs : CallInv(p) /\ LoginInv(p)
SessionInv == TurnsTypeOK /\ SessionTypeOK /\ ServerInv /\ TurnInv /\ CurrentInv

LEMMA PairParts ==
  /\ \A s \in Pairs : /\ s[1] \in Chains /\ s[2] \in 1..MaxPairs /\ s = <<s[1], s[2]>>
                      /\ s # NoPair
  /\ \A c \in Chains : \A n \in 1..MaxPairs : <<c, n>> \in Pairs
  /\ NoPair \notin Pairs /\ Ended \in Nat /\ Ended > MaxPairs /\ NoPair[1] = 0 /\ 0 \notin Chains
BY SessionAssumption DEF Pairs, NoPair, Chains, Ended

LEMMA SessionFirst == Init => SessionInv
<1> SUFFICES ASSUME Init PROVE SessionInv
  OBVIOUS
<1> USE SessionAssumption DEF Init, TurnsInit
<1>1. TurnsTypeOK
  BY DEF TurnsTypeOK, TurnPlaces, Harms
<1>2. 1 \in Chains /\ <<1, 1>> \in Pairs
  BY DEF Chains, Pairs
<1>3. Idle \in Calls
  BY DEF Idle, Calls, CallSteps, Ops, Results
<1>4. SessionTypeOK
  <2>1. srv \in [Chains -> 0..Ended] /\ begun \in [Procs -> 0..MaxCalls]
    BY DEF Ended
  <2>2. QED BY <1>2, <1>3, <2>1 DEF SessionTypeOK
<1>5. srv[1] = 1
  BY <1>2
<1>6. \A p \in Procs : ~Renewing(p) /\ ~Rotated(p) /\ ~LoggingIn(p) /\ call[p].at = "idle"
  BY DEF Renewing, Rotated, Saves, LoggingIn, Idle
<1>7. IssuedInv
  BY <1>2, <1>5, PairParts DEF IssuedInv, Issued, Idle
<1>8. \A p \in Procs : CallInv(p) /\ LoginInv(p)
  BY <1>6 DEF CallInv, LoginInv, Idle
<1>9. TurnInv
  BY <1>6 DEF TurnInv
<1>10. CurrentInv
  BY <1>5, <1>6 DEF CurrentInv
<1>11. QED BY <1>1, <1>4, <1>7, <1>8, <1>9, <1>10 DEF SessionInv, ServerInv

\* What a call is after each of its steps, field by field.
EndsAs(p, result, pair) ==
  /\ call'[p].at = "done" /\ call'[p].result = result /\ call'[p].got = pair
  /\ call'[p].saved = NoPair /\ call'[p].refused = call[p].refused
  /\ call'[p].op = call[p].op /\ call'[p].again = FALSE
GoesTo(p, at, saved, got) ==
  /\ call'[p].at = at /\ call'[p].saved = saved /\ call'[p].got = got
  /\ call'[p].refused = call[p].refused /\ call'[p].op = call[p].op
  /\ call'[p].result = call[p].result
Begins(p, at, op, got, refused) ==
  /\ call'[p].at = at /\ call'[p].op = op /\ call'[p].saved = NoPair
  /\ call'[p].got = got /\ call'[p].refused = refused /\ call'[p].result = "none"

LEMMA SetDoes ==
  ASSUME SessionTypeOK, NEW p \in Procs, NEW c, Set(p, c)
  PROVE  call'[p] = c /\ call[p] \in Calls /\ \A q \in Procs \ {p} : call'[q] = call[q]
BY DEF SessionTypeOK, Set

LEMMA EndsDoes ==
  ASSUME SessionTypeOK, NEW p \in Procs, NEW result, NEW pair, Ends(p, result, pair)
  PROVE  EndsAs(p, result, pair) /\ \A q \in Procs \ {p} : call'[q] = call[q]
<1> DEFINE r == call[p]
           s == call'[p]
<1>1. r = call[p] /\ s = call'[p] /\ r \in Calls
  BY DEF SessionTypeOK
<1> HIDE DEF r, s
<1>2. Set(p, [call[p] EXCEPT !.at = "done", !.result = result, !.got = pair,
                             !.saved = NoPair, !.again = FALSE])
  BY DEF Ends
<1>3. s = [r EXCEPT !.at = "done", !.result = result, !.got = pair, !.saved = NoPair, !.again = FALSE]
  BY <1>1, <1>2, SetDoes
<1>4. /\ s.at = "done" /\ s.result = result /\ s.got = pair /\ s.saved = NoPair
      /\ s.refused = r.refused /\ s.op = r.op /\ s.again = FALSE
  BY <1>1, <1>3 DEF Calls
<1>5. QED BY <1>1, <1>2, <1>4, SetDoes DEF EndsAs

\* The same call, further on.
Later(p, at, saved, got, again, result, ending) ==
  [at |-> at, op |-> call[p].op, saved |-> saved, got |-> got, again |-> again,
   refused |-> call[p].refused, result |-> result, ending |-> ending]

LEMMA GoesDoes ==
  ASSUME NEW p, NEW at, NEW saved, NEW got, NEW again, NEW ending,
         call'[p] = Later(p, at, saved, got, again, call[p].result, ending)
  PROVE  GoesTo(p, at, saved, got)
BY DEF GoesTo, Later

LEMMA StartDoes ==
  ASSUME SessionTypeOK, NEW p \in Procs, NEW op \in Ops, Start(p, op)
  PROVE  /\ op # "login" /\ Begins(p, "first", op, NoPair, NoPair)
         /\ \A q \in Procs \ {p} : call'[q] = call[q]
         /\ UNCHANGED <<place, harm, file, srv>>
<1>1. /\ op # "login" /\ UNCHANGED <<place, harm, file, srv>>
      /\ Set(p, [Idle EXCEPT !.at = "first", !.op = op])
  BY DEF Start, turnVars
<1>2. call'[p] = [Idle EXCEPT !.at = "first", !.op = op]
  BY <1>1, SetDoes
<1>3. Begins(p, "first", op, NoPair, NoPair)
  BY <1>2 DEF Begins, Idle
<1>4. QED BY <1>1, <1>3, SetDoes

LEMMA StartLoginDoes ==
  ASSUME SessionTypeOK, NEW p \in Procs, StartLogin(p)
  PROVE  /\ \E c \in Chains : /\ srv[c] = 0 /\ srv' = [srv EXCEPT ![c] = 1]
                              /\ Begins(p, "write", "login", <<c, 1>>, NoPair)
         /\ \A q \in Procs \ {p} : call'[q] = call[q]
         /\ AsksTurn(p) /\ UNCHANGED file
<1>1. PICK c \in Chains :
        /\ srv[c] = 0 /\ srv' = [srv EXCEPT ![c] = 1]
        /\ Set(p, [Idle EXCEPT !.at = "write", !.op = "login", !.got = <<c, 1>>])
  BY DEF StartLogin
<1>2. call'[p] = [Idle EXCEPT !.at = "write", !.op = "login", !.got = <<c, 1>>]
  BY <1>1, SetDoes
<1>3. Begins(p, "write", "login", <<c, 1>>, NoPair)
  BY <1>2 DEF Begins, Idle
<1>4. QED BY <1>1, <1>3, SetDoes DEF StartLogin

LEMMA ReadFirstDoes ==
  ASSUME SessionTypeOK, NEW p \in Procs, ReadFirst(p)
  PROVE  /\ call[p].at = "first" /\ UNCHANGED <<harm, file, srv>>
         /\ \A q \in Procs \ {p} : call'[q] = call[q]
         /\ call'[p].op = call[p].op /\ call'[p].refused = call[p].refused
         /\ \/ /\ call'[p].at = "done" /\ call'[p].result = "signed-out"
               /\ call'[p].saved = call[p].saved /\ call'[p].got = call[p].got /\ UNCHANGED place
            \/ \E s \in file : /\ call'[p].at = "done" /\ call'[p].got = s
                               /\ call'[p].saved = call[p].saved /\ call'[p].result = "ok"
                               /\ UNCHANGED place
            \/ \E s \in file : GoesTo(p, "enter", s, call[p].got) /\ AsksTurn(p)
<1>1. call[p] \in Calls /\ call[p].at = "first" /\ UNCHANGED <<file, srv>>
  BY DEF ReadFirst, At, SessionTypeOK
<1>2. CASE Set(p, [call[p] EXCEPT !.at = "done", !.result = "signed-out"]) /\ UNCHANGED turnVars
  <2>1. /\ call'[p] = [call[p] EXCEPT !.at = "done", !.result = "signed-out"]
        /\ \A q \in Procs \ {p} : call'[q] = call[q]
    BY <1>2, SetDoes
  <2>2. call'[p] = Later(p, "done", call[p].saved, call[p].got, call[p].again, "signed-out", call[p].ending)
    BY <1>1, <2>1 DEF Calls, Later
  <2>3. QED BY <1>1, <1>2, <2>1, <2>2 DEF Later, turnVars
<1>3. ASSUME NEW s \in file, Set(p, [call[p] EXCEPT !.at = "done", !.result = "ok", !.got = s]),
             UNCHANGED turnVars
      PROVE  /\ call'[p].at = "done" /\ call'[p].got = s
             /\ call'[p].saved = call[p].saved /\ call'[p].result = "ok"
             /\ call'[p].op = call[p].op /\ call'[p].refused = call[p].refused
             /\ \A q \in Procs \ {p} : call'[q] = call[q]
             /\ UNCHANGED <<place, harm>>
  <2>1. /\ call'[p] = [call[p] EXCEPT !.at = "done", !.result = "ok", !.got = s]
        /\ \A q \in Procs \ {p} : call'[q] = call[q]
    BY <1>3, SetDoes
  <2>2. call'[p] = Later(p, "done", call[p].saved, s, call[p].again, "ok", call[p].ending)
    BY <1>1, <2>1 DEF Calls, Later
  <2>3. QED BY <1>3, <2>1, <2>2 DEF Later, turnVars
<1>4. ASSUME NEW s \in file, Set(p, [call[p] EXCEPT !.at = "enter", !.saved = s]), AsksTurn(p)
      PROVE  /\ GoesTo(p, "enter", s, call[p].got) /\ harm' = harm
             /\ \A q \in Procs \ {p} : call'[q] = call[q]
  <2>1. /\ call'[p] = [call[p] EXCEPT !.at = "enter", !.saved = s]
        /\ \A q \in Procs \ {p} : call'[q] = call[q]
    BY <1>4, SetDoes
  <2>2. call'[p] = Later(p, "enter", s, call[p].got, call[p].again, call[p].result, call[p].ending)
    BY <1>1, <2>1 DEF Calls, Later
  <2>3. QED BY <1>4, <2>1, <2>2, GoesDoes DEF AsksTurn
<1>5. CASE \E s \in file : /\ Set(p, [call[p] EXCEPT !.at = "done", !.result = "ok", !.got = s])
                           /\ UNCHANGED turnVars
  BY <1>1, <1>3, <1>5
<1>6. CASE \E s \in file : Set(p, [call[p] EXCEPT !.at = "enter", !.saved = s]) /\ AsksTurn(p)
  <2>1. PICK s \in file : Set(p, [call[p] EXCEPT !.at = "enter", !.saved = s]) /\ AsksTurn(p)
    BY <1>6
  <2>2. QED BY <1>1, <1>4, <2>1 DEF GoesTo
<1>7. QED BY <1>2, <1>5, <1>6 DEF ReadFirst

LEMMA EnterDoes ==
  ASSUME SessionTypeOK, NEW p \in Procs, Enter(p)
  PROVE  /\ At(p, "enter") /\ place[p] \in {"with", "without"} /\ UNCHANGED <<harm, srv>>
         /\ \A q \in Procs \ {p} : call'[q] = call[q]
         /\ \/ /\ EndsAs(p, "signed-out", NoPair) /\ LeavesTurn(p) /\ file' = {}
            \/ \E s \in file : EndsAs(p, "ok", s) /\ LeavesTurn(p) /\ file' = file
            \/ \E s \in file : GoesTo(p, "asked", s, call[p].got) /\ UNCHANGED <<place, file>>
<1>1. /\ At(p, "enter") /\ place[p] \in {"with", "without"} /\ UNCHANGED <<harm, srv>>
      /\ call[p] \in Calls
  BY DEF Enter, SessionTypeOK
<1>2. CASE Ends(p, "signed-out", NoPair) /\ file' = {}
  BY <1>1, <1>2, EndsDoes DEF Ends
<1>3. CASE \E s \in file : Ends(p, "ok", s) /\ file' = file
  BY <1>1, <1>3, EndsDoes DEF Ends
<1>4. CASE \E s \in file : Steps(p, [call[p] EXCEPT !.at = "asked", !.saved = s]) /\ file' = file
  <2>1. PICK s \in file : Steps(p, [call[p] EXCEPT !.at = "asked", !.saved = s]) /\ file' = file
    BY <1>4
  <2>2. call'[p] = [call[p] EXCEPT !.at = "asked", !.saved = s] /\ \A q \in Procs \ {p} : call'[q] = call[q]
    BY <2>1, SetDoes DEF Steps
  <2>3. call'[p] = Later(p, "asked", s, call[p].got, call[p].again, call[p].result, call[p].ending)
    BY <1>1, <2>2 DEF Calls, Later
  <2>4. QED BY <1>1, <2>1, <2>2, <2>3, GoesDoes DEF Steps
<1>5. QED BY <1>2, <1>3, <1>4 DEF Enter

LEMMA RenewDoes ==
  ASSUME SessionTypeOK, NEW p \in Procs, Renew(p)
  PROVE  /\ At(p, "asked") /\ UNCHANGED file
         /\ \A q \in Procs \ {p} : call'[q] = call[q]
         /\ LET pair == call[p].saved
                next == <<pair[1], pair[2] + 1>>
            IN \/ /\ Newest(pair) /\ pair[2] < MaxPairs
                  /\ srv' = [srv EXCEPT ![pair[1]] = pair[2] + 1]
                  /\ GoesTo(p, "compare", pair, next) /\ UNCHANGED <<place, harm>>
               \/ /\ Newest(pair) /\ pair[2] < MaxPairs
                  /\ srv' = [srv EXCEPT ![pair[1]] = pair[2] + 1]
                  /\ EndsAs(p, "unreachable", NoPair) /\ LeavesTurn(p) /\ harm' = harm \cup {"lost"}
               \/ /\ ~Newest(pair)
                  /\ GoesTo(p, "refused", pair, call[p].got) /\ UNCHANGED <<srv, place, harm>>
               \/ EndsAs(p, "unreachable", NoPair) /\ LeavesTurn(p) /\ UNCHANGED <<srv, harm>>
<1> DEFINE pair == call[p].saved
           next == <<pair[1], pair[2] + 1>>
<1>1. At(p, "asked") /\ UNCHANGED file /\ call[p] \in Calls
  BY DEF Renew, SessionTypeOK
<1>2. CASE /\ Newest(pair) /\ pair[2] < MaxPairs
           /\ srv' = [srv EXCEPT ![pair[1]] = pair[2] + 1]
           /\ Steps(p, [call[p] EXCEPT !.at = "compare", !.got = next]) /\ UNCHANGED harm
  <2>1. Steps(p, [call[p] EXCEPT !.at = "compare", !.got = next])
    BY <1>2
  <2> HIDE DEF next
  <2>2. call'[p] = [call[p] EXCEPT !.at = "compare", !.got = next] /\ \A q \in Procs \ {p} : call'[q] = call[q]
    BY <2>1, SetDoes DEF Steps
  <2>3. call'[p] = Later(p, "compare", call[p].saved, next, call[p].again, call[p].result, call[p].ending)
    BY <1>1, <2>2 DEF Calls, Later
  <2>4. GoesTo(p, "compare", pair, next) /\ UNCHANGED place
    BY <2>1, <2>2, <2>3, GoesDoes DEF Steps
  <2>5. QED BY <1>1, <1>2, <2>2, <2>4 DEF next
<1>3. CASE /\ Newest(pair) /\ pair[2] < MaxPairs
           /\ srv' = [srv EXCEPT ![pair[1]] = pair[2] + 1]
           /\ Ends(p, "unreachable", NoPair) /\ Suffers("lost")
  BY <1>1, <1>3, EndsDoes DEF Ends, Suffers
<1>4. CASE ~Newest(pair) /\ Steps(p, [call[p] EXCEPT !.at = "refused"]) /\ UNCHANGED <<srv, harm>>
  <2>1. Steps(p, [call[p] EXCEPT !.at = "refused"])
    BY <1>4
  <2>2. call'[p] = [call[p] EXCEPT !.at = "refused"] /\ \A q \in Procs \ {p} : call'[q] = call[q]
    BY <2>1, SetDoes DEF Steps
  <2>3. call'[p] = Later(p, "refused", call[p].saved, call[p].got, call[p].again, call[p].result, call[p].ending)
    BY <1>1, <2>2 DEF Calls, Later
  <2>4. QED BY <1>1, <1>4, <2>1, <2>2, <2>3, GoesDoes DEF Steps
<1>5. CASE Ends(p, "unreachable", NoPair) /\ UNCHANGED <<srv, harm>>
  BY <1>1, <1>5, EndsDoes DEF Ends
<1>6. QED BY <1>2, <1>3, <1>4, <1>5 DEF Renew

LEMMA RefusedDoes ==
  ASSUME SessionTypeOK, NEW p \in Procs, Refused(p)
  PROVE  /\ At(p, "refused") /\ UNCHANGED <<harm, file, srv>>
         /\ \A q \in Procs \ {p} : call'[q] = call[q]
         /\ \/ /\ call[p].again \/ file \ {call[p].saved} = {}
               /\ EndsAs(p, "revoked", NoPair) /\ LeavesTurn(p)
            \/ \E s \in file \ {call[p].saved} : EndsAs(p, "ok", s) /\ LeavesTurn(p)
            \/ \E s \in file \ {call[p].saved} : GoesTo(p, "asked", s, call[p].got) /\ UNCHANGED place
<1> DEFINE others == file \ {call[p].saved}
<1>1. At(p, "refused") /\ UNCHANGED <<harm, file, srv>> /\ call[p] \in Calls
  BY DEF Refused, SessionTypeOK
<1>2. CASE (call[p].again \/ others = {}) /\ Ends(p, "revoked", NoPair)
  BY <1>1, <1>2, EndsDoes DEF Ends
<1>3. CASE \E s \in others : Ends(p, "ok", s)
  BY <1>1, <1>3, EndsDoes DEF Ends
<1>4. CASE \E s \in others : Steps(p, [call[p] EXCEPT !.at = "asked", !.saved = s, !.again = TRUE])
  <2>1. PICK s \in others : Steps(p, [call[p] EXCEPT !.at = "asked", !.saved = s, !.again = TRUE])
    BY <1>4
  <2>2. call'[p] = [call[p] EXCEPT !.at = "asked", !.saved = s, !.again = TRUE] /\ \A q \in Procs \ {p} : call'[q] = call[q]
    BY <2>1, SetDoes DEF Steps
  <2>3. call'[p] = Later(p, "asked", s, call[p].got, TRUE, call[p].result, call[p].ending)
    BY <1>1, <2>2 DEF Calls, Later
  <2>4. GoesTo(p, "asked", s, call[p].got) /\ UNCHANGED place
    BY <2>1, <2>3, GoesDoes DEF Steps
  <2>5. QED BY <1>1, <2>2, <2>4
<1>5. QED BY <1>2, <1>3, <1>4 DEF Refused

LEMMA CompareDoes ==
  ASSUME SessionTypeOK, NEW p \in Procs, Compare(p)
  PROVE  /\ At(p, "compare") /\ UNCHANGED <<harm, file, srv>>
         /\ \A q \in Procs \ {p} : call'[q] = call[q]
         /\ \/ /\ file = {call[p].saved}
               /\ GoesTo(p, "write", call[p].saved, call[p].got) /\ UNCHANGED place
            \/ file # {call[p].saved} /\ EndsAs(p, "ok", call[p].got) /\ LeavesTurn(p)
<1>1. At(p, "compare") /\ UNCHANGED <<harm, file, srv>> /\ call[p] \in Calls
  BY DEF Compare, SessionTypeOK
<1>2. CASE file = {call[p].saved} /\ Steps(p, [call[p] EXCEPT !.at = "write"])
  <2>1. Steps(p, [call[p] EXCEPT !.at = "write"])
    BY <1>2
  <2>2. call'[p] = [call[p] EXCEPT !.at = "write"] /\ \A q \in Procs \ {p} : call'[q] = call[q]
    BY <2>1, SetDoes DEF Steps
  <2>3. call'[p] = Later(p, "write", call[p].saved, call[p].got, call[p].again, call[p].result, call[p].ending)
    BY <1>1, <2>2 DEF Calls, Later
  <2>4. QED BY <1>1, <1>2, <2>1, <2>2, <2>3, GoesDoes DEF Steps
<1>3. CASE file # {call[p].saved} /\ Ends(p, "ok", call[p].got)
  BY <1>1, <1>3, EndsDoes DEF Ends
<1>4. QED BY <1>2, <1>3 DEF Compare

LEMMA WriteDoes ==
  ASSUME SessionTypeOK, NEW p \in Procs, Write(p)
  PROVE  /\ At(p, "write") /\ place[p] \in {"with", "without"} /\ UNCHANGED srv
         /\ \A q \in Procs \ {p} : call'[q] = call[q]
         /\ LeavesTurn(p)
         /\ \/ file' = {call[p].got} /\ EndsAs(p, "ok", call[p].got) /\ UNCHANGED harm
            \/ /\ file' = file /\ EndsAs(p, "failed", NoPair)
               /\ harm' = IF call[p].op = "login" THEN harm ELSE harm \cup {"lost"}
BY EndsDoes DEF Write, Ends, Suffers

LEMMA UseDoes ==
  ASSUME SessionTypeOK, NEW p \in Procs, Use(p)
  PROVE  /\ At(p, "done") /\ UNCHANGED <<place, harm, file, srv>>
         /\ \A q \in Procs \ {p} : call'[q] = call[q]
         /\ \/ Begins(p, "first", "session", NoPair, call[p].got)
            \/ Begins(p, "idle", "session", NoPair, NoPair)
<1>1. At(p, "done") /\ UNCHANGED <<place, harm, file, srv>>
  BY DEF Use, Done, turnVars
<1>2. CASE Set(p, [Idle EXCEPT !.at = "first", !.refused = call[p].got])
  <2>1. /\ call'[p] = [Idle EXCEPT !.at = "first", !.refused = call[p].got]
        /\ \A q \in Procs \ {p} : call'[q] = call[q]
    BY <1>2, SetDoes
  <2>2. Begins(p, "first", "session", NoPair, call[p].got)
    BY <2>1 DEF Begins, Idle
  <2>3. QED BY <1>1, <2>1, <2>2
<1>3. CASE Set(p, Idle)
  BY <1>1, <1>3, SetDoes DEF Begins, Idle
<1>4. QED BY <1>2, <1>3 DEF Use

LEMMA EndSessionDoes ==
  ASSUME SessionTypeOK, NEW p \in Procs, EndSession(p)
  PROVE  /\ At(p, "done") /\ UNCHANGED <<harm, file>> /\ AsksTurn(p)
         /\ \A q \in Procs \ {p} : call'[q] = call[q]
         /\ GoesTo(p, "enter", call[p].saved, call[p].got)
         /\ \/ /\ call[p].result = "ok" /\ Newest(call[p].got)
               /\ srv' = [srv EXCEPT ![call[p].got[1]] = Ended]
            \/ UNCHANGED srv
<1>1. Set(p, [call[p] EXCEPT !.at = "enter", !.ending = TRUE])
  BY DEF EndSession
<1>2. /\ call'[p] = [call[p] EXCEPT !.at = "enter", !.ending = TRUE] /\ call[p] \in Calls
      /\ \A q \in Procs \ {p} : call'[q] = call[q]
  BY <1>1, SetDoes
<1>3. call'[p] = Later(p, "enter", call[p].saved, call[p].got, call[p].again, call[p].result, TRUE)
  BY <1>2 DEF Calls, Later
<1>4. GoesTo(p, "enter", call[p].saved, call[p].got)
  BY <1>3, GoesDoes
<1>5. /\ At(p, "done") /\ UNCHANGED <<harm, file>> /\ AsksTurn(p)
      /\ \/ /\ call[p].result = "ok" /\ Newest(call[p].got)
            /\ srv' = [srv EXCEPT ![call[p].got[1]] = Ended]
         \/ UNCHANGED srv
  BY DEF EndSession, Done, AsksTurn
<1>6. QED BY <1>2, <1>4, <1>5

LEMMA OverDoes ==
  ASSUME SessionTypeOK, NEW p \in Procs, Over(p)
  PROVE  /\ At(p, "done") /\ UNCHANGED <<place, harm, file, srv>>
         /\ \A q \in Procs \ {p} : call'[q] = call[q]
         /\ Begins(p, "idle", "session", NoPair, NoPair)
BY SetDoes DEF Over, Done, turnVars, Begins, Idle

\* A process dies, or waits for its turn: its call stays where it is.
LEMMA LockMovesDo ==
  ASSUME NEW p \in Procs, LockMoves(p) \/ Die(p)
  PROVE  UNCHANGED <<file, srv, call>>
BY DEF LockMoves, Die, sessionVars

LEMMA CallTypes ==
  ASSUME SessionTypeOK, ServerInv, NEW p \in Procs,
         \/ \E op \in Ops : Start(p, op)
         \/ StartLogin(p) \/ ReadFirst(p) \/ Enter(p) \/ Renew(p) \/ Refused(p)
         \/ Compare(p) \/ Write(p) \/ Use(p) \/ EndSession(p) \/ Over(p)
  PROVE  /\ call' \in [Procs -> Calls]
         /\ \A q \in Procs \ {p} : call'[q] = call[q]
<1> USE SessionAssumption DEF SessionTypeOK, Set, Steps, Ends
<1>1. ASSUME NEW c \in Calls, call' = [call EXCEPT ![p] = c]
      PROVE  call' \in [Procs -> Calls] /\ \A q \in Procs \ {p} : call'[q] = call[q]
  BY <1>1
<1>2. Idle \in Calls
  BY DEF Idle, Calls, CallSteps, Ops, Results
<1>3. call[p] \in Calls
  OBVIOUS
<1>4. ASSUME NEW op \in Ops, Start(p, op) PROVE \E c \in Calls : call' = [call EXCEPT ![p] = c]
  BY <1>2, <1>4 DEF Start, Calls, CallSteps, Ops
<1>5. ASSUME StartLogin(p) PROVE \E c \in Calls : call' = [call EXCEPT ![p] = c]
  <2>1. PICK c \in Chains : call' = [call EXCEPT ![p] = [Idle EXCEPT !.at = "write", !.op = "login", !.got = <<c, 1>>]]
    BY <1>5 DEF StartLogin
  <2>2. <<c, 1>> \in Pairs
    BY PairParts
  <2>3. QED BY <1>2, <2>1, <2>2 DEF Calls, CallSteps, Ops
<1>6. ASSUME NEW result \in Results, NEW pair \in Pairs \cup {NoPair}, Ends(p, result, pair)
      PROVE  \E c \in Calls : call' = [call EXCEPT ![p] = c]
  BY <1>3, <1>6 DEF Calls, CallSteps
<1>7. ASSUME ReadFirst(p) PROVE \E c \in Calls : call' = [call EXCEPT ![p] = c]
  BY <1>3, <1>7 DEF ReadFirst, Calls, CallSteps, Results
<1>8. ASSUME Enter(p) PROVE \E c \in Calls : call' = [call EXCEPT ![p] = c]
  <2>1. CASE \E s \in file : Steps(p, [call[p] EXCEPT !.at = "asked", !.saved = s])
    BY <1>3, <2>1 DEF Calls, CallSteps
  <2>2. CASE Ends(p, "signed-out", NoPair) \/ \E s \in file : Ends(p, "ok", s)
    BY <1>6, <2>2 DEF Results
  <2>3. QED BY <1>8, <2>1, <2>2 DEF Enter
<1>9. ASSUME Renew(p) PROVE \E c \in Calls : call' = [call EXCEPT ![p] = c]
  <2> DEFINE pair == call[p].saved
             next == <<pair[1], pair[2] + 1>>
  <2>1. CASE Steps(p, [call[p] EXCEPT !.at = "compare", !.got = next]) /\ pair[2] < MaxPairs
    <3>1. pair \in Pairs
      BY <1>9 DEF ServerInv, CallInv, Renewing, Renew, At
    <3>2. next \in Pairs
      BY <2>1, <3>1, PairParts
    <3> HIDE DEF next
    <3>3. QED BY <1>3, <2>1, <3>2 DEF Calls, CallSteps
  <2>2. CASE Steps(p, [call[p] EXCEPT !.at = "refused"])
    BY <1>3, <2>2 DEF Calls, CallSteps
  <2>3. CASE Ends(p, "unreachable", NoPair)
    BY <1>6, <2>3 DEF Results
  <2>4. QED BY <1>9, <2>1, <2>2, <2>3 DEF Renew
<1>10. ASSUME Refused(p) PROVE \E c \in Calls : call' = [call EXCEPT ![p] = c]
  <2>1. CASE \E s \in file : Steps(p, [call[p] EXCEPT !.at = "asked", !.saved = s, !.again = TRUE])
    BY <1>3, <2>1 DEF Calls, CallSteps
  <2>2. CASE Ends(p, "revoked", NoPair) \/ \E s \in file : Ends(p, "ok", s)
    BY <1>6, <2>2 DEF Results
  <2>3. QED BY <1>10, <2>1, <2>2 DEF Refused
<1>11. ASSUME Compare(p) PROVE \E c \in Calls : call' = [call EXCEPT ![p] = c]
  <2>1. call[p].got \in Pairs \cup {NoPair}
    BY <1>3 DEF Calls
  <2>2. CASE Steps(p, [call[p] EXCEPT !.at = "write"])
    BY <1>3, <2>2 DEF Calls, CallSteps
  <2>3. CASE Ends(p, "ok", call[p].got)
    BY <1>6, <2>1, <2>3 DEF Results
  <2>4. QED BY <1>11, <2>2, <2>3 DEF Compare
<1>12. ASSUME Write(p) PROVE \E c \in Calls : call' = [call EXCEPT ![p] = c]
  <2>1. call[p].got \in Pairs \cup {NoPair}
    BY <1>3 DEF Calls
  <2>2. Ends(p, "ok", call[p].got) \/ Ends(p, "failed", NoPair)
    BY <1>12 DEF Write
  <2>3. QED BY <1>6, <2>1, <2>2 DEF Results
<1>13. ASSUME Use(p) PROVE \E c \in Calls : call' = [call EXCEPT ![p] = c]
  <2>1. [Idle EXCEPT !.at = "first", !.refused = call[p].got] \in Calls
    BY <1>2, <1>3 DEF Calls, CallSteps
  <2>2. QED BY <1>2, <1>13, <2>1 DEF Use
<1>14. ASSUME EndSession(p) PROVE \E c \in Calls : call' = [call EXCEPT ![p] = c]
  BY <1>3, <1>14 DEF EndSession, Calls, CallSteps
<1>15. ASSUME Over(p) PROVE \E c \in Calls : call' = [call EXCEPT ![p] = c]
  BY <1>2, <1>15 DEF Over
<1>16. QED
  BY <1>1, <1>4, <1>5, <1>7, <1>8, <1>9, <1>10, <1>11, <1>12, <1>13, <1>14, <1>15

LEMMA TurnsTypesKept ==
  ASSUME TurnsTypeOK, [Next]_vars
  PROVE  TurnsTypeOK'
<1> USE DEF TurnsTypeOK
<1>1. place' \in [Procs -> TurnPlaces]
  <2> USE DEF TurnPlaces, Moves, Ends, LeavesTurn, Steps, AsksTurn
  <2>1. ASSUME NEW p \in Procs, (\E op \in Ops : Start(p, op)) \/ StartLogin(p) \/ ReadFirst(p) \/ Enter(p)
               \/ Renew(p) \/ Refused(p) \/ Compare(p) \/ Write(p)
        PROVE  place' \in [Procs -> TurnPlaces]
    BY <2>1 DEF Start, StartLogin, ReadFirst, Enter, Renew, Refused, Compare, Write, turnVars
  <2>2. ASSUME NEW p \in Procs, Use(p) \/ EndSession(p) \/ Over(p) \/ LockMoves(p) \/ Die(p)
        PROVE  place' \in [Procs -> TurnPlaces]
    BY <2>2 DEF Use, EndSession, Over, LockMoves, TakesTurn, GoesWithout, Left, Judges, Die, turnVars
  <2>3. CASE Expire \/ UNCHANGED vars
    BY <2>3 DEF Expire, vars, turnVars
  <2>4. QED BY <2>1, <2>2, <2>3 DEF Next, CallMoves
<1>2. harm' \subseteq Harms
  <2> USE DEF Harms, Suffers
  <2>1. ASSUME NEW p \in Procs, (\E op \in Ops : Start(p, op)) \/ StartLogin(p) \/ ReadFirst(p) \/ Enter(p)
               \/ Renew(p) \/ Refused(p) \/ Compare(p) \/ Write(p)
        PROVE  harm' \subseteq Harms
    BY <2>1 DEF Start, StartLogin, ReadFirst, Enter, Renew, Refused, Compare, Write, turnVars, AsksTurn
  <2>2. ASSUME NEW p \in Procs, Use(p) \/ EndSession(p) \/ Over(p) \/ LockMoves(p) \/ Die(p)
        PROVE  harm' \subseteq Harms
    BY <2>2 DEF Use, EndSession, Over, LockMoves, TakesTurn, GoesWithout, Left, Judges, Die, turnVars, AsksTurn
  <2>3. CASE Expire \/ UNCHANGED vars
    BY <2>3 DEF Expire, vars, turnVars
  <2>4. QED BY <2>1, <2>2, <2>3 DEF Next, CallMoves
<1>3. QED BY <1>1, <1>2

\* No process has begun more calls than all of them.
LEMMA BegunBounded ==
  ASSUME SessionTypeOK, NEW p \in Procs, SumFunction(begun) < MaxCalls
  PROVE  begun[p] + 1 \in 0..MaxCalls
<1>1. DOMAIN begun = Procs /\ \A q \in Procs : begun[q] \in Nat
  BY DEF SessionTypeOK
<1>2. SumFunctionOnSet(begun, Procs) = begun[p] + SumFunctionOnSet(begun, Procs \ {p})
  BY <1>1, ProcessAssumption, SumTakes
<1>3. SumFunctionOnSet(begun, Procs \ {p}) \in Nat
  <2>1. IsFiniteSet(Procs \ {p}) /\ \A q \in Procs \ {p} : begun[q] \in Nat
    BY <1>1, ProcessAssumption, FS_Subset
  <2>2. QED BY <2>1, SumType
<1>4. begun[p] < MaxCalls
  BY <1>1, <1>2, <1>3, SessionAssumption DEF SumFunction
<1>5. QED BY <1>1, <1>4, SessionAssumption

LEMMA SessionTypesKept ==
  ASSUME SessionTypeOK, ServerInv, [Next]_vars
  PROVE  SessionTypeOK'
<1> USE SessionAssumption
<1>1. SUFFICES ASSUME NEW p \in Procs,
                      \/ \E op \in Ops : Start(p, op)
                      \/ StartLogin(p) \/ CallMoves(p) \/ Die(p)
               PROVE  SessionTypeOK'
  <2>1. CASE Expire
    BY <2>1 DEF Expire, SessionTypeOK
  <2>2. CASE UNCHANGED vars
    BY <2>2 DEF vars, sessionVars, SessionTypeOK
  <2>3. QED BY <1>1, <2>1, <2>2 DEF Next
<1>2. call' \in [Procs -> Calls]
  <2>1. CASE LockMoves(p) \/ Die(p)
    BY <2>1 DEF LockMoves, Die, sessionVars, SessionTypeOK
  <2>2. CASE ~(LockMoves(p) \/ Die(p))
    BY <1>1, <2>2, CallTypes DEF CallMoves
  <2>3. QED BY <2>1, <2>2
<1>3. begun' \in [Procs -> 0..MaxCalls]
  <2>1. CASE Calling(p)
    BY <2>1, BegunBounded DEF Calling, SessionTypeOK
  <2>2. CASE ~Calling(p)
    <3>1. begun' = begun
      BY <1>1, <2>2 DEF Start, StartLogin, CallMoves, ReadFirst, Enter, Renew, Refused, Compare, Write,
                        Use, EndSession, Over, LockMoves, Die, sessionVars
    <3>2. QED BY <3>1 DEF SessionTypeOK
  <2>3. QED BY <2>1, <2>2
<1>4. due' = due
  BY <1>1 DEF Start, StartLogin, CallMoves, ReadFirst, Enter, Renew, Refused, Compare, Write,
              Use, EndSession, Over, LockMoves, Die, sessionVars
<1>5. file' = file \/ file' = {} \/ \E s \in Pairs : file' = {s}
  <2>1. CASE Write(p)
    <3>1. call[p].at = "write" => call[p].got \in Pairs
      BY DEF ServerInv, CallInv, LoginInv, Rotated, Saves, LoggingIn
    <3>2. QED BY <2>1, <3>1 DEF Write, At
  <2>2. CASE ~Write(p)
    BY <1>1, <2>2 DEF Start, StartLogin, CallMoves, ReadFirst, Enter, Renew, Refused, Compare,
                      Use, EndSession, Over, LockMoves, Die, sessionVars
  <2>3. QED BY <2>1, <2>2
<1>6. srv' \in [Chains -> 0..Ended]
  <2>1. srv \in [Chains -> 0..Ended] /\ 1 \in 0..Ended /\ Ended \in 0..Ended
    BY DEF SessionTypeOK, Ended
  <2>2. CASE StartLogin(p)
    BY <2>1, <2>2 DEF StartLogin
  <2>3. CASE Renew(p)
    <3>1. call[p].saved \in Pairs
      BY <2>3 DEF Renew, At, ServerInv, CallInv, Renewing
    <3>2. call[p].saved[2] < MaxPairs => call[p].saved[2] + 1 \in 0..Ended
      BY <3>1, PairParts DEF Ended
    <3>3. QED BY <2>1, <2>3, <3>2 DEF Renew
  <2>4. CASE EndSession(p)
    BY <2>1, <2>4 DEF EndSession
  <2>5. CASE ~(StartLogin(p) \/ Renew(p) \/ EndSession(p))
    <3>1. srv' = srv
      BY <1>1, <2>5 DEF Start, CallMoves, ReadFirst, Enter, Refused, Compare, Write,
                        Use, Over, LockMoves, Die, sessionVars
    <3>2. QED BY <2>1, <3>1
  <2>6. QED BY <2>2, <2>3, <2>4, <2>5
<1>7. QED BY <1>2, <1>3, <1>4, <1>5, <1>6 DEF SessionTypeOK

\* The server goes on to later pairs only.
LEMMA ServerGoesOn ==
  ASSUME SessionTypeOK, ServerInv, [Next]_vars
  PROVE  \A c \in Chains : srv[c] <= srv'[c]
<1> USE SessionAssumption
<1>1. srv \in [Chains -> 0..Ended] /\ 0..Ended \subseteq Nat
  BY DEF SessionTypeOK, Ended
<1>2. ASSUME srv' = srv PROVE \A c \in Chains : srv[c] <= srv'[c]
  BY <1>1, <1>2
<1>3. ASSUME NEW p \in Procs, StartLogin(p) PROVE \A c \in Chains : srv[c] <= srv'[c]
  BY <1>1, <1>3 DEF StartLogin
<1>4. ASSUME NEW p \in Procs, Renew(p) PROVE \A c \in Chains : srv[c] <= srv'[c]
  <2>1. call[p].saved \in Pairs
    BY <1>4 DEF Renew, At, ServerInv, CallInv, Renewing
  <2>2. call[p].saved[1] \in Chains /\ call[p].saved[2] \in Nat
    BY <2>1, PairParts
  <2>3. QED BY <1>1, <1>4, <2>2 DEF Renew, Newest
<1>5. ASSUME NEW p \in Procs, EndSession(p) PROVE \A c \in Chains : srv[c] <= srv'[c]
  <2>1. CASE srv' = [srv EXCEPT ![call[p].got[1]] = Ended]
    BY <1>1, <2>1 DEF Ended
  <2>2. QED BY <1>2, <1>5, <2>1 DEF EndSession
<1>6. QED
  BY <1>2, <1>3, <1>4, <1>5 DEF Next, CallMoves, Start, ReadFirst, Enter, Refused, Compare, Write,
     Use, Over, LockMoves, Die, Expire, vars, sessionVars

LEMMA IssuedStays ==
  ASSUME SessionTypeOK, ServerInv, [Next]_vars, NEW s, Issued(s)
  PROVE  Issued(s)'
<1>1. SUFFICES ASSUME s \in Pairs PROVE s[2] <= srv'[s[1]]
  BY DEF Issued
<1>2. s[1] \in Chains /\ s[2] \in Nat
  BY <1>1, PairParts
<1>3. s[2] <= srv[s[1]] /\ srv[s[1]] <= srv'[s[1]]
  BY <1>1, <1>2, ServerGoesOn DEF Issued
<1>4. srv[s[1]] \in Nat /\ srv'[s[1]] \in Nat
  BY <1>2, SessionTypesKept DEF SessionTypeOK, Ended
<1>5. QED BY <1>2, <1>3, <1>4

LEMMA NoPairIssued == Issued(NoPair) /\ Issued(NoPair)'
BY PairParts DEF Issued

\* What a call of p comes to have it had, or read, or was just issued.
LEMMA IssuedLater ==
  ASSUME SessionTypeOK, ServerInv, [Next]_vars
  PROVE  IssuedInv'
<1> USE DEF SessionTypeOK
<1>1. /\ \A s \in file : Issued(s) /\ Issued(s)'
      /\ \A q \in Procs : /\ Issued(call[q].saved) /\ Issued(call[q].got) /\ Issued(call[q].refused)
      /\ \A q \in Procs : \A s \in {call[q].saved, call[q].got, call[q].refused} :
           s \in Pairs => s[2] <= srv'[s[1]]
  <2>1. \A s \in file : Issued(s) /\ Issued(s)'
    BY IssuedStays DEF ServerInv, IssuedInv
  <2>2. \A q \in Procs : Issued(call[q].saved) /\ Issued(call[q].got) /\ Issued(call[q].refused)
    BY DEF ServerInv, IssuedInv
  <2>3. ASSUME NEW q \in Procs, NEW s \in {call[q].saved, call[q].got, call[q].refused}, s \in Pairs
        PROVE  s[2] <= srv'[s[1]]
    <3>1. s[1] \in Chains /\ s[2] \in Nat
      BY <2>3, PairParts
    <3>2. s[2] <= srv[s[1]] /\ srv[s[1]] <= srv'[s[1]]
      BY <2>2, <2>3, <3>1, ServerGoesOn DEF Issued
    <3>3. srv[s[1]] \in Nat /\ srv'[s[1]] \in Nat
      BY <3>1, SessionTypesKept DEF SessionTypeOK, Ended
    <3>4. QED BY <3>1, <3>2, <3>3
  <2>4. QED BY <2>1, <2>2, <2>3
<1>2. SUFFICES ASSUME NEW p \in Procs,
                      \/ \E op \in Ops : Start(p, op)
                      \/ StartLogin(p) \/ CallMoves(p) \/ Die(p)
               PROVE  IssuedInv'
  <2>1. CASE Expire \/ UNCHANGED vars
    BY <1>1, <2>1 DEF Expire, vars, sessionVars, IssuedInv, Issued
  <2>2. QED BY <1>2, <2>1 DEF Next
<1>3. CASE LockMoves(p) \/ Die(p)
  BY <1>1, <1>3 DEF LockMoves, Die, sessionVars, IssuedInv, Issued
<1>4. CASE ~(LockMoves(p) \/ Die(p))
  <2>1. call[p] \in Calls /\ \A q \in Procs \ {p} : call'[q] = call[q]
    BY <1>2, <1>4, CallTypes DEF CallMoves
  <2>2. ASSUME NEW s \in {call'[p].saved, call'[p].got, call'[p].refused}, s \in Pairs
        PROVE  \/ s \in file \/ s \in {call[p].saved, call[p].got, call[p].refused}
               \/ s[2] <= srv'[s[1]]
    <3>1. NoPair \notin Pairs
      BY PairParts
    <3>3. CASE \E op \in Ops : Start(p, op)
      BY <2>2, <3>1, <3>3, StartDoes DEF Begins
    <3>4. CASE StartLogin(p)
      <4>1. PICK c \in Chains : srv' = [srv EXCEPT ![c] = 1] /\ Begins(p, "write", "login", <<c, 1>>, NoPair)
        BY <3>4, StartLoginDoes
      <4>2. s = <<c, 1>>
        BY <2>2, <3>1, <4>1 DEF Begins
      <4>3. srv'[c] = 1
        BY <4>1
      <4>4. QED BY <4>2, <4>3
    <3>5. CASE ReadFirst(p)
      BY <2>2, <3>1, <3>5, ReadFirstDoes DEF GoesTo
    <3>6. CASE Enter(p)
      <4>1. \/ EndsAs(p, "signed-out", NoPair)
            \/ \E x \in file : EndsAs(p, "ok", x) \/ GoesTo(p, "asked", x, call[p].got)
        BY <3>6, EnterDoes
      <4>2. QED BY <2>2, <3>1, <4>1 DEF GoesTo, EndsAs
    <3>7. CASE Renew(p)
      <4> DEFINE next == <<call[p].saved[1], call[p].saved[2] + 1>>
      <4>1. call[p].saved \in Pairs
        BY <3>7 DEF Renew, At, ServerInv, CallInv, Renewing
      <4>2. call[p].saved[1] \in Chains
        BY <4>1, PairParts
      <4>3. \/ s \in {call[p].saved, call[p].got, call[p].refused}
            \/ s = next /\ srv' = [srv EXCEPT ![call[p].saved[1]] = call[p].saved[2] + 1]
        <5>1. \/ /\ srv' = [srv EXCEPT ![call[p].saved[1]] = call[p].saved[2] + 1]
                 /\ GoesTo(p, "compare", call[p].saved, next)
              \/ EndsAs(p, "unreachable", NoPair)
              \/ GoesTo(p, "refused", call[p].saved, call[p].got)
          BY <3>7, RenewDoes
        <5> HIDE DEF next
        <5>2. QED BY <2>2, <3>1, <5>1 DEF GoesTo, EndsAs
      <4>4. CASE s = next /\ srv' = [srv EXCEPT ![call[p].saved[1]] = call[p].saved[2] + 1]
        <5>1. s[1] = call[p].saved[1] /\ s[2] = call[p].saved[2] + 1
          BY <4>4
        <5>2. s[2] = srv'[s[1]] /\ s[2] \in Nat
          BY <4>1, <4>2, <4>4, <5>1, PairParts
        <5>3. QED BY <5>2
      <4>5. QED BY <4>3, <4>4
    <3>8. CASE Refused(p)
      <4>1. \/ EndsAs(p, "revoked", NoPair)
            \/ \E x \in file : EndsAs(p, "ok", x) \/ GoesTo(p, "asked", x, call[p].got)
        BY <3>8, RefusedDoes
      <4>2. QED BY <2>2, <3>1, <4>1 DEF GoesTo, EndsAs
    <3>9. CASE Compare(p)
      BY <2>2, <3>1, <3>9, CompareDoes DEF GoesTo, EndsAs
    <3>10. CASE Write(p)
      <4>1. EndsAs(p, "ok", call[p].got) \/ EndsAs(p, "failed", NoPair)
        BY <3>10, WriteDoes
      <4>2. QED BY <2>2, <3>1, <4>1 DEF EndsAs
    <3>11. CASE Use(p)
      BY <2>2, <3>1, <3>11, UseDoes DEF Begins
    <3>12. CASE EndSession(p)
      BY <2>2, <3>12, EndSessionDoes DEF GoesTo
    <3>13. CASE Over(p)
      BY <2>2, <3>1, <3>13, OverDoes DEF Begins
    <3>14. QED BY <1>2, <1>4, <3>3, <3>4, <3>5, <3>6, <3>7, <3>8, <3>9, <3>10, <3>11, <3>12, <3>13 DEF CallMoves
  <2>3. \A s \in {call'[p].saved, call'[p].got, call'[p].refused} : s \in Pairs => s[2] <= srv'[s[1]]
    BY <1>1, <2>2 DEF Issued
  <2>4. \A s \in file' : s \in Pairs => s[2] <= srv'[s[1]]
    <3>1. file' \subseteq file \cup {call[p].got}
      BY <1>2, <1>4 DEF Start, StartLogin, CallMoves, ReadFirst, Enter, Renew, Refused, Compare, Write,
                        Use, EndSession, Over
    <3>2. QED BY <1>1, <3>1 DEF Issued
  <2>5. \A q \in Procs : \A s \in {call'[q].saved, call'[q].got, call'[q].refused} : s \in Pairs => s[2] <= srv'[s[1]]
    BY <1>1, <2>1, <2>3
  <2>6. QED BY <2>4, <2>5 DEF IssuedInv, Issued
<1>5. QED BY <1>3, <1>4

LEMMA OthersKept ==
  ASSUME TurnsTypeOK, SessionTypeOK, ServerInv, NEW p \in Procs,
         \/ \E op \in Ops : Start(p, op)
         \/ StartLogin(p) \/ CallMoves(p) \/ Die(p)
  PROVE  /\ \A q \in Procs \ {p} : call'[q] = call[q] /\ place'[q] = place[q]
         /\ harm \subseteq harm'
<1>1. \A q \in Procs \ {p} : call'[q] = call[q]
  BY CallTypes, LockMovesDo DEF CallMoves
<1>2. /\ \A q \in Procs \ {p} : place'[q] = place[q]
      /\ harm \subseteq harm'
  <2> USE DEF TurnsTypeOK, Moves, AsksTurn, LeavesTurn, Suffers
  <2>1. CASE \E op \in Ops : Start(p, op)
    BY <2>1 DEF Start, turnVars
  <2>2. CASE StartLogin(p)
    BY <2>2 DEF StartLogin
  <2>3. CASE ReadFirst(p)
    BY <2>3 DEF ReadFirst, turnVars
  <2>4. CASE Enter(p)
    BY <2>4, EnterDoes
  <2>5. CASE Renew(p)
    BY <2>5, RenewDoes
  <2>6. CASE Refused(p)
    BY <2>6, RefusedDoes
  <2>7. CASE Compare(p)
    BY <2>7, CompareDoes
  <2>8. CASE Write(p)
    BY <2>8, WriteDoes
  <2>9. CASE Use(p) \/ Over(p)
    BY <2>9, UseDoes, OverDoes
  <2>10. CASE EndSession(p)
    BY <2>10, EndSessionDoes
  <2>11. CASE LockMoves(p) \/ Die(p)
    BY <2>11 DEF LockMoves, Die, TakesTurn, GoesWithout, Left, Judges
  <2>12. QED BY <2>1, <2>2, <2>3, <2>4, <2>5, <2>6, <2>7, <2>8, <2>9, <2>10, <2>11 DEF CallMoves
<1>3. QED BY <1>1, <1>2

\* A pair that the server has gone past stays one.
LEMMA SupersededStays ==
  ASSUME SessionTypeOK, ServerInv, [Next]_vars, NEW s \in Pairs, s[2] < srv[s[1]]
  PROVE  s[2] < srv'[s[1]]
<1>1. s[1] \in Chains /\ s[2] \in Nat
  BY PairParts
<1>2. srv[s[1]] \in Nat /\ srv'[s[1]] \in Nat /\ srv[s[1]] <= srv'[s[1]]
  BY <1>1, SessionTypesKept, ServerGoesOn DEF SessionTypeOK, Ended
<1>3. QED BY <1>1, <1>2

LEMMA CallKept ==
  ASSUME TurnsTypeOK, SessionTypeOK, ServerInv, [Next]_vars
  PROVE  \A q \in Procs : CallInv(q)'
<1>1. ASSUME NEW q \in Procs, call'[q] = call[q]
      PROVE  CallInv(q)'
  <2>1. CallInv(q)
    BY DEF ServerInv
  <2>2. call[q].at = "refused" => call[q].saved[2] < srv'[call[q].saved[1]]
    BY <2>1, SupersededStays DEF CallInv, Renewing
  <2>3. QED BY <1>1, <2>1, <2>2 DEF CallInv, Renewing, Rotated, Saves
<1>2. SUFFICES ASSUME NEW p \in Procs,
                      \/ \E op \in Ops : Start(p, op)
                      \/ StartLogin(p) \/ CallMoves(p) \/ Die(p)
               PROVE  CallInv(p)'
  <2>1. CASE Expire \/ UNCHANGED vars
    BY <1>1, <2>1 DEF Expire, vars, sessionVars
  <2>2. QED BY <1>1, <1>2, <2>1, OthersKept DEF Next
<1>3. CallInv(p) /\ file \subseteq Pairs
  BY DEF ServerInv, SessionTypeOK
<1>4. ASSUME NEW result, NEW pair, EndsAs(p, result, pair), result = "ok" => pair \in Pairs
      PROVE  CallInv(p)'
  BY <1>4 DEF EndsAs, CallInv, Renewing, Rotated, Saves
<1>5. ASSUME NEW s \in file, call[p].op # "login", GoesTo(p, "asked", s, call[p].got)
      PROVE  CallInv(p)'
  BY <1>3, <1>5 DEF GoesTo, CallInv, Renewing, Rotated, Saves
<1>6. ASSUME NEW at, NEW op, NEW got, NEW refused, Begins(p, at, op, got, refused),
             \/ at \in {"idle", "first"} /\ op # "login"
             \/ at = "write" /\ op = "login"
      PROVE  CallInv(p)'
  BY <1>6 DEF Begins, CallInv, Renewing, Rotated, Saves
<1>7. CASE \E op \in Ops : Start(p, op)
  <2>1. PICK op \in Ops : op # "login" /\ Begins(p, "first", op, NoPair, NoPair)
    BY <1>7, StartDoes
  <2>2. QED BY <1>6, <2>1
<1>8. CASE StartLogin(p)
  BY <1>6, <1>8, StartLoginDoes
<1>9. CASE ReadFirst(p)
  BY <1>3, <1>9, ReadFirstDoes DEF GoesTo, CallInv, Renewing, Rotated, Saves
<1>10. CASE Enter(p)
  <2>1. call[p].op # "login"
    BY <1>3, <1>10 DEF CallInv, Enter, At
  <2>2. QED BY <1>3, <1>4, <1>5, <1>10, <2>1, EnterDoes
<1>11. CASE Renew(p)
  <2> DEFINE pair == call[p].saved
             next == <<pair[1], pair[2] + 1>>
  <2>1. call[p].op # "login" /\ pair \in Pairs
    BY <1>3, <1>11 DEF CallInv, Renew, At, Renewing
  <2>2. CASE GoesTo(p, "compare", pair, next) /\ pair[2] < MaxPairs
    <3>1. next \in Pairs
      BY <2>1, <2>2, PairParts, SessionAssumption
    <3>2. QED BY <2>1, <2>2, <3>1 DEF GoesTo, CallInv, Renewing, Rotated, Saves
  <2>3. CASE GoesTo(p, "refused", pair, call[p].got) /\ ~Newest(pair) /\ srv' = srv
    <3>1. pair[2] <= srv[pair[1]] /\ pair[2] # srv[pair[1]]
      BY <2>1, <2>3 DEF Newest, ServerInv, IssuedInv, Issued
    <3>2. pair[1] \in Chains /\ pair[2] \in Nat /\ srv[pair[1]] \in Nat
      BY <2>1, PairParts DEF SessionTypeOK, Ended
    <3>3. pair[2] < srv[pair[1]]
      BY <3>1, <3>2
    <3>4. QED BY <2>1, <2>3, <3>3 DEF GoesTo, CallInv, Renewing, Rotated, Saves
  <2>4. CASE EndsAs(p, "unreachable", NoPair)
    BY <1>4, <2>4
  <2>5. QED BY <1>11, <2>2, <2>3, <2>4, RenewDoes
<1>12. CASE Refused(p)
  <2>1. call[p].op # "login"
    BY <1>3, <1>12 DEF CallInv, Refused, At
  <2>2. QED BY <1>3, <1>4, <1>5, <1>12, <2>1, RefusedDoes
<1>13. CASE Compare(p)
  <2>1. call[p].op # "login" /\ Rotated(p) /\ Renewing(p)
    BY <1>3, <1>13 DEF CallInv, Compare, At, Rotated, Renewing
  <2>2. CASE GoesTo(p, "write", call[p].saved, call[p].got)
    BY <1>3, <2>1, <2>2 DEF GoesTo, CallInv, Renewing, Rotated, Saves
  <2>3. QED BY <1>3, <1>4, <1>13, <2>1, <2>2, CompareDoes DEF CallInv
<1>14. CASE Write(p)
  <2>1. call[p].got \in Pairs
    BY <1>14 DEF Write, At, ServerInv, CallInv, LoginInv, Rotated, Saves, LoggingIn
  <2>2. QED BY <1>4, <1>14, <2>1, WriteDoes
<1>15. CASE Use(p)
  <2>1. CASE Begins(p, "first", "session", NoPair, call[p].got)
    BY <1>6, <2>1
  <2>2. CASE Begins(p, "idle", "session", NoPair, NoPair)
    BY <1>6, <2>2
  <2>3. QED BY <1>15, <2>1, <2>2, UseDoes
<1>16. CASE EndSession(p)
  <2>1. call[p].op # "login"
    BY <1>16 DEF EndSession
  <2>2. QED BY <1>16, <2>1, EndSessionDoes DEF GoesTo, CallInv, Renewing, Rotated, Saves
<1>17. CASE Over(p)
  <2>1. Begins(p, "idle", "session", NoPair, NoPair)
    BY <1>17, OverDoes
  <2>2. QED BY <1>6, <2>1
<1>18. CASE LockMoves(p) \/ Die(p)
  BY <1>1, <1>18, LockMovesDo
<1>19. QED
  BY <1>2, <1>7, <1>8, <1>9, <1>10, <1>11, <1>12, <1>13, <1>14, <1>15, <1>16, <1>17, <1>18 DEF CallMoves

\* The pairs of a step: what the call had, what was saved, the next pair of the
\* one it renews, or the first of a login nobody began before.
LEMMA PairsAfter ==
  ASSUME TurnsTypeOK, SessionTypeOK, ServerInv, NEW p \in Procs,
         \/ \E op \in Ops : Start(p, op)
         \/ StartLogin(p) \/ CallMoves(p) \/ Die(p)
  PROVE  /\ file' \subseteq file \cup {call[p].got}
         /\ \A s \in {call'[p].saved, call'[p].got} :
              \/ s = NoPair \/ s \in file
              \/ s[1] \in {call[p].saved[1], call[p].got[1]}
              \/ StartLogin(p) /\ srv[s[1]] = 0
<1> DEFINE From(s) == \/ s = NoPair \/ s \in file
                      \/ s[1] \in {call[p].saved[1], call[p].got[1]}
                      \/ StartLogin(p) /\ srv[s[1]] = 0
<1>1. ASSUME NEW result, NEW pair, EndsAs(p, result, pair), From(pair)
      PROVE  From(call'[p].saved) /\ From(call'[p].got)
  BY <1>1 DEF EndsAs
<1>2. ASSUME NEW at, NEW saved, NEW got, GoesTo(p, at, saved, got), From(saved), From(got)
      PROVE  From(call'[p].saved) /\ From(call'[p].got)
  BY <1>2 DEF GoesTo
<1>3. ASSUME NEW at, NEW op, NEW got, NEW refused, Begins(p, at, op, got, refused), From(got)
      PROVE  From(call'[p].saved) /\ From(call'[p].got)
  BY <1>3 DEF Begins
<1>4. /\ From(NoPair) /\ From(call[p].saved) /\ From(call[p].got) /\ \A s \in file : From(s)
      /\ From(<<call[p].saved[1], call[p].saved[2] + 1>>)
  OBVIOUS
<1>5. CASE \E op \in Ops : Start(p, op)
  <2>1. PICK op \in Ops : Begins(p, "first", op, NoPair, NoPair) /\ file' = file
    BY <1>5, StartDoes
  <2>2. From(call'[p].saved) /\ From(call'[p].got)
    BY <1>3, <1>4, <2>1
  <2>3. QED BY <2>1, <2>2
<1>6. CASE StartLogin(p)
  <2>1. PICK c \in Chains : srv[c] = 0 /\ Begins(p, "write", "login", <<c, 1>>, NoPair) /\ file' = file
    BY <1>6, StartLoginDoes
  <2>2. From(<<c, 1>>)
    BY <1>6, <2>1
  <2>3. From(call'[p].saved) /\ From(call'[p].got)
    BY <1>3, <2>1, <2>2
  <2>4. QED BY <2>1, <2>3
<1>7. CASE ReadFirst(p)
  <2>1. file' = file
    BY <1>7, ReadFirstDoes
  <2>2. CASE \E s \in file : GoesTo(p, "enter", s, call[p].got)
    <3>1. From(call'[p].saved) /\ From(call'[p].got)
      BY <1>2, <1>4, <2>2
    <3>2. QED BY <2>1, <3>1
  <2>3. CASE /\ call'[p].saved = call[p].saved
             /\ call'[p].got = call[p].got \/ call'[p].got \in file
    <3>1. From(call'[p].saved) /\ From(call'[p].got)
      BY <1>4, <2>3
    <3>2. QED BY <2>1, <3>1
  <2>4. QED BY <1>7, <2>2, <2>3, ReadFirstDoes
<1>8. CASE Enter(p)
  <2>1. /\ file' \subseteq file
        /\ \/ EndsAs(p, "signed-out", NoPair)
           \/ \E s \in file : EndsAs(p, "ok", s) \/ GoesTo(p, "asked", s, call[p].got)
    BY <1>8, EnterDoes
  <2>2. From(call'[p].saved) /\ From(call'[p].got)
    BY <1>1, <1>2, <1>4, <2>1
  <2>3. QED BY <2>1, <2>2
<1>9. CASE Renew(p)
  <2> DEFINE next == <<call[p].saved[1], call[p].saved[2] + 1>>
  <2>1. /\ file' = file
        /\ \/ GoesTo(p, "compare", call[p].saved, next)
           \/ EndsAs(p, "unreachable", NoPair)
           \/ GoesTo(p, "refused", call[p].saved, call[p].got)
    BY <1>9, RenewDoes
  <2>2. From(next)
    BY <1>4
  <2> HIDE DEF next, From
  <2>3. From(call'[p].saved) /\ From(call'[p].got)
    BY <1>1, <1>2, <1>4, <2>1, <2>2
  <2>4. QED BY <2>1, <2>3 DEF From
<1>10. CASE Refused(p)
  <2>1. /\ file' = file
        /\ \/ EndsAs(p, "revoked", NoPair)
           \/ \E s \in file : EndsAs(p, "ok", s) \/ GoesTo(p, "asked", s, call[p].got)
    BY <1>10, RefusedDoes
  <2>2. From(call'[p].saved) /\ From(call'[p].got)
    BY <1>1, <1>2, <1>4, <2>1
  <2>3. QED BY <2>1, <2>2
<1>11. CASE Compare(p) \/ Write(p)
  <2>1. /\ file' \subseteq file \cup {call[p].got}
        /\ \/ EndsAs(p, "ok", call[p].got) \/ EndsAs(p, "failed", NoPair)
           \/ GoesTo(p, "write", call[p].saved, call[p].got)
    BY <1>11, CompareDoes, WriteDoes
  <2>2. From(call'[p].saved) /\ From(call'[p].got)
    BY <1>1, <1>2, <1>4, <2>1
  <2>3. QED BY <2>1, <2>2
<1>12. CASE Use(p) \/ Over(p)
  <2>1. /\ file' = file
        /\ \E at, refused : Begins(p, at, "session", NoPair, refused)
    BY <1>12, UseDoes, OverDoes
  <2>2. From(call'[p].saved) /\ From(call'[p].got)
    BY <1>3, <1>4, <2>1
  <2>3. QED BY <2>1, <2>2
<1>13. CASE EndSession(p)
  <2>1. file' = file /\ GoesTo(p, "enter", call[p].saved, call[p].got)
    BY <1>13, EndSessionDoes
  <2>2. From(call'[p].saved) /\ From(call'[p].got)
    BY <1>2, <1>4, <2>1
  <2>3. QED BY <2>1, <2>2
<1>14. CASE LockMoves(p) \/ Die(p)
  <2>1. file' = file /\ call' = call
    BY <1>14, LockMovesDo
  <2>2. QED BY <1>4, <2>1
<1>15. QED
  BY <1>5, <1>6, <1>7, <1>8, <1>9, <1>10, <1>11, <1>12, <1>13, <1>14 DEF CallMoves

\* Of the chains of the server a step changes the one it renews, the one it
\* ends, or one that nobody has a pair of.
LEMMA ChainsAfter ==
  ASSUME TurnsTypeOK, SessionTypeOK, ServerInv, NEW p \in Procs,
         \/ \E op \in Ops : Start(p, op)
         \/ StartLogin(p) \/ CallMoves(p) \/ Die(p),
         NEW c \in Chains, c \notin {call[p].saved[1], call[p].got[1]}, srv[c] # 0
  PROVE  srv'[c] = srv[c]
<1> USE DEF SessionTypeOK
<1>1. CASE StartLogin(p)
  BY <1>1, StartLoginDoes
<1>2. CASE Renew(p)
  BY <1>2, RenewDoes
<1>3. CASE EndSession(p)
  BY <1>3, EndSessionDoes
<1>4. CASE ~(StartLogin(p) \/ Renew(p) \/ EndSession(p))
  BY <1>4 DEF Start, CallMoves, ReadFirst, Enter, Refused, Compare, Write, Use, Over, LockMoves, Die, sessionVars
<1>5. QED BY <1>1, <1>2, <1>3, <1>4

\* Nobody has a pair of a chain that no login began.
LEMMA NobodyHas ==
  ASSUME SessionTypeOK, ServerInv, NEW c \in Chains, srv[c] = 0
  PROVE  /\ \A s \in file : s[1] # c
         /\ \A q \in Procs : call[q].saved[1] # c /\ call[q].got[1] # c
<1>1. ASSUME NEW s \in Pairs, Issued(s) PROVE s[1] # c
  BY <1>1, PairParts DEF Issued
<1>2. NoPair[1] # c
  BY PairParts
<1>3. \A q \in Procs : call[q].saved \in Pairs \cup {NoPair} /\ call[q].got \in Pairs \cup {NoPair}
  BY DEF SessionTypeOK, Calls
<1>4. QED BY <1>1, <1>2, <1>3 DEF ServerInv, IssuedInv, SessionTypeOK

LEMMA LoginKept ==
  ASSUME TurnsTypeOK, SessionTypeOK, ServerInv, [Next]_vars
  PROVE  \A q \in Procs : LoginInv(q)'
<1>1. ASSUME NEW q \in Procs, UNCHANGED <<file, srv, call>> PROVE LoginInv(q)'
  BY <1>1 DEF ServerInv, LoginInv, LoggingIn
<1>2. SUFFICES ASSUME NEW p \in Procs,
                      \/ \E op \in Ops : Start(p, op)
                      \/ StartLogin(p) \/ CallMoves(p) \/ Die(p),
                      NEW q \in Procs, LoggingIn(q)'
               PROVE  /\ call'[q].got \in Pairs /\ call'[q].got[2] = 1 /\ srv'[call'[q].got[1]] = 1
                      /\ \A s \in file' : s[1] # call'[q].got[1]
                      /\ \A r \in Procs \ {q} : call'[q].got[1] \notin {call'[r].saved[1], call'[r].got[1]}
  <2>1. CASE Expire \/ UNCHANGED vars
    BY <1>1, <2>1 DEF Expire, vars, sessionVars
  <2>2. QED BY <1>2, <2>1 DEF Next, LoginInv
<1>3. CASE LockMoves(p) \/ Die(p)
  BY <1>2, <1>3, LockMovesDo DEF ServerInv, LoginInv, LoggingIn
<1>4. CASE ~(LockMoves(p) \/ Die(p)) /\ q # p
  <2> DEFINE c == call[q].got[1]
  <2>1. call'[q] = call[q] /\ LoggingIn(q) /\ LoginInv(q)
    BY <1>2, <1>4, OthersKept DEF LoggingIn, ServerInv
  <2>2. /\ call[q].got \in Pairs /\ call[q].got[2] = 1 /\ srv[c] = 1 /\ c \in Chains
        /\ \A s \in file : s[1] # c
        /\ \A r \in Procs \ {q} : c \notin {call[r].saved[1], call[r].got[1]}
    BY <2>1, PairParts DEF LoginInv
  <2>3. srv'[c] = 1
    BY <1>2, <1>4, <2>2, ChainsAfter
  <2>4. \A s \in file' : s[1] # c
    BY <1>2, <1>4, <2>2, PairsAfter
  <2>5. \A s \in {call'[p].saved, call'[p].got} : s[1] # c
    BY <1>2, <1>4, <2>2, PairsAfter, PairParts, SMTT(30)
  <2>6. \A r \in Procs \ {q} : c \notin {call'[r].saved[1], call'[r].got[1]}
    BY <1>2, <2>2, <2>5, OthersKept
  <2>7. QED BY <2>1, <2>2, <2>3, <2>4, <2>6
<1>5. CASE ~(LockMoves(p) \/ Die(p)) /\ q = p
  <2>1. CASE StartLogin(p)
    <3>1. PICK c \in Chains :
            /\ srv[c] = 0 /\ srv' = [srv EXCEPT ![c] = 1]
            /\ Begins(p, "write", "login", <<c, 1>>, NoPair) /\ file' = file
      BY <2>1, StartLoginDoes
    <3>2. call'[p].got = <<c, 1>> /\ <<c, 1>> \in Pairs
      BY <3>1, PairParts, SessionAssumption DEF Begins
    <3>3. call'[p].got[1] = c /\ call'[p].got[2] = 1
      BY <3>2
    <3>4. srv'[c] = 1
      BY <3>1 DEF SessionTypeOK
    <3>5. \A r \in Procs \ {p} : call'[r] = call[r]
      BY <2>1, StartLoginDoes
    <3>6. QED BY <1>5, <3>1, <3>2, <3>3, <3>4, <3>5, NobodyHas
  <2>2. CASE ~StartLogin(p)
    <3>1. call'[p].at = "write" /\ call'[p].op = "login"
      BY <1>2, <1>5 DEF LoggingIn
    <3>2. call[p].op = "login" => call[p].at \in {"write", "done"}
      BY DEF ServerInv, CallInv
    <3>3. ~\E op \in Ops : Start(p, op)
      BY <3>1, StartDoes DEF Begins
    <3>4. ~ReadFirst(p)
      BY <3>1, ReadFirstDoes DEF GoesTo
    <3>5. ~Enter(p)
      BY <3>1, EnterDoes DEF GoesTo, EndsAs
    <3>6. ~Renew(p)
      BY <3>1, RenewDoes DEF GoesTo, EndsAs
    <3>7. ~Refused(p)
      BY <3>1, RefusedDoes DEF GoesTo, EndsAs
    <3>8. ~Compare(p)
      BY <3>1, <3>2, CompareDoes DEF GoesTo, EndsAs, At
    <3>9. ~Write(p)
      BY <3>1, WriteDoes DEF EndsAs
    <3>10. ~Use(p) /\ ~Over(p) /\ ~EndSession(p)
      BY <3>1, UseDoes, OverDoes, EndSessionDoes DEF Begins, GoesTo
    <3>11. QED
      BY <1>2, <1>5, <2>2, <3>3, <3>4, <3>5, <3>6, <3>7, <3>8, <3>9, <3>10 DEF CallMoves
  <2>3. QED BY <2>1, <2>2
<1>6. QED BY <1>3, <1>4, <1>5

\* Which calls renew a pair after a step, and of what the file holds.
LEMMA RenewingAfter ==
  ASSUME TurnsTypeOK, SessionTypeOK, ServerInv, NEW p \in Procs,
         \/ \E op \in Ops : Start(p, op)
         \/ StartLogin(p) \/ CallMoves(p) \/ Die(p),
         Renewing(p)'
  PROVE  \/ /\ Renewing(p) /\ call'[p].saved = call[p].saved /\ file' = file
            /\ UNCHANGED place \/ LockMoves(p) \/ Die(p)
         \/ /\ Enter(p) /\ place[p] \in {"with", "without"} /\ UNCHANGED <<place, file>>
            /\ call'[p].saved \in file /\ call'[p].at = "asked"
         \/ /\ Refused(p) /\ At(p, "refused") /\ UNCHANGED <<place, file>>
            /\ call'[p].saved \in file \ {call[p].saved} /\ call'[p].at = "asked"
<1> USE DEF Renewing, Saves
<1>1. call[p].op = "login" => call[p].at \in {"write", "done"}
  BY DEF ServerInv, CallInv
<1>2. CASE \E op \in Ops : Start(p, op)
  BY <1>2, StartDoes DEF Begins
<1>3. CASE StartLogin(p)
  BY <1>3, StartLoginDoes DEF Begins
<1>4. CASE ReadFirst(p)
  BY <1>4, ReadFirstDoes DEF GoesTo
<1>5. CASE Enter(p)
  BY <1>5, EnterDoes DEF GoesTo, EndsAs
<1>6. CASE Renew(p)
  BY <1>6, RenewDoes DEF GoesTo, EndsAs, At
<1>7. CASE Refused(p)
  BY <1>7, RefusedDoes DEF GoesTo, EndsAs
<1>8. CASE Compare(p)
  BY <1>8, CompareDoes DEF GoesTo, EndsAs, At
<1>9. CASE Write(p)
  BY <1>9, WriteDoes DEF EndsAs
<1>10. CASE Use(p) \/ Over(p)
  BY <1>10, UseDoes, OverDoes DEF Begins
<1>11. CASE EndSession(p)
  BY <1>11, EndSessionDoes DEF GoesTo
<1>12. CASE LockMoves(p) \/ Die(p)
  BY <1>12, LockMovesDo
<1>13. QED
  BY <1>2, <1>3, <1>4, <1>5, <1>6, <1>7, <1>8, <1>9, <1>10, <1>11, <1>12 DEF CallMoves

\* The places a step leads to.
LEMMA PlacesAfter ==
  ASSUME TurnsTypeOK, SessionTypeOK, NEW p \in Procs,
         \/ \E op \in Ops : Start(p, op)
         \/ StartLogin(p) \/ CallMoves(p) \/ Die(p)
  PROVE  \/ UNCHANGED place
         \/ /\ place[p] \notin {"with", "without", "dead"} /\ place'[p] \in {"waits", "out"}
            /\ \/ (StartLogin(p) \/ ReadFirst(p) \/ EndSession(p)) /\ place'[p] = "waits"
               \/ LockMoves(p)
         \/ place[p] \in {"with", "without"} /\ place'[p] \in {"leaves", "out"} /\ ~LockMoves(p) /\ ~Die(p)
         \/ LockMoves(p) /\ place[p] = "waits" /\ place'[p] = "without" /\ "bare" \in harm'
         \/ /\ LockMoves(p) /\ place[p] = "waits" /\ place'[p] = "with"
            /\ "judged" \in harm \/ \A q \in Procs : place[q] # "with"
         \/ Die(p) /\ place[p] # "dead" /\ place'[p] = "dead"
<1> USE DEF TurnsTypeOK, Moves
<1>1. CASE \E op \in Ops : Start(p, op)
  BY <1>1, StartDoes
<1>2. CASE StartLogin(p) \/ ReadFirst(p) \/ EndSession(p)
  BY <1>2, StartLoginDoes, ReadFirstDoes, EndSessionDoes DEF AsksTurn
<1>3. CASE Enter(p) \/ Renew(p) \/ Refused(p) \/ Compare(p) \/ Write(p)
  <2>1. UNCHANGED place \/ LeavesTurn(p)
    BY <1>3, EnterDoes, RenewDoes, RefusedDoes, CompareDoes, WriteDoes
  <2>2. CASE UNCHANGED place
    BY <2>2
  <2>3. CASE LeavesTurn(p)
    <3>1. place[p] \in {"with", "without"} /\ place'[p] \in {"leaves", "out"}
      BY <2>3 DEF LeavesTurn
    <3>2. ~LockMoves(p) /\ ~Die(p)
      BY <3>1 DEF LockMoves, Die, TakesTurn, GoesWithout, Left, Judges
    <3>3. QED BY <3>1, <3>2
  <2>4. QED BY <2>1, <2>2, <2>3
<1>4. CASE Use(p) \/ Over(p)
  BY <1>4, UseDoes, OverDoes
<1>5. CASE LockMoves(p)
  <2>1. CASE TakesTurn(p)
    BY <1>5, <2>1 DEF TakesTurn
  <2>2. CASE GoesWithout(p)
    BY <1>5, <2>2 DEF GoesWithout, Suffers
  <2>3. CASE Left(p)
    BY <1>5, <2>3 DEF Left
  <2>4. CASE Judges(p)
    BY <1>5, <2>4 DEF Judges
  <2>5. QED BY <1>5, <2>1, <2>2, <2>3, <2>4 DEF LockMoves
<1>6. CASE Die(p)
  BY <1>6 DEF Die
<1>7. QED BY <1>1, <1>2, <1>3, <1>4, <1>5, <1>6 DEF CallMoves

LEMMA TurnKept ==
  ASSUME TurnsTypeOK, SessionTypeOK, ServerInv, TurnInv, [Next]_vars
  PROVE  TurnInv'
<1>1. CASE Expire \/ UNCHANGED vars
  BY <1>1 DEF Expire, vars, turnVars, sessionVars, TurnInv, Alive, Renewing, Saves
<1>2. SUFFICES ASSUME NEW p \in Procs,
                      \/ \E op \in Ops : Start(p, op)
                      \/ StartLogin(p) \/ CallMoves(p) \/ Die(p),
                      harm' \subseteq {"lost"}
               PROVE  /\ \A q \in Procs : place'[q] # "without"
                      /\ \A q, r \in Procs : place'[q] = "with" /\ place'[r] = "with" => q = r
                      /\ \A q \in Procs : Alive(q)' /\ Renewing(q)' =>
                           place'[q] = "with" /\ file' = {call'[q].saved}
  BY <1>1 DEF Next, TurnInv
<1>3. /\ \A q \in Procs \ {p} : call'[q] = call[q] /\ place'[q] = place[q]
      /\ harm \subseteq {"lost"} /\ "bare" \notin harm' /\ "judged" \notin harm
  BY <1>2, OthersKept
<1>4. /\ \A q \in Procs : place[q] # "without"
      /\ \A q, r \in Procs : place[q] = "with" /\ place[r] = "with" => q = r
      /\ \A q \in Procs : Alive(q) /\ Renewing(q) => place[q] = "with" /\ file = {call[q].saved}
  BY <1>3 DEF TurnInv
<1>5. /\ place'[p] # "without"
      /\ place'[p] = "with" => place[p] = "with" \/ \A q \in Procs : place[q] # "with"
  BY <1>2, <1>3, <1>4, PlacesAfter
<1>6. \A q \in Procs : place'[q] # "without"
  BY <1>3, <1>4, <1>5
<1>7. \A q, r \in Procs : place'[q] = "with" /\ place'[r] = "with" => q = r
  BY <1>3, <1>4, <1>5
<1>8. ASSUME Alive(p)', Renewing(p)'
      PROVE  place'[p] = "with" /\ file' = {call'[p].saved}
  <2>1. Alive(p)
    BY <1>2, <1>8, PlacesAfter DEF Alive
  <2>2. CASE Renewing(p) /\ call'[p].saved = call[p].saved /\ file' = file
             /\ (UNCHANGED place \/ LockMoves(p) \/ Die(p))
    <3>1. place[p] = "with" /\ file = {call[p].saved}
      BY <1>4, <2>1, <2>2
    <3>2. place'[p] = "with"
      BY <1>2, <1>8, <2>2, <3>1, PlacesAfter DEF Alive
    <3>3. QED BY <2>2, <3>1, <3>2
  <2>3. CASE /\ place[p] \in {"with", "without"} /\ UNCHANGED <<place, file>>
             /\ call'[p].saved \in file
    <3>1. place'[p] = "with" /\ file' = file /\ call'[p].saved \in file
      BY <1>4, <2>3
    <3>2. \A s, t \in file : s = t
      BY DEF SessionTypeOK
    <3>3. QED BY <3>1, <3>2
  <2>4. CASE At(p, "refused") /\ call'[p].saved \in file \ {call[p].saved}
    <3>1. Renewing(p)
      BY <2>4 DEF Renewing, At
    <3>2. file = {call[p].saved}
      BY <1>4, <2>1, <3>1
    <3>3. QED BY <2>4, <3>2
  <2>5. QED BY <1>2, <1>8, <2>2, <2>3, <2>4, RenewingAfter
<1>9. ASSUME NEW q \in Procs \ {p}, Alive(q)', Renewing(q)'
      PROVE  place'[q] = "with" /\ file' = {call'[q].saved}
  <2>1. /\ Alive(q) /\ Renewing(q) /\ call'[q] = call[q] /\ place'[q] = place[q]
        /\ place[q] = "with" /\ file = {call[q].saved}
    BY <1>3, <1>4, <1>9 DEF Alive, Renewing, Saves
  <2>2. place[p] # "with" /\ place[p] # "without"
    BY <1>4, <2>1
  <2>3. file' = file
    BY <1>2, <2>2 DEF Start, StartLogin, CallMoves, ReadFirst, Enter, Renew, Refused, Compare, Write, Use,
       EndSession, Over, LockMoves, Die, sessionVars
  <2>4. QED BY <2>1, <2>3
<1>10. QED BY <1>6, <1>7, <1>8, <1>9

\* Only the renewal of a pair supersedes it.
LEMMA CurrentStays ==
  ASSUME TurnsTypeOK, SessionTypeOK, ServerInv, [Next]_vars, NEW p \in Procs,
         \/ \E op \in Ops : Start(p, op)
         \/ StartLogin(p) \/ CallMoves(p) \/ Die(p),
         ~Renew(p) \/ UNCHANGED srv,
         NEW s \in Pairs, srv[s[1]] \in {s[2], Ended}
  PROVE  srv'[s[1]] \in {s[2], Ended}
<1>1. s[1] \in Chains /\ s[2] # 0 /\ srv[s[1]] # 0 /\ srv \in [Chains -> 0..Ended]
  <2>1. s[1] \in Chains /\ s[2] \in 1..MaxPairs
    BY PairParts
  <2>2. Ended \in Nat /\ Ended > MaxPairs /\ MaxPairs \in Nat
    BY PairParts, SessionAssumption
  <2>3. s[2] # 0 /\ Ended # 0
    BY <2>1, <2>2
  <2>4. QED BY <2>1, <2>3 DEF SessionTypeOK
<1>2. CASE StartLogin(p)
  BY <1>1, <1>2, StartLoginDoes
<1>3. CASE EndSession(p)
  BY <1>1, <1>3, EndSessionDoes
<1>4. CASE ~(StartLogin(p) \/ EndSession(p))
  <2>1. srv' = srv
    BY <1>4 DEF Start, CallMoves, ReadFirst, Enter, Refused, Compare, Write, Use, Over, LockMoves, Die, sessionVars
  <2>2. QED BY <2>1
<1>5. QED BY <1>2, <1>3, <1>4

LEMMA EndedStays ==
  ASSUME SessionTypeOK, ServerInv, [Next]_vars, NEW c \in Chains, srv[c] = Ended
  PROVE  srv'[c] = Ended
<1>1. srv'[c] \in 0..Ended /\ srv[c] <= srv'[c] /\ Ended \in Nat
  BY SessionTypesKept, ServerGoesOn, PairParts DEF SessionTypeOK
<1>2. QED BY <1>1

\* The pairs of one call, where they are newest (the first part of CurrentInv).
CallCurrent(p) ==
  /\ call[p].at = "asked" => srv[call[p].saved[1]] \in {call[p].saved[2], Ended}
  /\ call[p].at = "refused" => srv[call[p].saved[1]] = Ended
  /\ Rotated(p) => srv[call[p].got[1]] \in {call[p].got[2], Ended}

LEMMA CallCurrentKept ==
  ASSUME TurnsTypeOK, SessionTypeOK, ServerInv, TurnInv, CurrentInv, [Next]_vars, NEW p \in Procs,
         \/ \E op \in Ops : Start(p, op)
         \/ StartLogin(p) \/ CallMoves(p) \/ Die(p),
         harm' = {}
  PROVE  \A q \in Procs : Alive(q)' => CallCurrent(q)'
<1>1. harm = {} /\ \A q \in Procs \ {p} : call'[q] = call[q] /\ place'[q] = place[q]
  BY OthersKept
<1>2. /\ \A q \in Procs : place[q] # "without"
      /\ \A q, r \in Procs : place[q] = "with" /\ place[r] = "with" => q = r
      /\ \A q \in Procs : Alive(q) /\ Renewing(q) => place[q] = "with" /\ file = {call[q].saved}
  BY <1>1 DEF TurnInv
<1>3. /\ \A q \in Procs : Alive(q) => CallCurrent(q)
      /\ (\A q \in Procs : Alive(q) => ~Rotated(q)) => \A s \in file : srv[s[1]] \in {s[2], Ended}
  BY <1>1 DEF CurrentInv, CallCurrent
<1>4. ASSUME NEW q \in Procs, Alive(q), CallCurrent(q), call'[q] = call[q], ~Renew(p) \/ UNCHANGED srv
      PROVE  CallCurrent(q)'
  <2>1. CallInv(q)
    BY DEF ServerInv
  <2>2. CASE call[q].at = "asked"
    <3>1. call[q].saved \in Pairs /\ ~Rotated(q)'
      BY <1>4, <2>1, <2>2 DEF CallInv, Renewing, Rotated, Saves
    <3>2. srv'[call[q].saved[1]] \in {call[q].saved[2], Ended}
      BY <1>4, <2>2, <3>1, CurrentStays DEF CallCurrent
    <3>3. QED BY <1>4, <2>2, <3>1, <3>2 DEF CallCurrent
  <2>3. CASE call[q].at = "refused"
    <3>1. call[q].saved \in Pairs /\ ~Rotated(q)'
      BY <1>4, <2>1, <2>3 DEF CallInv, Renewing, Rotated, Saves
    <3>2. srv'[call[q].saved[1]] = Ended
      BY <1>4, <2>3, <3>1, EndedStays, PairParts DEF CallCurrent
    <3>3. QED BY <1>4, <2>3, <3>1, <3>2 DEF CallCurrent
  <2>4. CASE Rotated(q)
    <3>1. call[q].got \in Pairs /\ call[q].at \notin {"asked", "refused"}
      BY <2>1, <2>4 DEF CallInv, Rotated, Saves
    <3>2. srv'[call[q].got[1]] \in {call[q].got[2], Ended}
      BY <1>4, <2>4, <3>1, CurrentStays DEF CallCurrent
    <3>3. QED BY <1>4, <3>1, <3>2 DEF CallCurrent
  <2>5. CASE call[q].at \notin {"asked", "refused"} /\ ~Rotated(q)
    BY <1>4, <2>5 DEF CallCurrent, Rotated, Saves
  <2>6. QED BY <2>2, <2>3, <2>4, <2>5
<1>5. ASSUME NEW q \in Procs \ {p}, Alive(q)'
      PROVE  CallCurrent(q)'
  <2>1. call'[q] = call[q] /\ Alive(q)
    BY <1>1, <1>5 DEF Alive
  <2>2. CASE Renewing(q)
    <3>1. ~Renew(p)
      BY <1>2, <2>1, <2>2 DEF Renew, At, Renewing
    <3>2. QED BY <1>3, <1>4, <2>1, <3>1
  <2>3. CASE ~Renewing(q)
    BY <2>1, <2>3 DEF CallCurrent, Renewing, Rotated, Saves
  <2>4. QED BY <2>2, <2>3
<1>6. ASSUME Alive(p)'
      PROVE  CallCurrent(p)'
  <2>1. Alive(p)
    BY <1>6, PlacesAfter DEF Alive
  <2>2. CASE ~Renewing(p)'
    BY <2>2 DEF CallCurrent, Renewing, Rotated, Saves
  <2>3. CASE Renewing(p)' /\ Enter(p)
    <3>1. /\ place[p] \in {"with", "without"} /\ call[p].at = "enter" /\ srv' = srv
          /\ call'[p].saved \in file /\ call'[p].at = "asked"
      BY <2>3, EnterDoes DEF GoesTo, EndsAs, Renewing, Saves, At
    <3>2. \A q \in Procs : Alive(q) => ~Rotated(q)
      BY <1>2, <3>1 DEF Renewing, Rotated, Saves
    <3>3. srv'[call'[p].saved[1]] \in {call'[p].saved[2], Ended}
      BY <1>3, <3>1, <3>2
    <3>4. QED BY <3>1, <3>3 DEF CallCurrent, Rotated, Saves
  <2>4. CASE Renewing(p)' /\ Refused(p)
    <3>1. file = {call[p].saved}
      BY <1>2, <2>1, <2>4 DEF Refused, At, Renewing
    <3>2. QED BY <2>4, <3>1, RefusedDoes DEF EndsAs, Renewing, Saves
  <2>5. CASE Renewing(p)' /\ Renew(p)
    <3> DEFINE pair == call[p].saved
               next == <<pair[1], pair[2] + 1>>
    <3>1. pair \in Pairs /\ call[p].at = "asked" /\ srv[pair[1]] \in {pair[2], Ended}
      BY <1>3, <2>1, <2>5 DEF Renew, At, ServerInv, CallInv, Renewing, CallCurrent
    <3>2. pair[1] \in Chains /\ srv \in [Chains -> 0..Ended]
      BY <3>1, PairParts DEF SessionTypeOK
    <3>3. CASE srv' = [srv EXCEPT ![pair[1]] = pair[2] + 1] /\ GoesTo(p, "compare", pair, next)
      <4>1. call'[p].got = next /\ call'[p].at = "compare"
        BY <3>3 DEF GoesTo
      <4>2. next[1] = pair[1] /\ next[2] = pair[2] + 1
        OBVIOUS
      <4>3. srv'[pair[1]] = pair[2] + 1
        BY <3>2, <3>3
      <4>4. QED BY <4>1, <4>2, <4>3 DEF CallCurrent
    <3>4. CASE ~Newest(pair) /\ GoesTo(p, "refused", pair, call[p].got) /\ UNCHANGED srv
      BY <3>1, <3>4 DEF CallCurrent, GoesTo, Newest, Rotated, Saves
    <3>5. CASE EndsAs(p, "unreachable", NoPair)
      BY <2>5, <3>5 DEF EndsAs, Renewing, Saves
    <3>6. QED BY <2>5, <3>3, <3>4, <3>5, RenewDoes
  <2>6. CASE Renewing(p)' /\ Compare(p)
    <3>1. /\ call'[p].got = call[p].got /\ call'[p].at = "write" /\ srv' = srv /\ Rotated(p)
      BY <2>6, CompareDoes DEF GoesTo, EndsAs, At, Renewing, Saves, Rotated
    <3>2. QED BY <1>3, <2>1, <3>1 DEF CallCurrent
  <2>7. CASE LockMoves(p) \/ Die(p)
    BY <1>3, <1>4, <2>1, <2>7, LockMovesDo
  <2>8. CASE Renewing(p)' /\ ~(Enter(p) \/ Refused(p) \/ Renew(p) \/ Compare(p) \/ LockMoves(p) \/ Die(p))
    <3>1. ~\E op \in Ops : Start(p, op)
      BY <2>8, StartDoes DEF Begins, Renewing, Saves
    <3>2. ~StartLogin(p)
      BY <2>8, StartLoginDoes DEF Begins, Renewing, Saves
    <3>3. ~ReadFirst(p)
      BY <2>8, ReadFirstDoes DEF GoesTo, Renewing, Saves
    <3>4. ~Write(p)
      BY <2>8, WriteDoes DEF EndsAs, Renewing, Saves
    <3>5. ~Use(p) /\ ~Over(p)
      BY <2>8, UseDoes, OverDoes DEF Begins, Renewing, Saves
    <3>6. ~EndSession(p)
      BY <2>8, EndSessionDoes DEF GoesTo, Renewing, Saves
    <3>7. QED BY <2>8, <3>1, <3>2, <3>3, <3>4, <3>5, <3>6 DEF CallMoves
  <2>9. QED BY <2>2, <2>3, <2>4, <2>5, <2>6, <2>7, <2>8
<1>7. QED BY <1>5, <1>6

LEMMA CurrentKept ==
  ASSUME TurnsTypeOK, SessionTypeOK, ServerInv, TurnInv, CurrentInv, [Next]_vars
  PROVE  CurrentInv'
<1>1. CASE UNCHANGED <<turnVars, file, srv, call>>
  BY <1>1 DEF turnVars, CurrentInv, Alive, Rotated, Saves
<1>2. SUFFICES ASSUME NEW p \in Procs,
                      \/ \E op \in Ops : Start(p, op)
                      \/ StartLogin(p) \/ CallMoves(p) \/ Die(p),
                      harm' = {},
                      \A q \in Procs : Alive(q)' => ~Rotated(q)'
               PROVE  \A s \in file' : srv'[s[1]] \in {s[2], Ended}
  <2>1. CASE Expire \/ UNCHANGED vars
    BY <1>1, <2>1 DEF Expire, vars, sessionVars
  <2>2. QED BY <1>2, <2>1, CallCurrentKept DEF Next, CurrentInv, CallCurrent
<1>3. harm = {} /\ \A q \in Procs \ {p} : call'[q] = call[q] /\ place'[q] = place[q]
  BY <1>2, OthersKept
<1>4. /\ \A q \in Procs : place[q] # "without"
      /\ \A q \in Procs : Alive(q) /\ Renewing(q) => place[q] = "with" /\ file = {call[q].saved}
  BY <1>3 DEF TurnInv
<1>5. /\ \A q \in Procs : Alive(q) => CallCurrent(q)
      /\ (\A q \in Procs : Alive(q) => ~Rotated(q)) => \A s \in file : srv[s[1]] \in {s[2], Ended}
  BY <1>3 DEF CurrentInv, CallCurrent
<1>6. \A q \in Procs \ {p} : Alive(q) => ~Rotated(q)
  BY <1>2, <1>3 DEF Alive, Rotated, Saves
<1>7. file \subseteq Pairs
  BY DEF SessionTypeOK
<1>8. CallInv(p) /\ LoginInv(p)
  BY DEF ServerInv
<1>9. ASSUME Write(p), file' = {call[p].got}
      PROVE  \A s \in file' : srv'[s[1]] \in {s[2], Ended}
  <2>1. srv' = srv /\ Alive(p) /\ call[p].at = "write"
    BY <1>9, WriteDoes DEF At
  <2>2. CASE call[p].op # "login"
    BY <1>5, <1>9, <2>1, <2>2 DEF CallCurrent, Rotated, Saves
  <2>3. CASE call[p].op = "login"
    BY <1>8, <1>9, <2>1, <2>3 DEF LoginInv, LoggingIn
  <2>4. QED BY <2>2, <2>3
<1>10. CASE Alive(p) /\ Rotated(p)
  <2>1. /\ call[p].at \in {"compare", "write"} /\ call[p].op # "login" /\ file = {call[p].saved}
    BY <1>4, <1>8, <1>10 DEF CallInv, Renewing, Rotated, Saves
  <2>2. CASE Compare(p)
    <3>1. GoesTo(p, "write", call[p].saved, call[p].got) /\ place' = place
      BY <2>1, <2>2, CompareDoes
    <3>2. QED BY <1>2, <1>10, <2>1, <3>1 DEF GoesTo, Rotated, Saves, Alive
  <2>3. CASE Write(p)
    BY <1>2, <1>9, <2>1, <2>3, WriteDoes
  <2>4. CASE LockMoves(p)
    <3>1. call' = call /\ place'[p] # "dead"
      BY <1>10, <2>4 DEF LockMoves, TakesTurn, GoesWithout, Left, Judges, Moves, sessionVars, TurnsTypeOK, Alive
    <3>2. QED BY <1>2, <1>10, <3>1 DEF Rotated, Saves, Alive
  <2>5. CASE Die(p)
    BY <1>2, <2>1, <2>5 DEF Die, Suffers
  <2>6. QED
    BY <1>2, <2>1, <2>2, <2>3, <2>4, <2>5 DEF CallMoves, Start, Calling, StartLogin, ReadFirst, Enter, Renew, Refused,
       Use, EndSession, Over, Done, At
<1>11. CASE ~(Alive(p) /\ Rotated(p))
  <2>1. \A s \in file : srv[s[1]] \in {s[2], Ended}
    BY <1>5, <1>6, <1>11
  <2>2. CASE Renew(p)
    <3>1. Alive(p) /\ file' = file
      BY <2>2 DEF Renew, At
    <3>2. srv' = srv
      <4>1. ASSUME GoesTo(p, "compare", call[p].saved, <<call[p].saved[1], call[p].saved[2] + 1>>),
                   UNCHANGED place
            PROVE  FALSE
        BY <1>2, <3>1, <4>1 DEF GoesTo, Rotated, Alive
      <4>2. "lost" \notin harm'
        BY <1>2
      <4>3. QED BY <2>2, <4>1, <4>2, RenewDoes
    <3>3. QED BY <2>1, <3>1, <3>2
  <2>3. CASE ~Renew(p) /\ file' \subseteq file
    BY <1>2, <1>7, <2>1, <2>3, CurrentStays
  <2>4. CASE ~Renew(p) /\ ~(file' \subseteq file)
    <3>1. Write(p)
      BY <1>2, <2>4 DEF Start, StartLogin, CallMoves, ReadFirst, Enter, Refused, Compare, Use,
         EndSession, Over, LockMoves, Die, sessionVars
    <3>2. QED BY <1>9, <2>4, <3>1, WriteDoes
  <2>5. QED BY <2>2, <2>3, <2>4
<1>12. QED BY <1>10, <1>11

\* The session's invariant: the server has issued every pair there is, a login
\* has its own, and what goes wrong of the rest is remembered in harm.
THEOREM SessionInvariant == Spec => []SessionInv
<1>1. SessionInv /\ [Next]_vars => SessionInv'
  BY TurnsTypesKept, SessionTypesKept, IssuedLater, CallKept, LoginKept, TurnKept, CurrentKept
     DEF SessionInv, ServerInv
<1>2. QED BY <1>1, SessionFirst, PTL DEF Spec

\* The types of the session (CloudTypeOK, with those of the lock).
THEOREM SessionTypes == Spec => [](TurnsTypeOK /\ SessionTypeOK)
<1>1. SessionInv => TurnsTypeOK /\ SessionTypeOK
  BY DEF SessionInv
<1>2. QED BY <1>1, SessionInvariant, PTL

\* Between two calls the saved pair is the one the server would renew, unless
\* the server ended it or something went wrong that the lock cannot make good
\* (session and refresh, client.ts).
THEOREM SavedIsCurrentAlways == Spec => []SavedIsCurrent
<1>1. SessionInv => SavedIsCurrent
  BY DEF SessionInv, CurrentInv, SavedIsCurrent, Rotated, Saves
<1>2. QED BY <1>1, SessionInvariant, PTL

\* A call is told that the session ended only if the server ended it, lost
\* pairs and calls out of turn apart (refresh, client.ts:123-137).
LEMMA EndedTruly ==
  ASSUME SessionInv, [Next]_vars, NEW q \in Procs, call'[q].result = "revoked", call[q].result # "revoked"
  PROVE  \/ srv[call[q].saved[1]] = Ended
         \/ "lost" \in harm
         \/ harm # {} /\ (call[q].again \/ \A s \in file : ~Newest(s))
<1> USE DEF SessionInv
<1>1. PICK p \in Procs : \/ \E op \in Ops : Start(p, op)
                         \/ StartLogin(p) \/ CallMoves(p) \/ Die(p)
  BY DEF Next, Expire, vars, sessionVars
<1>2. q = p
  BY <1>1, OthersKept
<1>3. Refused(p)
  <2>1. ~(\E op \in Ops : Start(p, op)) /\ ~StartLogin(p)
    BY <1>2, StartDoes, StartLoginDoes DEF Begins
  <2>2. ~ReadFirst(p) /\ ~EndSession(p)
    BY <1>2, ReadFirstDoes, EndSessionDoes DEF GoesTo
  <2>3. ~Enter(p)
    BY <1>2, EnterDoes DEF GoesTo, EndsAs
  <2>4. ~Renew(p)
    BY <1>2, RenewDoes DEF GoesTo, EndsAs
  <2>5. ~Compare(p) /\ ~Write(p)
    BY <1>2, CompareDoes, WriteDoes DEF GoesTo, EndsAs
  <2>6. ~Use(p) /\ ~Over(p)
    BY <1>2, UseDoes, OverDoes DEF Begins
  <2>7. ~LockMoves(p) /\ ~Die(p)
    BY <1>2, LockMovesDo
  <2>8. QED BY <1>1, <2>1, <2>2, <2>3, <2>4, <2>5, <2>6, <2>7 DEF CallMoves
<1>4. At(p, "refused") /\ (call[p].again \/ file \ {call[p].saved} = {})
  BY <1>2, <1>3, RefusedDoes DEF EndsAs, GoesTo
<1>5. CASE harm = {}
  BY <1>2, <1>4, <1>5 DEF CurrentInv, At
<1>6. CASE harm # {} /\ file \ {call[p].saved} = {}
  <2>1. call[p].saved \in Pairs /\ call[p].saved[2] < srv[call[p].saved[1]]
    BY <1>4 DEF At, ServerInv, CallInv, Renewing
  <2>2. call[p].saved[2] \in Nat /\ srv[call[p].saved[1]] \in Nat
    BY <2>1, PairParts DEF SessionTypeOK, Ended
  <2>3. ~Newest(call[p].saved)
    BY <2>1, <2>2 DEF Newest
  <2>4. QED BY <1>2, <1>6, <2>3
<1>7. QED BY <1>2, <1>4, <1>5, <1>6

\* What is saved is only ever followed by a renewal of the same session, by a
\* login, or by nothing (compareAndSave, credentials.ts).
LEMMA SavedForward ==
  ASSUME SessionInv, [Next]_vars, harm \subseteq {"lost"}, NEW s \in file' \ file
  PROVE  \/ s[2] = 1
         \/ \E t \in file : t[1] = s[1] /\ t[2] < s[2]
<1> USE DEF SessionInv
<1>1. PICK p \in Procs : Write(p)
  BY DEF Next, CallMoves, Expire, Start, StartLogin, ReadFirst, Enter, Renew, Refused, Compare, Use,
     EndSession, Over, LockMoves, Die, vars, sessionVars
<1>2. s = call[p].got /\ Alive(p) /\ call[p].at = "write"
  BY <1>1, WriteDoes DEF At
<1>3. CASE call[p].op = "login"
  BY <1>2, <1>3 DEF ServerInv, LoginInv, LoggingIn
<1>4. CASE call[p].op # "login"
  <2>1. Rotated(p) /\ Renewing(p)
    BY <1>2, <1>4 DEF Rotated, Renewing, Saves
  <2>2. file = {call[p].saved} /\ call[p].saved \in Pairs
    BY <1>2, <2>1 DEF TurnInv, ServerInv, CallInv
  <2>3. s = <<call[p].saved[1], call[p].saved[2] + 1>>
    BY <1>2, <2>1 DEF ServerInv, CallInv
  <2>4. s[1] = call[p].saved[1] /\ s[2] = call[p].saved[2] + 1
    BY <2>3
  <2>5. call[p].saved[2] < s[2]
    BY <2>2, <2>4, PairParts
  <2>6. QED BY <2>2, <2>4, <2>5
<1>5. QED BY <1>3, <1>4

\* The two: nobody is told falsely that the session ended, and no process
\* brings a session back that another saved over or signed out of.
THEOREM SessionKeptAlways == Spec => SessionKept
<1>1. SessionInv /\ [Next]_vars =>
        [ \A p \in Procs :
            call'[p].result = "revoked" /\ call[p].result # "revoked" =>
              \/ srv[call[p].saved[1]] = Ended
              \/ "lost" \in harm
              \/ harm # {} /\ (call[p].again \/ \A s \in file : ~Newest(s)) ]_vars
  BY EndedTruly
<1>2. SessionInv /\ [Next]_vars =>
        [ harm \subseteq {"lost"} =>
            \A s \in file' \ file :
              \/ s[2] = 1
              \/ \E t \in file : t[1] = s[1] /\ t[2] < s[2] ]_vars
  BY SavedForward
<1>3. QED BY <1>1, <1>2, SessionInvariant, PTL DEF Spec, SessionKept, NoFalseEnd, SavedOnlyForward

-----------------------------------------------------------------------------
\* Types of the lock and of the session on its promise: a behaviour of the two is
\* one of each, of which one rests.
THEOREM CloudTypes == CloudSpec => []CloudTypeOK
<1>1. CloudInit => LockInit /\ Init
  BY DEF CloudInit
<1>2. [CloudNext]_<<part, lockVars, vars>> => [LockNext]_lockVars
  BY DEF CloudNext
<1>3. [CloudNext]_<<part, lockVars, vars>> => [Next]_vars
  BY DEF CloudNext
<1>4. LockTypeOK /\ TurnsTypeOK /\ SessionTypeOK => CloudTypeOK
  BY DEF CloudTypeOK
<1>5. QED
  BY <1>1, <1>2, <1>3, <1>4, LockTypes, SessionTypes, PTL DEF CloudSpec, LockSpec, Spec

=============================================================================
