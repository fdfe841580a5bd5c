---------------------------- MODULE CloudSession ----------------------------
(***************************************************************************)
(* The ocra Cloud session of one machine (cli/src/cloud/client.ts,         *)
(* credentials.ts, and login and logout of commands/login.ts): a file with *)
(* a pair of tokens, shared by every ocra process, and renewed by each of  *)
(* them.  The server rotates the pair by compare and set, so of two        *)
(* renewals of one pair the second is refused, and a file that keeps a     *)
(* superseded pair has lost the session.  The lock (Turns) keeps renewals   *)
(* apart, and may fail to.                                                 *)
(*                                                                         *)
(* A pair is <<chain, n>>: the login it descends from and how often it was *)
(* renewed.  External: the server, as client.ts and its tests use it.      *)
(***************************************************************************)
EXTENDS Turns, Functions

CONSTANTS
  MaxChains,   \* bound: logins, the saved one included
  MaxPairs,    \* bound: pairs of a chain
  MaxCallers,  \* bound: processes that call
  MaxCalls     \* bound: calls of them all

ASSUME SessionAssumption ==
  /\ MaxChains \in Nat \ {0}
  /\ MaxPairs \in Nat \ {0}
  /\ MaxCallers \in Nat
  /\ MaxCalls \in Nat

VARIABLES
  file,    \* the saved pairs: {} or one
  srv,     \* the server: the newest pair of each chain, 0 before its login
  due,     \* pairs whose access token has expired, or is about to
  call,    \* what each process does
  begun    \* counts the calls of each

sessionVars == <<file, srv, due, call, begun>>
vars == <<turnVars, sessionVars>>

-----------------------------------------------------------------------------
Chains == 1..MaxChains
Pairs == Chains \X (1..MaxPairs)
NoPair == <<0, 0>>
Ended == MaxPairs + 1    \* a chain that was logged out

\* at: the step the call takes next.  saved: the pair it read before the lock
\* (Start) and then the one it renews.  got: the pair it was given.  again:
\* the pair on its second renewal.  refused: the pair a call got 401 for.
Ops == {"session", "login", "logout"}
CallSteps == {"idle", "first", "enter", "asked", "refused", "compare", "write",
          "done"}
Results == {"none", "ok", "signed-out", "revoked", "unreachable", "failed"}
Calls == [at : CallSteps, op : Ops, saved : Pairs \cup {NoPair}, got : Pairs \cup {NoPair},
          again : BOOLEAN, refused : Pairs \cup {NoPair}, result : Results,
          ending : BOOLEAN]

Idle == [at |-> "idle", op |-> "session", saved |-> NoPair, got |-> NoPair,
         again |-> FALSE, refused |-> NoPair, result |-> "none", ending |-> FALSE]

SessionTypeOK ==
  /\ file \subseteq Pairs /\ \A s, t \in file : s = t
  /\ srv \in [Chains -> 0..Ended]
  /\ due \subseteq Pairs
  /\ call \in [Procs -> Calls]
  /\ begun \in [Procs -> 0..MaxCalls]

Init ==
  /\ TurnsInit
  /\ file = {<<1, 1>>}
  /\ srv = [c \in Chains |-> IF c = 1 THEN 1 ELSE 0]
  /\ due \in {{}, {<<1, 1>>}}
  /\ call = [p \in Procs |-> Idle]
  /\ begun = [p \in Procs |-> 0]

Alive(p) == place[p] # "dead"
At(p, step) == Alive(p) /\ call[p].at = step
Set(p, c) == call' = [call EXCEPT ![p] = c]
Ends(p, result, pair) ==
  /\ Set(p, [call[p] EXCEPT !.at = "done", !.result = result, !.got = pair,
                            !.saved = NoPair, !.again = FALSE])
  /\ LeavesTurn(p)
Steps(p, c) == Set(p, c) /\ UNCHANGED place

\* Another call of a process.
Calling(p) ==
  /\ At(p, "idle")
  /\ SumFunction(begun) < MaxCalls
  /\ Cardinality({p} \cup {q \in Procs : begun[q] > 0}) <= MaxCallers
  /\ begun' = [begun EXCEPT ![p] = @ + 1]

\* live: the access token lasts, and is not the one a call was refused.
Live(p, pair) == pair \notin due /\ pair # call[p].refused

\* The server refuses a refresh token that is not the newest of its chain,
\* and an access token that is not, or that has expired.
Newest(pair) == srv[pair[1]] = pair[2]

-----------------------------------------------------------------------------
\* session, and the logout that begins with one.
Start(p, op) ==
  /\ Calling(p)
  /\ op \in {"session", "logout"}
  /\ Set(p, [Idle EXCEPT !.at = "first", !.op = op])
  /\ UNCHANGED <<turnVars, file, srv, due>>

\* login: the person approved it, the server begins a chain, and saveSession
\* takes the lock.
StartLogin(p) ==
  /\ Calling(p)
  /\ \E c \in Chains :
       /\ srv[c] = 0 /\ \A d \in 1..(c - 1) : srv[d] # 0
       /\ srv' = [srv EXCEPT ![c] = 1]
       /\ Set(p, [Idle EXCEPT !.at = "write", !.op = "login", !.got = <<c, 1>>])
  /\ AsksTurn(p)
  /\ UNCHANGED <<file, due>>

\* The first read, without the lock.
ReadFirst(p) ==
  /\ At(p, "first")
  /\ UNCHANGED <<file, srv, due, begun>>
  /\ \/ /\ file = {}
        /\ Set(p, [call[p] EXCEPT !.at = "done", !.result = "signed-out"])
        /\ UNCHANGED turnVars
     \/ \E s \in file :
          \/ /\ Live(p, s)
             /\ Set(p, [call[p] EXCEPT !.at = "done", !.result = "ok", !.got = s])
             /\ UNCHANGED turnVars
          \/ /\ ~Live(p, s)
             /\ Set(p, [call[p] EXCEPT !.at = "enter", !.saved = s])
             /\ AsksTurn(p)

\* Inside the lock, or on without it.  A pair another process renewed while
\* this one waited is taken though it is about to expire, unless a call was
\* refused it; one that has expired by now (both are due) is renewed.
Enter(p) ==
  /\ At(p, "enter") /\ place[p] \in {"with", "without"}
  /\ UNCHANGED <<harm, srv, due, begun>>
  /\ \/ /\ call[p].ending
        /\ file' = {}
        /\ Ends(p, "signed-out", NoPair)
     \/ /\ ~call[p].ending
        /\ UNCHANGED file
        /\ \/ file = {} /\ Ends(p, "signed-out", NoPair)
           \/ \E s \in file :
                \/ /\ Live(p, s) \/ s \notin {call[p].saved, call[p].refused}
                   /\ Ends(p, "ok", s)
                \/ /\ ~Live(p, s)
                   /\ Steps(p, [call[p] EXCEPT !.at = "asked", !.saved = s])

\* refresh, at the server: a new pair, a refusal, or no answer that can be
\* used, after the server rotated or before.
Renew(p) ==
  /\ At(p, "asked")
  /\ LET pair == call[p].saved
         next == <<pair[1], pair[2] + 1>>
     IN \/ /\ Newest(pair) /\ pair[2] < MaxPairs
           /\ srv' = [srv EXCEPT ![pair[1]] = pair[2] + 1]
           /\ \/ /\ Steps(p, [call[p] EXCEPT !.at = "compare", !.got = next])
                 /\ UNCHANGED harm
              \/ /\ Ends(p, "unreachable", NoPair)
                 /\ Suffers("lost")
        \/ /\ ~Newest(pair)
           /\ Steps(p, [call[p] EXCEPT !.at = "refused"])
           /\ UNCHANGED <<srv, harm>>
        \/ /\ Ends(p, "unreachable", NoPair)
           /\ UNCHANGED <<srv, harm>>
  /\ UNCHANGED <<file, due, begun>>

\* Mutant: the file is not read again.
RefusedAtOnce(p) ==
  /\ At(p, "refused")
  /\ Ends(p, "revoked", NoPair)
  /\ UNCHANGED <<harm, file, srv, due, begun>>

\* The refresh token was refused: the pair another process saved, if any.
Refused(p) ==
  /\ At(p, "refused")
  /\ LET others == file \ {call[p].saved}
     IN \/ (call[p].again \/ others = {}) /\ Ends(p, "revoked", NoPair)
        \/ /\ ~call[p].again
           /\ \E s \in others :
                \/ Live(p, s) /\ Ends(p, "ok", s)
                \/ ~Live(p, s) /\ Steps(p, [call[p] EXCEPT !.at = "asked", !.saved = s, !.again = TRUE])
  /\ UNCHANGED <<harm, file, srv, due, begun>>

\* Mutant: a pair renewed after a second read is not saved.
CompareFirstOnly(p) ==
  /\ At(p, "compare")
  /\ \/ /\ file = {call[p].saved} /\ call[p].refused = NoPair
        /\ Steps(p, [call[p] EXCEPT !.at = "write"])
     \/ /\ file # {call[p].saved} \/ call[p].refused # NoPair
        /\ Ends(p, "ok", call[p].got)
  /\ UNCHANGED <<harm, file, srv, due, begun>>

\* Saved only over the pair it replaces, compared and then written.
Compare(p) ==
  /\ At(p, "compare")
  /\ \/ file = {call[p].saved} /\ Steps(p, [call[p] EXCEPT !.at = "write"])
     \/ file # {call[p].saved} /\ Ends(p, "ok", call[p].got)
  /\ UNCHANGED <<harm, file, srv, due, begun>>

\* writePrivateFile: one rename.  When it fails the call throws.
Write(p) ==
  /\ At(p, "write") /\ place[p] \in {"with", "without"}
  /\ \/ /\ file' = {call[p].got}
        /\ Ends(p, "ok", call[p].got)
        /\ UNCHANGED harm
     \/ /\ Ends(p, "failed", NoPair)
        /\ IF call[p].op = "login" THEN UNCHANGED harm ELSE Suffers("lost")
        /\ UNCHANGED file
  /\ UNCHANGED <<srv, due, begun>>

-----------------------------------------------------------------------------
\* The lock goes before the call returns.
Done(p) == At(p, "done") /\ place[p] = "out"

\* authorized: the token is used; a 401 renews the session, once.
Use(p) ==
  /\ Done(p) /\ call[p].op = "session"
  /\ \/ /\ call[p].result = "ok" /\ call[p].refused = NoPair
        /\ ~Newest(call[p].got) \/ call[p].got \in due
        /\ Set(p, [Idle EXCEPT !.at = "first", !.refused = call[p].got])
     \/ Set(p, Idle)
  /\ UNCHANGED <<turnVars, file, srv, due, begun>>

\* Mutant: the session is removed, whoever has the lock.
EndSessionAtOnce(p) ==
  /\ Done(p) /\ call[p].op = "logout" /\ ~call[p].ending
  /\ \/ /\ call[p].result = "ok" /\ Newest(call[p].got)
        /\ srv' = [srv EXCEPT ![call[p].got[1]] = Ended]
     \/ UNCHANGED srv
  /\ file' = {}
  /\ Set(p, Idle)
  /\ UNCHANGED <<turnVars, due, begun>>

\* logout: the server is told, if there is a session to tell it with, and the
\* file goes either way.
EndSession(p) ==
  /\ Done(p) /\ call[p].op = "logout" /\ ~call[p].ending
  /\ \/ /\ call[p].result = "ok" /\ Newest(call[p].got)
        /\ srv' = [srv EXCEPT ![call[p].got[1]] = Ended]
     \/ UNCHANGED srv
  /\ Set(p, [call[p] EXCEPT !.at = "enter", !.ending = TRUE])
  /\ AsksTurn(p)
  /\ UNCHANGED <<file, due, begun>>

Over(p) ==
  /\ Done(p) /\ (call[p].op = "login" \/ call[p].ending)
  /\ Set(p, Idle)
  /\ UNCHANGED <<turnVars, file, srv, due, begun>>

\* The access token of a saved pair runs out.
Expire ==
  /\ \E s \in file \ due : due' = due \cup {s}
  /\ UNCHANGED <<turnVars, file, srv, call, begun>>

\* A process dies; with it a pair that was not saved yet.
Die(p) ==
  /\ call[p].at # "idle"
  /\ place[p] # "dead" /\ Cardinality(Dead) < MaxCrashes
  /\ place' = [place EXCEPT ![p] = "dead"]
  /\ IF call[p].at \in {"compare", "write"} /\ call[p].op # "login" THEN Suffers("lost") ELSE UNCHANGED harm
  /\ UNCHANGED sessionVars

\* The lock, as it promises to behave.
LockMoves(p) == (TakesTurn(p) \/ GoesWithout(p) \/ Left(p) \/ Judges(p)) /\ UNCHANGED sessionVars

CallMoves(p) ==
  \/ ReadFirst(p) \/ Enter(p) \/ Renew(p) \/ Refused(p) \/ Compare(p) \/ Write(p)
  \/ Use(p) \/ EndSession(p) \/ Over(p) \/ LockMoves(p)

Next ==
  \/ Expire
  \/ \E p \in Procs :
       \/ \E op \in Ops : Start(p, op)
       \/ StartLogin(p) \/ CallMoves(p) \/ Die(p)

Spec == Init /\ [][Next]_vars

-----------------------------------------------------------------------------
\* A call is told that the session ended only if the server ended it.  Lost
\* pairs apart, a process that did not take its turn can be told so falsely,
\* but not while the file holds the pair the server would renew, unless that
\* pair too was renewed under its eyes (session's re-reads, refresh).
NoFalseEnd ==
  [][ \A p \in Procs :
        call'[p].result = "revoked" /\ call[p].result # "revoked" =>
          \/ srv[call[p].saved[1]] = Ended
          \/ "lost" \in harm
          \/ harm # {} /\ (call[p].again \/ \A s \in file : ~Newest(s)) ]_vars

\* What is saved is only ever followed by a renewal of the same session, by a
\* login, or by nothing: no process brings back a session that another saved
\* over or signed out of, as long as every process waited its turn.
SavedOnlyForward ==
  [][ harm \subseteq {"lost"} =>
        \A s \in file' \ file :
          \/ s[2] = 1
          \/ \E t \in file : t[1] = s[1] /\ t[2] < s[2] ]_vars

\* What a session is worth: the two above.
SessionKept == NoFalseEnd /\ SavedOnlyForward

\* Between two calls the saved pair is the one the server would renew, or its
\* session has ended there.
SavedIsCurrent ==
  harm = {} /\ (\A p \in Procs : Alive(p) => call[p].at \in {"idle", "first", "done"})
    => \A s \in file : srv[s[1]] \in {s[2], Ended}
=============================================================================
