------------------------------ MODULE Sharing -------------------------------
(***************************************************************************)
(* What leaves the machine for ocra Cloud: login and logout                *)
(* (cli/src/commands/login.ts), a signed-in review (cloud/review.ts,       *)
(* upload.ts, memory.ts), and the three files they share: the session, the *)
(* account's salt (account-salt.ts) and this machine's consent to send     *)
(* findings (sharing-consent.ts).  Each call of the file system or of the  *)
(* server is a step; processes interleave and die between them.            *)
(***************************************************************************)
EXTENDS Processes

CONSTANTS
  Accounts,    \* ocra Cloud accounts a person of this machine signs in to
  MaxJobs,     \* bound: commands begun
  MaxSwitches  \* bound: how often an account's sharing is switched

VARIABLES
  session,   \* whose session is saved: an account, or nobody
  salt,      \* whose salt is kept
  consent,   \* the record share-findings is there
  shares,    \* external: accounts whose switch is on
  job,       \* what each process does
  agreed,    \* history: accounts a login agreed to share with
  begun,     \* counts the commands
  switched   \* counts the switches

vars == <<session, salt, consent, shares, job, agreed, begun, switched>>

-----------------------------------------------------------------------------
Nobody == "nobody"
Somebody == Accounts \cup {Nobody}
Steps == {"idle", "dead", "signed-in", "asked", "salted", "sharing", "signed-out",
          "unsalted", "ask", "keep", "prepared", "reviewed", "sent"}

\* answer: the account whose salt the server answered, nobody for null.  hash:
\* whose salt the repository is hashed with, nobody's being this machine's.
\* memory: whose remembered findings are applied.  to: the account the
\* findings were sent to.
Jobs == [at : Steps, answer : Somebody, share : BOOLEAN, hash : Somebody,
         memory : Somebody, to : Somebody]
NoJob == [at |-> "idle", answer |-> Nobody, share |-> FALSE, hash |-> Nobody,
          memory |-> Nobody, to |-> Nobody]

Init ==
  /\ session = Nobody /\ salt = Nobody /\ consent = FALSE
  /\ shares \in SUBSET Accounts
  /\ job = [p \in Procs |-> NoJob]
  /\ agreed = {} /\ begun = 0 /\ switched = 0

Goes(p, from, new) == job[p].at = from /\ job' = [job EXCEPT ![p] = new]
At(p, step) == [job[p] EXCEPT !.at = step]
Begins(p, step) ==
  /\ begun < MaxJobs /\ begun' = begun + 1
  /\ Goes(p, "idle", [NoJob EXCEPT !.at = step])

\* accountSalt: asked with the session that is saved, whoever's it is by now;
\* the server answers null for an account that does not share.
SaltOf(a) == IF a \in shares THEN a ELSE Nobody

-----------------------------------------------------------------------------
\* login: the person approved it for one account, and its session is saved.
SignIn(p) ==
  /\ Begins(p, "signed-in")
  /\ \E a \in Accounts : session' = a
  /\ UNCHANGED <<salt, consent, shares, agreed, switched>>

\* keepSharing: the account's salt, or no answer that can be used.
AskSharing(p) ==
  /\ \/ session # Nobody
        /\ Goes(p, "signed-in", [At(p, "asked") EXCEPT !.answer = SaltOf(session)])
     \/ Goes(p, "signed-in", At(p, "sharing"))
  /\ UNCHANGED <<session, salt, consent, shares, agreed, begun, switched>>

\* saveAccountSalt, which may fail.
KeepSalt(p) ==
  /\ \/ Goes(p, "asked", At(p, "salted")) /\ salt' = job[p].answer
     \/ Goes(p, "asked", At(p, "sharing")) /\ UNCHANGED salt
  /\ UNCHANGED <<session, consent, shares, agreed, begun, switched>>

\* saveSharingConsent, with the user at the terminal.
Consent(p) ==
  /\ \/ /\ Goes(p, "salted", NoJob)
        /\ consent' = (job[p].answer # Nobody)
        /\ agreed' = agreed \cup ({job[p].answer} \ {Nobody})
     \/ Goes(p, "salted", At(p, "sharing")) /\ UNCHANGED <<consent, agreed>>
  /\ UNCHANGED <<session, salt, shares, begun, switched>>

\* It fails closed: the record of an earlier login goes, if it can.
FailClosed(p) ==
  /\ Goes(p, "sharing", NoJob)
  /\ consent' \in {FALSE, consent}
  /\ UNCHANGED <<session, salt, shares, agreed, begun, switched>>

\* logout: the session, the salt and the record, one after the other.
SignOut(p) ==
  /\ Begins(p, "signed-out")
  /\ session' = Nobody
  /\ UNCHANGED <<salt, consent, shares, agreed, switched>>

DropSalt(p) ==
  /\ \/ Goes(p, "signed-out", At(p, "unsalted")) /\ salt' = Nobody
     \/ Goes(p, "signed-out", NoJob) /\ UNCHANGED salt      \* it fails, and so does logout
  /\ UNCHANGED <<session, consent, shares, agreed, begun, switched>>

DropConsent(p) ==
  /\ Goes(p, "unsalted", NoJob)
  /\ consent' \in {FALSE, consent}     \* the record goes, if it can
  /\ UNCHANGED <<session, salt, shares, agreed, begun, switched>>

-----------------------------------------------------------------------------
\* prepareCloudReview, of a review that is signed in (cloudEnabled).
Prepare(p) ==
  /\ session # Nobody
  /\ Begins(p, "ask")
  /\ UNCHANGED <<session, salt, consent, shares, agreed, switched>>

\* The answer; signed out by now; or none, and the salt that is kept is used,
\* no findings are sent and no memory is applied.
AskSalt(p) ==
  /\ \/ /\ session # Nobody
        /\ Goes(p, "ask", [At(p, "keep") EXCEPT !.answer = SaltOf(session), !.hash = SaltOf(session)])
     \/ session = Nobody /\ Goes(p, "ask", NoJob)
     \/ Goes(p, "ask", [At(p, "reviewed") EXCEPT !.hash = salt])
     \/ Goes(p, "ask", NoJob)    \* MachineSecretError
  /\ UNCHANGED <<session, salt, consent, shares, agreed, begun, switched>>

\* keepAccountSalt: a failure is a warning.
KeepAnswer(p) ==
  /\ Goes(p, "keep", At(p, "prepared"))
  /\ salt' \in {job[p].answer, salt}
  /\ UNCHANGED <<session, consent, shares, agreed, begun, switched>>

\* Sharing is off: the record goes, if it can (forgetSharingConsent).
Forget(p) ==
  /\ job[p].answer = Nobody
  /\ Goes(p, "prepared", At(p, "reviewed"))
  /\ consent' \in {FALSE, consent}
  /\ UNCHANGED <<session, salt, shares, agreed, begun, switched>>

\* It is on: findings go if the record agrees, and the memory is asked for.
Agree(p) ==
  /\ job[p].answer # Nobody
  /\ \E m \in {session, Nobody} :
       Goes(p, "prepared", [At(p, "reviewed") EXCEPT !.share = consent, !.memory = m])
  /\ UNCHANGED <<session, salt, consent, shares, agreed, begun, switched>>

\* sendToCloud, when the review is done: to whoever is signed in by then.
Send(p) ==
  /\ \/ /\ session # Nobody
        /\ Goes(p, "reviewed", [At(p, "sent") EXCEPT !.to = IF job[p].share THEN session ELSE Nobody])
     \/ Goes(p, "reviewed", NoJob)
  /\ UNCHANGED <<session, salt, consent, shares, agreed, begun, switched>>

Over(p) ==
  /\ Goes(p, "sent", NoJob)
  /\ UNCHANGED <<session, salt, consent, shares, agreed, begun, switched>>

-----------------------------------------------------------------------------
\* External: an account's switch, in the web.
Switch ==
  /\ switched < MaxSwitches /\ switched' = switched + 1
  /\ \E a \in Accounts : shares' = IF a \in shares THEN shares \ {a} ELSE shares \cup {a}
  /\ UNCHANGED <<session, salt, consent, job, agreed, begun>>

Crash(p) ==
  /\ job[p].at \notin {"idle", "dead"}
  /\ Cardinality({q \in Procs : job[q].at = "dead"}) < MaxCrashes
  /\ job' = [job EXCEPT ![p] = [NoJob EXCEPT !.at = "dead"]]
  /\ UNCHANGED <<session, salt, consent, shares, agreed, begun, switched>>

Next ==
  \/ Switch
  \/ \E p \in Procs :
       \/ SignIn(p) \/ AskSharing(p) \/ KeepSalt(p) \/ Consent(p) \/ FailClosed(p)
       \/ SignOut(p) \/ DropSalt(p) \/ DropConsent(p)
       \/ Prepare(p) \/ AskSalt(p) \/ KeepAnswer(p) \/ Forget(p) \/ Agree(p)
       \/ Send(p) \/ Over(p) \/ Crash(p)

Spec == Init /\ [][Next]_vars

-----------------------------------------------------------------------------
\* Findings go only to an account that a login on this machine, with the user
\* at the terminal, agreed to share with (the head of sharing-consent.ts).
SentAsAgreed == \A p \in Procs : job[p].to \in agreed \cup {Nobody}
=============================================================================
