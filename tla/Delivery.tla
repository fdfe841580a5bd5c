------------------------------- MODULE Delivery -------------------------------
(***************************************************************************)
(* How a review gets onto the platform (vcs-platform/review.ts publish,    *)
(* vcs-github/adapter.ts, vcs-gitlab/adapter.ts): new findings as inline   *)
(* comments, GitHub's request for changes, the one summary comment, and    *)
(* the withdrawal of an earlier request.  Every request may be refused,    *)
(* rate limited, or cut off before or after the platform acted on it       *)
(* (vcs-platform/http.ts, retry.ts); a run may die between any two, and    *)
(* people delete comments, dismiss requests and edit the summary.          *)
(*                                                                         *)
(* Runs follow each other, as the documented concurrency group has them;   *)
(* what a dead run sent has arrived by the time the next one reads.        *)
(***************************************************************************)
EXTENDS Naturals, FiniteSets

CONSTANTS
  Publishable,   \* fingerprints a run may report
  InDiff,        \* those of them whose lines are in the diff
  MaxAttempts,   \* MAX_ATTEMPTS
  MaxDeliveries, MaxMeddling   \* bounds: runs, and what people do

ASSUME DeliveryAssumption ==
  InDiff \subseteq Publishable /\ MaxAttempts \in Nat \ {0} /\ {MaxDeliveries, MaxMeddling} \subseteq Nat

VARIABLES
  comments,   \* ocra's inline comments: how many, by finding
  deleted,    \* history: findings with a comment people deleted
  requests,   \* ocra's active requests for changes: the runs that made them
  posting,    \* the summary comment
  delivery,   \* the run
  deliveries, meddling

deliveryVars == <<comments, deleted, requests, posting, delivery, deliveries, meddling>>

-----------------------------------------------------------------------------
NoPosting == [exists |-> FALSE, trusted |-> FALSE, shown |-> {}, commented |-> {}, blocks |-> FALSE]
NoDelivery ==
  [at |-> "idle", gitlab |-> FALSE, asks |-> FALSE, listed |-> FALSE, own |-> {},
   before |-> NoPosting, found |-> {}, blocks |-> FALSE, fresh |-> {}, posted |-> {},
   request |-> FALSE, active |-> {}, attempt |-> 1, warned |-> FALSE]

Postings == [exists : BOOLEAN, trusted : BOOLEAN, shown : SUBSET Publishable,
             commented : SUBSET Publishable, blocks : BOOLEAN]

DeliverySteps == {"idle", "read", "list", "diff", "post", "bare", "summary", "withdraw", "ended"}
DeliveryRuns ==
  [at : DeliverySteps, gitlab : BOOLEAN, asks : BOOLEAN, listed : BOOLEAN,
   own : SUBSET Publishable, before : Postings, found : SUBSET Publishable,
   blocks : BOOLEAN, fresh : SUBSET InDiff, posted : SUBSET Publishable,
   request : BOOLEAN, active : SUBSET (1..MaxDeliveries), attempt : 1..MaxAttempts,
   warned : BOOLEAN]

\* Types; no request is sent more than MaxAttempts times, and only what is in
\* the diff is commented on.
DeliveryTypeOK ==
  /\ comments \in [Publishable -> Nat]
  /\ deleted \subseteq Publishable
  /\ requests \subseteq 1..MaxDeliveries
  /\ posting \in Postings
  /\ delivery \in DeliveryRuns
  /\ deliveries \in 0..MaxDeliveries /\ meddling \in 0..MaxMeddling

DeliveryInit ==
  /\ comments = [f \in Publishable |-> 0] /\ deleted = {}
  /\ requests = {} /\ posting = NoPosting
  /\ delivery = NoDelivery
  /\ deliveries = 0 /\ meddling = 0

-----------------------------------------------------------------------------
(* sendWithRetry *)

\* limited: a rate limit, refused without acting.  cut: a lost connection, a
\* timeout or a 5xx; "cut_after" when the platform had acted.  garbled: it
\* acted, and its answer cannot be read.
DeliveryAnswers == {"ok", "refused", "limited", "cut", "cut_after", "garbled"}
Acted(answer) == answer \in {"ok", "cut_after", "garbled"}

\* Mutant: a POST that was cut off is sent again.
SentAgainAlways(idempotent, answer, attempt) ==
  attempt < MaxAttempts /\ answer \in {"limited", "cut", "cut_after"}

\* retryDecision: what may have been acted on is repeated only when that is safe.
SentAgain(idempotent, answer, attempt) ==
  /\ attempt < MaxAttempts
  /\ answer = "limited" \/ (idempotent /\ answer \in {"cut", "cut_after"})

Goes(to) == [delivery EXCEPT !.at = to, !.attempt = 1]
Repeats == delivery' = [delivery EXCEPT !.attempt = @ + 1]
Fails == delivery' = NoDelivery   \* publish throws: the run is over

-----------------------------------------------------------------------------
(* What a run reads, and what it reviewed *)

\* Threads and the summary are read once, when the run starts.  The state of
\* a summary that others edited, or may have, does not count; the comment is
\* still ocra's.
StartDelivery ==
  /\ delivery.at \in {"idle", "ended"} /\ deliveries < MaxDeliveries
  /\ deliveries' = deliveries + 1
  /\ \E gitlab, asks, listed, checked \in BOOLEAN :
       delivery' = [NoDelivery EXCEPT
         !.at = "read", !.gitlab = gitlab, !.asks = asks /\ ~gitlab,
         !.listed = listed,
         !.own = IF listed THEN {f \in Publishable : comments[f] > 0} ELSE {},
         !.before = IF posting.trusted /\ checked THEN posting ELSE [NoPosting EXCEPT !.exists = posting.exists]]
  /\ UNCHANGED <<comments, deleted, requests, posting, meddling>>

\* Mutant: the summary's state alone says what was commented.
CommentedByState(d) == d.before.commented

AlreadyThere(d) == d.before.commented \cup d.own

\* The report, and which of its findings are new to the platform.
Reviewed ==
  /\ delivery.at = "read"
  /\ \E found \in SUBSET Publishable, blocks \in BOOLEAN :
       delivery' = [delivery EXCEPT
         !.at = IF delivery.asks THEN "list" ELSE "diff", !.found = found, !.blocks = blocks,
         !.fresh = (found \cap InDiff) \ AlreadyThere(delivery)]
  /\ UNCHANGED <<comments, deleted, requests, posting, deliveries, meddling>>

-----------------------------------------------------------------------------
(* GitHub: syncChangeRequest, postReview *)

\* Its own active requests; when they cannot be listed, it may ask again.
ListReviews ==
  /\ delivery.at = "list"
  /\ \/ delivery' = [delivery EXCEPT
          !.at = "diff", !.active = requests, !.request = delivery.blocks /\ requests = {}]
     \/ delivery' = [delivery EXCEPT !.at = "diff", !.request = delivery.blocks, !.warned = TRUE]
  /\ UNCHANGED <<comments, deleted, requests, posting, deliveries, meddling>>

\* filesWithDiff, or the lines GitLab has a position for: the other findings
\* stay in the summary.
KeepPlaceable ==
  /\ delivery.at = "diff"
  /\ \E shown \in SUBSET delivery.fresh :
       delivery' = [delivery EXCEPT
         !.at = IF shown = {} /\ ~delivery.request THEN "summary" ELSE "post", !.fresh = shown]
  /\ UNCHANGED <<comments, deleted, requests, posting, deliveries, meddling>>

CommentOn(fs) == comments' = [f \in Publishable |-> comments[f] + (IF f \in fs THEN 1 ELSE 0)]
Requested == requests' = IF delivery.request THEN requests \cup {deliveries} ELSE requests

\* Mutant: comments GitHub rejected count as posted.
PostReviewAsPosted ==
  /\ delivery.at = "post" /\ ~delivery.gitlab
  /\ \E answer \in DeliveryAnswers :
       /\ IF Acted(answer) THEN CommentOn(delivery.fresh) /\ Requested ELSE UNCHANGED <<comments, requests>>
       /\ IF answer \in {"ok", "refused"} THEN delivery' = [Goes("summary") EXCEPT !.posted = delivery.fresh]
          ELSE IF SentAgain(FALSE, answer, delivery.attempt) THEN Repeats ELSE Fails
  /\ UNCHANGED <<deleted, posting, deliveries, meddling>>

\* All comments in one review, or none of them: refused for a position (422),
\* they stay in the summary, and for anything else the run fails.
PostReview ==
  /\ delivery.at = "post" /\ ~delivery.gitlab
  /\ \E answer \in DeliveryAnswers :
       /\ IF Acted(answer) THEN CommentOn(delivery.fresh) /\ Requested ELSE UNCHANGED <<comments, requests>>
       /\ CASE answer = "ok" -> delivery' = [Goes("summary") EXCEPT !.posted = delivery.fresh]
            [] answer = "refused" -> Fails \/ delivery' = Goes(IF delivery.request THEN "bare" ELSE "summary")
            [] SentAgain(FALSE, answer, delivery.attempt) -> Repeats
            [] OTHER -> Fails
  /\ UNCHANGED <<deleted, posting, deliveries, meddling>>

\* The request for changes without the comments; nobody is told if it fails.
RequestOnly ==
  /\ delivery.at = "bare"
  /\ \E answer \in DeliveryAnswers :
       /\ IF Acted(answer) THEN Requested ELSE UNCHANGED requests
       /\ IF SentAgain(FALSE, answer, delivery.attempt) THEN Repeats ELSE delivery' = Goes("summary")
  /\ UNCHANGED <<comments, deleted, posting, deliveries, meddling>>

-----------------------------------------------------------------------------
(* GitLab: publishFindings, a thread per finding *)

PostThread(f) ==
  /\ delivery.at = "post" /\ delivery.gitlab /\ f \in delivery.fresh
  /\ \E answer \in DeliveryAnswers :
       LET next == [Goes(IF delivery.fresh = {f} THEN "summary" ELSE "post") EXCEPT !.fresh = @ \ {f}] IN
       /\ IF Acted(answer) THEN CommentOn({f}) ELSE UNCHANGED comments
       /\ CASE answer = "ok" -> delivery' = [next EXCEPT !.posted = @ \cup {f}]
            [] answer = "refused" -> \E bad \in BOOLEAN : delivery' = [next EXCEPT !.warned = @ \/ bad]
            [] SentAgain(FALSE, answer, delivery.attempt) -> Repeats
            [] OTHER -> delivery' = [next EXCEPT !.warned = TRUE]
  /\ UNCHANGED <<deleted, requests, posting, deliveries, meddling>>

-----------------------------------------------------------------------------
(* The summary, and what follows it *)

\* outsideDiff: findings without a comment are in the summary itself.  The
\* state keeps which have one, also of findings no longer reported.
SummaryOf(d) ==
  LET known == AlreadyThere(d) \cup d.posted IN
  [exists |-> TRUE, trusted |-> TRUE, shown |-> d.found \ known, commented |-> known, blocks |-> d.blocks]

\* writeSummary: the one there is updated, which is safe to repeat.
WriteSummaryComment ==
  /\ delivery.at = "summary"
  /\ \E answer \in DeliveryAnswers :
       /\ posting' = IF Acted(answer) THEN SummaryOf(delivery) ELSE posting
       /\ CASE answer = "ok" -> delivery' = Goes("withdraw")
            [] SentAgain(delivery.before.exists, answer, delivery.attempt) -> Repeats
            [] OTHER -> Fails
  /\ UNCHANGED <<comments, deleted, requests, deliveries, meddling>>

\* Mutant: earlier requests are withdrawn before the summary is written.
WithdrawFirst(r) ==
  /\ delivery.at \in {"summary", "withdraw"} /\ ~delivery.blocks /\ r \in delivery.active
  /\ requests' = requests \ {r}
  /\ delivery' = [delivery EXCEPT !.active = @ \ {r}]
  /\ UNCHANGED <<comments, deleted, posting, deliveries, meddling>>

\* published.finish: dismissing what was dismissed already is refused, so a
\* withdrawal that was cut off after it was done may end in a warning.
Withdraw(r) ==
  /\ delivery.at = "withdraw" /\ ~delivery.blocks /\ r \in delivery.active
  /\ \E answer \in DeliveryAnswers :
       LET next == [Goes("withdraw") EXCEPT !.active = @ \ {r}] IN
       /\ Acted(answer) => r \in requests
       /\ requests' = IF Acted(answer) THEN requests \ {r} ELSE requests
       /\ CASE answer = "ok" -> delivery' = next
            [] SentAgain(TRUE, answer, delivery.attempt) -> Repeats
            [] OTHER -> delivery' = [next EXCEPT !.warned = TRUE]
  /\ UNCHANGED <<comments, deleted, posting, deliveries, meddling>>

Published ==
  /\ delivery.at = "withdraw" /\ (delivery.blocks \/ delivery.active = {})
  /\ delivery' = Goes("ended")
  /\ UNCHANGED <<comments, deleted, requests, posting, deliveries, meddling>>

Dies ==
  /\ delivery.at \notin {"idle", "ended"}
  /\ delivery' = NoDelivery
  /\ UNCHANGED <<comments, deleted, requests, posting, deliveries, meddling>>

-----------------------------------------------------------------------------
(* What people do *)

Meddle == meddling < MaxMeddling /\ meddling' = meddling + 1 /\ UNCHANGED deliveries

DeleteComment(f) ==
  /\ comments[f] > 0 /\ Meddle
  /\ comments' = [comments EXCEPT ![f] = @ - 1] /\ deleted' = deleted \cup {f}
  /\ UNCHANGED <<requests, posting, delivery>>

LiftRequest(r) ==
  /\ r \in requests /\ Meddle
  /\ requests' = requests \ {r}
  /\ UNCHANGED <<comments, deleted, posting, delivery>>

EditPosting ==
  /\ posting.trusted /\ Meddle
  /\ posting' = [posting EXCEPT !.trusted = FALSE]
  /\ UNCHANGED <<comments, deleted, requests, delivery>>

Sends ==
  \/ StartDelivery \/ Reviewed \/ ListReviews \/ KeepPlaceable
  \/ PostReview \/ RequestOnly \/ \E f \in Publishable : PostThread(f)
  \/ WriteSummaryComment \/ (\E r \in 1..MaxDeliveries : Withdraw(r)) \/ Published
  \/ Dies

DeliveryNext ==
  \/ Sends
  \/ \E f \in Publishable : DeleteComment(f)
  \/ \E r \in 1..MaxDeliveries : LiftRequest(r)
  \/ EditPosting

DeliverySpec == DeliveryInit /\ [][DeliveryNext]_deliveryVars

-----------------------------------------------------------------------------
\* No finding gets a second comment, however often requests are cut off after
\* the platform acted and runs die before they could remember what they
\* posted, unless a run could neither list the threads nor trust the state
\* ("a finding already commented on is not commented again", github.mdx;
\* "POST would post the same comment or review twice", retry.ts:13-16).
CommentedOnceEver ==
  [][\A f \in Publishable :
       comments'[f] > comments[f] /\ comments[f] > 0
         => ~delivery.listed /\ f \notin delivery.before.commented]_deliveryVars

\* Once a run has published, each of its findings can be read: in the summary
\* or in a comment, unless people deleted that (publish, outsideDiff).
EveryFindingShown ==
  delivery.at \in {"withdraw", "ended"} /\ posting.trusted =>
    \A f \in delivery.found : f \in posting.shown \/ comments[f] > 0 \/ f \in deleted

\* ocra's request for changes follows the verdict people can read.  A run that
\* ends without a warning and does not block leaves no request; and none goes
\* while the summary still says the review blocks, whatever dies in between
\* ("withdrawn when a later verdict no longer blocks", github.mdx).
RequestFollowsVerdict ==
  /\ [](delivery.at = "ended" /\ delivery.asks /\ ~delivery.blocks /\ ~delivery.warned => requests = {})
  /\ [][requests' \subseteq requests /\ requests' # requests /\ meddling' = meddling
          => ~posting.blocks]_deliveryVars
=============================================================================
