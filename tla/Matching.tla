------------------------------ MODULE Matching ------------------------------
(***************************************************************************)
(* The matches of one product, and the handlers that write them.           *)
(*                                                                         *)
(* A product document holds an array of matches, each with the scores      *)
(* OpenAI gave it.  Four kinds of caller write the whole array or part of  *)
(* it:                                                                     *)
(*  - checkProductMatches (one per check_match event): reads the product,  *)
(*    waits for OpenAI, and writes the array it read with one score more;  *)
(*    then it requests the reviews of the match if the average is above    *)
(*    the threshold;                                                       *)
(*  - verifyProduct: reads the product, writes the array it read with the  *)
(*    scores of one match replaced by 100, and requests the reviews;       *)
(*  - update: writes the array an edit form loaded some time before, where *)
(*    findOne had put the match documents in place of their ids;           *)
(*  - the scrapper's addMatchesToProduct: pushes on the array in place.    *)
(* The API takes check_match events without a limit and acknowledges them  *)
(* before it handles them.                                                 *)
(*                                                                         *)
(* Every check_match event, verify call and edit is a process of its own.  *)
(* The scores of a match are a function from the processes that gave them  *)
(* to their values: the order of the percentage array matters to nobody.   *)
(***************************************************************************)
EXTENDS Integers, FiniteSets, Functions

CONSTANTS
    Candidates,  \* products the scrapper found for the product
    Checks,      \* check_match events
    Verifies,    \* verify calls
    Edits,       \* edit forms opened on the product
    Responses,   \* what OpenAI may answer to a check, as records
    Threshold,   \* match_threshold
    NaN,         \* what parseInt returns for a text that is no number
    None,        \* no candidate, no probability
    MaxFailures  \* bound on API crashes, and on calls of OpenAI and publications that fail

Procs == Checks \cup Verifies \cup Edits

ASSUME ConstantsAssumption ==
    /\ Checks \cap Verifies = {} /\ Checks \cap Edits = {} /\ Verifies \cap Edits = {}
    /\ None \notin Candidates
    /\ NaN \notin Int /\ None \notin Int /\ NaN # None
    /\ Threshold \in Int
    /\ MaxFailures \in Nat
    /\ \A r \in Responses : r.form \in {"empty", "short", "number", "object", "other"}

VARIABLES
    exists,    \* whether the product document exists
    matches,   \* its matches array, by candidate
    pushed,    \* candidates the scrapper has pushed on it
    pc,        \* where each process is
    about,     \* the candidate a check or verify is about
    snap,      \* the array each process read
    answer,    \* the probability each process recorded
    pending,   \* PENDING GET_REVIEWS requests for each candidate
    made,      \* GET_REVIEWS requests the processes made for each candidate
    lost,      \* history: candidates whose request a failure prevented
    failures

handling == <<pc, about, snap, answer>>
reviews  == <<pending, made>>
vars == <<exists, matches, pushed, pc, about, snap, answer, pending, made, lost, failures>>

Kinds == {"none",  \* not in the array
          "ref",   \* in the array, by its id
          "copy"}  \* in the array, as a document: no id compares equal to it
Pcs == {"new", "queued", "asking", "verifying", "editing", "creating", "inserting", "ended"}
Scores == Int \cup {NaN}

IsEntry(e) ==
    /\ e = [kind |-> e.kind, scores |-> e.scores]
    /\ e.kind \in Kinds
    /\ e.scores = [p \in DOMAIN e.scores |-> e.scores[p]]
    /\ DOMAIN e.scores \subseteq Procs
    /\ \A p \in DOMAIN e.scores : e.scores[p] \in Scores

IsArray(a) ==
    /\ a = [m \in Candidates |-> a[m]]
    /\ \A m \in Candidates : IsEntry(a[m])

TypeOK ==
    /\ exists \in BOOLEAN
    /\ IsArray(matches)
    /\ pushed \subseteq Candidates
    /\ pc \in [Procs -> Pcs]
    /\ about \in [Procs -> Candidates \cup {None}]
    /\ DOMAIN snap = Procs /\ \A p \in Procs : IsArray(snap[p])
    /\ answer \in [Procs -> Scores \cup {None}]
    /\ pending \in [Candidates -> Nat]
    /\ made \in [Candidates -> Nat]
    /\ lost \subseteq Candidates
    /\ failures \in Nat
    /\ \A p \in Checks : pc[p] # "new" => about[p] \in Candidates
    /\ \A p \in Verifies : pc[p] # "new" => about[p] \in Candidates
    /\ \A p \in Edits : pc[p] \in {"new", "editing", "ended"}

-----------------------------------------------------------------------------
NoScores == [p \in {} |-> 0]
Unlisted == [kind |-> "none", scores |-> NoScores]
NoArray  == [m \in Candidates |-> Unlisted]

Listed(a) == {m \in Candidates : a[m].kind # "none"}

\* parseInt of what a JSON property or a short answer holds.
ParseInt(v) == IF v \in Int THEN v ELSE NaN

\* A JSON property that the code's truth test lets through.
Given(v) == v \notin {None, 0}

\* The number checkProductMatches makes of an answer: one of at most two
\* characters is parsed as a number, a longer one as a JSON object with a
\* probability or a response.  Of any other answer, a longer number included,
\* it makes none, and of a probability 0 neither.
Probability(r) ==
    IF r.form = "short" THEN ParseInt(r.value)
    ELSE IF r.form = "object" /\ Given(r.probability) THEN ParseInt(r.probability)
    ELSE IF r.form = "object" /\ Given(r.response) THEN ParseInt(r.response)
    ELSE None

\* The comparison of the average with a threshold; with NaN it is false.
Exceeds(scores, threshold) ==
    /\ DOMAIN scores # {}
    /\ NaN \notin Range(scores)
    /\ SumFunction(scores) > threshold * Cardinality(DOMAIN scores)

Above(scores) == Exceeds(scores, Threshold)

WithScore(scores, p, v) ==
    [q \in DOMAIN scores \cup {p} |-> IF q = p THEN v ELSE scores[q]]

\* Mutant of Scored: the comparison with matchId is left out.
ScoredAll(a, m, p, v) ==
    [c \in Candidates |->
        IF a[c].kind = "ref" THEN [a[c] EXCEPT !.scores = WithScore(@, p, v)] ELSE a[c]]

\* Mutant of Scored: filter in the place of map.
ScoredOnly(a, m, p, v) ==
    [c \in Candidates |->
        IF a[c].kind = "ref" /\ c = m
        THEN [a[c] EXCEPT !.scores = WithScore(@, p, v)] ELSE Unlisted]

\* The array with one score more for m, if an entry has the id of m.
Scored(a, m, p, v) ==
    [c \in Candidates |->
        IF a[c].kind = "ref" /\ c = m
        THEN [a[c] EXCEPT !.scores = WithScore(@, p, v)] ELSE a[c]]

\* The array with 100 as the only score of m, if an entry has its id.
Verified(a, m, p) ==
    [c \in Candidates |->
        IF a[c].kind = "ref" /\ c = m
        THEN [a[c] EXCEPT !.scores = WithScore(NoScores, p, 100)] ELSE a[c]]

\* The array as a form got it from findOne, which populates the matches.
Populated(a) ==
    [c \in Candidates |-> IF a[c].kind = "ref" THEN [a[c] EXCEPT !.kind = "copy"] ELSE a[c]]

Init ==
    /\ exists = TRUE
    /\ matches = NoArray
    /\ pushed = {}
    /\ pc = [p \in Procs |-> "new"]
    /\ about = [p \in Procs |-> None]
    /\ snap = [p \in Procs |-> NoArray]
    /\ answer = [p \in Procs |-> None]
    /\ pending = [m \in Candidates |-> 0]
    /\ made = [m \in Candidates |-> 0]
    /\ lost = {}
    /\ failures = 0

-----------------------------------------------------------------------------
Goto(p, next) ==
    /\ pc' = [pc EXCEPT ![p] = next]
    /\ snap' = [snap EXCEPT ![p] = NoArray]

\* findById, and then an await with the array in hand.
Read(p, next) ==
    /\ exists
    /\ pc' = [pc EXCEPT ![p] = next]
    /\ snap' = [snap EXCEPT ![p] = matches]

\* addMatchesToProduct: $push of what one search found.
Push(found) ==
    /\ exists
    /\ matches' = [m \in Candidates |->
          IF m \in found THEN [kind |-> "ref", scores |-> NoScores] ELSE matches[m]]
    /\ pushed' = pushed \cup found
    /\ UNCHANGED <<exists, handling, reviews, lost, failures>>

\* A check_match event: of a replica that has read the page of the match, or
\* of the button of the product page.
SendCheck(k, m) ==
    /\ pc[k] = "new"
    /\ m \in pushed
    /\ pc' = [pc EXCEPT ![k] = "queued"]
    /\ about' = [about EXCEPT ![k] = m]
    /\ UNCHANGED <<exists, matches, pushed, snap, answer, reviews, lost, failures>>

\* checkProductMatches up to the call of OpenAI.
StartCheck(k) ==
    /\ pc[k] = "queued"
    /\ Listed(matches) # {}
    /\ Read(k, "asking")
    /\ UNCHANGED <<exists, matches, pushed, about, answer, reviews, lost, failures>>

\* The product is gone or has no matches: the handler throws.
RejectCheck(k) ==
    /\ pc[k] = "queued"
    /\ ~exists \/ Listed(matches) = {}
    /\ Goto(k, "ended")
    /\ UNCHANGED <<exists, matches, pushed, about, answer, reviews, lost, failures>>

\* Mutant of GiveUp: the event is put back for another try.
GiveUpRequeues(k) ==
    /\ pc[k] = "asking"
    /\ \E r \in Responses : Probability(r) = None
    /\ Goto(k, "queued")
    /\ UNCHANGED <<exists, matches, pushed, about, answer, reviews, lost, failures>>

\* The answer of OpenAI gives no probability.
GiveUp(k) ==
    /\ pc[k] = "asking"
    /\ \E r \in Responses : Probability(r) = None
    /\ Goto(k, "ended")
    /\ UNCHANGED <<exists, matches, pushed, about, answer, reviews, lost, failures>>

\* The call of OpenAI fails: the handler throws.
CallFails(k) ==
    /\ pc[k] = "asking"
    /\ failures < MaxFailures
    /\ failures' = failures + 1
    /\ Goto(k, "ended")
    /\ UNCHANGED <<exists, matches, pushed, about, answer, reviews, lost>>

\* Mutant of Deserves: the array as it was read is judged.
DeservesAsRead(k, written) ==
    snap[k][about[k]].kind = "ref" /\ Above(snap[k][about[k]].scores)

\* The entry of the match, in the array as written, is above the threshold.
Deserves(k, written) ==
    written[about[k]].kind = "ref" /\ Above(written[about[k]].scores)

\* The answer is recorded: the whole array is written as it was read, with the
\* new score, and the average decides whether to go on to the reviews.
Record(k, v) ==
    /\ pc[k] = "asking"
    /\ exists
    /\ answer' = [answer EXCEPT ![k] = v]
    /\ matches' = Scored(snap[k], about[k], k, v)
    /\ Goto(k, IF Deserves(k, matches') THEN "creating" ELSE "ended")
    /\ UNCHANGED <<exists, pushed, about, reviews, lost, failures>>

\* The product was removed while OpenAI answered.
RecordNothing(k) ==
    /\ pc[k] = "asking"
    /\ ~exists
    /\ Goto(k, "ended")
    /\ UNCHANGED <<exists, matches, pushed, about, answer, reviews, lost, failures>>

Answered(k) ==
    \E r \in Responses : Probability(r) # None /\ Record(k, Probability(r))

\* verifyProduct.
VerifyRead(v, m) ==
    /\ pc[v] = "new"
    /\ m \in pushed
    /\ Read(v, "verifying")
    /\ about' = [about EXCEPT ![v] = m]
    /\ UNCHANGED <<exists, matches, pushed, answer, reviews, lost, failures>>

VerifyWrite(v) ==
    /\ pc[v] = "verifying"
    /\ exists
    /\ answer' = [answer EXCEPT ![v] = 100]
    /\ matches' = Verified(snap[v], about[v], v)
    /\ Goto(v, "creating")
    /\ UNCHANGED <<exists, pushed, about, reviews, lost, failures>>

VerifyNothing(v) ==
    /\ pc[v] = "verifying"
    /\ ~exists
    /\ Goto(v, "ended")
    /\ UNCHANGED <<exists, matches, pushed, about, answer, reviews, lost, failures>>

\* Mutant of FindPending: the two outcomes of findOne are swapped.
FindPendingSwapped(p) ==
    /\ pc[p] = "creating"
    /\ Goto(p, IF pending[about[p]] > 0 THEN "inserting" ELSE "ended")
    /\ UNCHANGED <<exists, matches, pushed, about, answer, reviews, lost, failures>>

\* requestService.create for GET_REVIEWS: its findOne ...
FindPending(p) ==
    /\ pc[p] = "creating"
    /\ Goto(p, IF pending[about[p]] > 0 THEN "ended" ELSE "inserting")
    /\ UNCHANGED <<exists, matches, pushed, about, answer, reviews, lost, failures>>

\* ... and its insertion (module RequestQueue follows the request from there).
InsertRequest(p) ==
    /\ pc[p] = "inserting"
    /\ pending' = [pending EXCEPT ![about[p]] = @ + 1]
    /\ made' = [made EXCEPT ![about[p]] = @ + 1]
    /\ Goto(p, "ended")
    /\ UNCHANGED <<exists, matches, pushed, about, answer, lost, failures>>

\* A replica begins the request, or a user cancels it.
LeavePending(m) ==
    /\ pending[m] > 0
    /\ pending' = [pending EXCEPT ![m] = @ - 1]
    /\ UNCHANGED <<exists, matches, pushed, handling, made, lost, failures>>

\* update: the array is written as it comes.
Update(array) == exists /\ matches' = array

\* The edit page loads the product; some time later it puts all of it back.
EditLoad(e) ==
    /\ pc[e] = "new"
    /\ exists
    /\ pc' = [pc EXCEPT ![e] = "editing"]
    /\ snap' = [snap EXCEPT ![e] = Populated(matches)]
    /\ UNCHANGED <<exists, matches, pushed, about, answer, reviews, lost, failures>>

EditSave(e) ==
    /\ pc[e] = "editing"
    /\ Update(snap[e])
    /\ Goto(e, "ended")
    /\ UNCHANGED <<exists, pushed, about, answer, reviews, lost, failures>>

RemoveProduct ==
    /\ exists
    /\ exists' = FALSE
    /\ UNCHANGED <<matches, pushed, handling, reviews, lost, failures>>

\* An event about the new scores cannot be sent: the handler throws before it
\* comes to the request.
SendFails(k) ==
    /\ pc[k] = "creating"
    /\ failures < MaxFailures
    /\ failures' = failures + 1
    /\ lost' = lost \cup {about[k]}
    /\ Goto(k, "ended")
    /\ UNCHANGED <<exists, matches, pushed, about, answer, reviews>>

InApi(p) == pc[p] \in {"asking", "verifying", "creating", "inserting"}

\* The API process dies; the events it was handling are acknowledged.
ApiCrash ==
    /\ failures < MaxFailures
    /\ failures' = failures + 1
    /\ pc' = [p \in Procs |-> IF InApi(p) THEN "ended" ELSE pc[p]]
    /\ snap' = [p \in Procs |-> IF InApi(p) THEN NoArray ELSE snap[p]]
    /\ lost' = lost \cup {about[p] : p \in {q \in Checks \cup Verifies :
                                              pc[q] \in {"creating", "inserting"}}}
    /\ UNCHANGED <<exists, matches, pushed, about, answer, reviews>>

-----------------------------------------------------------------------------
Begin(k) == StartCheck(k) \/ RejectCheck(k)

Finish(k) == Answered(k) \/ GiveUp(k) \/ RecordNothing(k)

Create(p) == FindPending(p) \/ InsertRequest(p)

Next ==
    \/ \E found \in SUBSET (Candidates \ pushed) \ {{}} : Push(found)
    \/ \E k \in Checks, m \in Candidates : SendCheck(k, m)
    \/ \E k \in Checks : Begin(k) \/ Finish(k) \/ CallFails(k) \/ SendFails(k)
    \/ \E v \in Verifies, m \in Candidates : VerifyRead(v, m)
    \/ \E v \in Verifies : VerifyWrite(v) \/ VerifyNothing(v)
    \/ \E p \in Checks \cup Verifies : Create(p)
    \/ \E m \in Candidates : LeavePending(m)
    \/ \E e \in Edits : EditLoad(e) \/ EditSave(e)
    \/ RemoveProduct
    \/ ApiCrash

Spec == Init /\ [][Next]_vars

\* The API takes every event and runs every handler on; OpenAI answers, except
\* for the calls that fail.  Nobody has to send, verify, edit or remove anything.
Fairness ==
    /\ \A k \in Checks : WF_vars(Begin(k)) /\ WF_vars(Finish(k))
    /\ \A p \in Checks \cup Verifies : WF_vars(Create(p))

FairSpec == Spec /\ Fairness
-----------------------------------------------------------------------------
(* Properties.                                                             *)

\* Somebody made a GET_REVIEWS request for m, is about to, or failed doing so.
Settled(m) ==
    \/ made[m] > 0
    \/ m \in lost
    \/ \E p \in Checks \cup Verifies :
           about[p] = m /\ pc[p] \in {"creating", "inserting"}

\* A match that shows an average above the threshold has its reviews requested:
\* by the handler that wrote the scores shown, however many handlers have since
\* written over each other's arrays, dropped scores and brought old ones back
\* (checkProductMatches judges the array as written, and nobody else writes one
\* that has not been judged).
AboveRequested ==
    \A m \in Listed(matches) : Above(matches[m].scores) => Settled(m)

\* Reviews are requested only for a candidate that was verified, or that some of
\* the answers OpenAI gave about that very candidate put above the threshold:
\* stale arrays never lend a match the scores of another.
Justified(m) ==
    \/ \E v \in Verifies : about[v] = m
    \/ \E S \in SUBSET {k \in Checks : about[k] = m /\ answer[k] # None} :
           Above([k \in S |-> answer[k]])
RequestedJustified == \A m \in Candidates : made[m] > 0 => Justified(m)

\* An entry or a score leaves the array only when a process writes what it read
\* before the entry or the score was there, or when the match is verified.
EntriesKept ==
    [][\A m \in Candidates :
          \/ m \in Listed(matches) \ Listed(matches')
          \/ ~(DOMAIN matches[m].scores \subseteq DOMAIN matches'[m].scores)
          => \E p \in Procs :
                 /\ pc[p] \in {"asking", "verifying", "editing"}
                 /\ pc'[p] # pc[p]
                 /\ \/ m \notin Listed(snap[p])
                    \/ snap[p][m].scores # matches[m].scores
                    \/ p \in Verifies /\ about[p] = m]_vars

\* Every check_match event that reaches the API comes to an end.
EveryCheckEnds == \A k \in Checks : pc[k] = "queued" ~> pc[k] = "ended"

\* The reviews of a match above the threshold are requested in the end.
AboveScraped ==
    \A m \in Candidates :
        m \in Listed(matches) /\ Above(matches[m].scores) ~> made[m] > 0 \/ m \in lost
=============================================================================
