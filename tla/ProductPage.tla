---------------------------- MODULE ProductPage -----------------------------
(***************************************************************************)
(* The requests a product page shows, and those the database has.          *)
(*                                                                         *)
(* The page reads the requests when it is opened, and again for every      *)
(* request_updated its socket receives: the listener was registered by the *)
(* first render, whose requests are none, so updateRequest never finds the *)
(* one it could change in place.  The answers may come in another order    *)
(* than the database gave them.  Only the replicas' writes are announced:  *)
(* nothing tells the page of a request that is made, canceled or removed,  *)
(* not even by its own table.                                              *)
(*                                                                         *)
(* The API answers with the requests of the product and of its matches, so *)
(* those of a match come with it, when a search lists it: of that the page *)
(* hears by the request_updated of the end of the search, and of a stale   *)
(* array of matches written over the list it hears nothing.                *)
(*                                                                         *)
(* Executions are those of module RequestQueue, here with one failure or   *)
(* death between a write and its publication at a time.  What LogViewer,   *)
(* the other page, has under the same name is named otherwise: FrontProofs *)
(* extends both.                                                           *)
(***************************************************************************)
EXTENDS Integers, Sequences

CONSTANTS
    Requests,    \* requests of the product and of its matches
    Own,         \* those of the product
    Search,      \* the one that finds it in the marketplaces
    MaxAsked,    \* bound on the answers the page waits for
    MaxChanges,  \* bound on requests canceled or removed and matches written over
    MaxFaults    \* bound on lost connections, deaths and calls that fail

ASSUME PageAssumption ==
    /\ Own \subseteq Requests
    /\ Search \in Own
    /\ MaxAsked \in Nat
    /\ MaxChanges \in Nat
    /\ MaxFaults \in Nat

Statuses == {"absent", "PENDING", "IN_PROGRESS", "COMPLETED", "CANCELED"}

VARIABLES
    listed,     \* whether the matches are in the array of the product
    status,     \* status of each request document; COMPLETED stands for ERROR too
    stage,      \* what the replicas have done of it
    events,     \* request_updated events not yet passed on to the sockets
    connected,  \* whether the page's socket is
    view,       \* the requests the page shows
    asked,      \* calls of getRequests the API has not read the product for
    reading,    \* those that have read it, by whether it had its matches
    answers,    \* what it has read, and the page has not, in the order of reading
    late,       \* how many of these are older than what the page shows
    behind,     \* history: the page shows an older answer, or a newer one failed
    unheard,    \* history: requests whose change no event tells the page, since the
                \* database was last read for it
    changes,
    faults

database == <<listed, status, stage, events>>
held     == <<view, asked, reading, answers, late, behind>>
budget   == <<changes, faults>>
pageVars == <<database, connected, held, unheard, budget>>

Views == [Requests -> Statuses]

PageTypeOK ==
    /\ listed \in BOOLEAN
    /\ status \in Views
    /\ stage \in [Requests -> {"none", "waiting", "begun", "running", "listed", "ended",
                              "failed", "over"}]
    /\ events \in Seq(Requests)
    /\ connected \in BOOLEAN
    /\ view \in Views
    /\ asked \in Nat
    /\ reading \in [BOOLEAN -> Nat]
    /\ answers \in Seq(Views)
    /\ late \in 0 .. Len(answers)
    /\ behind \in BOOLEAN
    /\ unheard \subseteq Requests
    /\ changes \in Nat
    /\ faults \in Nat

\* The page is rendered for the first time: its effects call getRequests, and
\* connect the socket.
PageInit ==
    /\ listed = FALSE
    /\ status = [r \in Requests |-> "absent"]
    /\ stage = [r \in Requests |-> "none"]
    /\ events = <<>>
    /\ connected = FALSE
    /\ view = [r \in Requests |-> "absent"]
    /\ asked = 1
    /\ reading = [l \in BOOLEAN |-> 0]
    /\ answers = <<>>
    /\ late = 0
    /\ behind = FALSE
    /\ unheard = {}
    /\ changes = 0
    /\ faults = 0

Failure == faults < MaxFaults /\ faults' = faults + 1 /\ UNCHANGED changes

Change == changes < MaxChanges /\ changes' = changes + 1 /\ UNCHANGED faults

\* What findByProduct finds, in a product with its matches or without.
Found(l) == [r \in Requests |-> IF r \in Own \/ l THEN status[r] ELSE "absent"]

\* The requests the page is told of by an event of r: it reads them all again, and
\* the end of the search comes after its matches were listed.
Told(r) == IF r = Search /\ listed THEN {r} \cup (Requests \ Own) ELSE {r}

\* A status, or the list of matches, was written and is announced next.
Unannounced(r) == stage[r] \in {"begun", "listed", "ended", "failed"}

-----------------------------------------------------------------------------
(* The database.                                                           *)

\* The document of a request is written, and no event says so.
Quietly(r, new) ==
    /\ status' = [status EXCEPT ![r] = new]
    /\ unheard' = unheard \cup {r}
    /\ UNCHANGED <<listed, events, connected, held>>

Made(r) ==
    /\ stage[r] = "none"
    /\ stage' = [stage EXCEPT ![r] = "waiting"]
    /\ Quietly(r, "PENDING")
    /\ UNCHANGED budget

\* The buttons that make requests of the product are disabled, or not there, while the
\* page shows a PENDING request.
Enabled == \A q \in Requests : view[q] # "PENDING"

Press(r) == r \in Own /\ Enabled /\ Made(r)

\* The table makes another request like one that it shows, whatever its status; the
\* API makes none if one like it is PENDING.
Duplicate(r) == (\E q \in Requests : view[q] # "absent") /\ Made(r)

\* The API, the replicas and other pages make requests too, for a match once a search
\* has created it.
Make(r) ==
    /\ r \in Own \/ listed \/ stage[Search] = "running"
    /\ Made(r)

\* The table cancels requests that it shows PENDING or IN_PROGRESS; the API
\* writes CANCELED over any status.
CancelRequest(r) ==
    /\ view[r] \in {"PENDING", "IN_PROGRESS"}
    /\ status[r] # "absent"
    /\ Change
    /\ Quietly(r, "CANCELED")
    /\ UNCHANGED stage

\* It removes the others; the API removes any that is there.
RemoveRequest(r) ==
    /\ view[r] \in {"COMPLETED", "CANCELED"}
    /\ status[r] # "absent"
    /\ Change
    /\ Quietly(r, "absent")
    /\ UNCHANGED stage

\* A replica writes the status, if the document is still there ...
Update(r, from, to, new) ==
    /\ stage[r] \in from
    /\ stage' = [stage EXCEPT ![r] = to]
    /\ status' = [status EXCEPT ![r] = IF @ = "absent" THEN @ ELSE new]
    /\ UNCHANGED <<listed, events, connected, held, unheard>>

Begin(r) == Update(r, {"waiting"}, "begun", "IN_PROGRESS") /\ UNCHANGED budget

\* addMatchesToProduct of the search: the page reads the product again for the
\* product_updated, and not its requests.
List ==
    /\ stage[Search] = "running"
    /\ stage' = [stage EXCEPT ![Search] = "listed"]
    /\ listed' = TRUE
    /\ UNCHANGED <<status, events, connected, held, unheard, budget>>

\* The matches are written whole by someone who read them before.
Overwrite ==
    /\ listed
    /\ Change
    /\ listed' = FALSE
    /\ unheard' = unheard \cup (Requests \ Own)
    /\ UNCHANGED <<status, stage, events, connected, held>>

End(r) == Update(r, {"running", "listed"}, "ended", "COMPLETED") /\ UNCHANGED budget

\* Mutant of Announce: the end of a request is not announced.
AnnounceBegun(r) ==
    /\ stage[r] \in {"begun", "ended", "failed"}
    /\ stage' = [stage EXCEPT ![r] = IF @ = "begun" THEN "running" ELSE "over"]
    /\ events' = IF stage[r] = "begun" THEN Append(events, r) ELSE events
    /\ UNCHANGED <<listed, status, connected, held, unheard, budget>>

\* ... and publishes a request_updated.
Announce(r) ==
    /\ stage[r] \in {"begun", "ended", "failed"}
    /\ stage' = [stage EXCEPT ![r] = IF @ = "begun" THEN "running" ELSE "over"]
    /\ events' = Append(events, r)
    /\ UNCHANGED <<listed, status, connected, held, unheard, budget>>

\* It raises at an end: errorRequest writes and announces another.
AnnounceAgain(r) == Update(r, {"ended"}, "failed", "COMPLETED") /\ Failure

\* It raises, and is over: the callback swallows it and acknowledges the message.
AnnounceFails(r) ==
    /\ stage[r] \in {"begun", "failed"}
    /\ Failure
    /\ stage' = [stage EXCEPT ![r] = "over"]
    /\ unheard' = unheard \cup Told(r)
    /\ UNCHANGED <<listed, status, events, connected, held>>

\* The replica dies, and the request goes to another.
ReplicaDies(r) ==
    /\ Unannounced(r) \/ stage[r] = "running"
    /\ Failure
    /\ stage' = [stage EXCEPT ![r] = "waiting"]
    /\ unheard' = IF Unannounced(r) THEN unheard \cup Told(r) ELSE unheard
    /\ UNCHANGED <<listed, status, events, connected, held>>

-----------------------------------------------------------------------------
(* The socket.                                                             *)

\* useSocketListener: the connection is made after the first render, and again
\* when it was lost.
Connect ==
    /\ ~connected
    /\ connected' = TRUE
    /\ UNCHANGED <<database, held, unheard, budget>>

Disconnect ==
    /\ connected
    /\ Failure
    /\ connected' = FALSE
    /\ UNCHANGED <<database, held, unheard>>

\* The answers the page waits for.
Waiting == asked + reading[TRUE] + reading[FALSE] + Len(answers)

\* Mutant of Deliver: a request the page already shows is not read again.
DeliverIfNew ==
    /\ events # <<>>
    /\ events' = Tail(events)
    /\ IF connected
       THEN /\ Waiting < MaxAsked
            /\ asked' = IF view[Head(events)] = "absent" THEN asked + 1 ELSE asked
            /\ UNCHANGED unheard
       ELSE unheard' = unheard \cup Told(Head(events)) /\ UNCHANGED asked
    /\ UNCHANGED <<listed, status, stage, connected, view, reading, answers, late, behind,
                   budget>>

\* The consumer emits a request_updated to the sockets, whatever product it is
\* of; the page calls getRequests.
Deliver ==
    /\ events # <<>>
    /\ events' = Tail(events)
    /\ IF connected
       THEN Waiting < MaxAsked /\ asked' = asked + 1 /\ UNCHANGED unheard
       ELSE unheard' = unheard \cup Told(Head(events)) /\ UNCHANGED asked
    /\ UNCHANGED <<listed, status, stage, connected, view, reading, answers, late, behind,
                   budget>>

-----------------------------------------------------------------------------
(* getRequests.                                                            *)

\* findByProduct reads the product ...
ReadListed ==
    /\ asked > 0
    /\ asked' = asked - 1
    /\ reading' = [reading EXCEPT ![listed] = @ + 1]
    /\ UNCHANGED <<database, connected, view, answers, late, behind, unheard, budget>>

\* ... and then the requests of it and of the matches it had.
Serve(l) ==
    /\ reading[l] > 0
    /\ reading' = [reading EXCEPT ![l] = @ - 1]
    /\ answers' = Append(answers, Found(l))
    /\ unheard' = IF l = listed THEN {} ELSE Requests \ Own
    /\ UNCHANGED <<database, connected, view, asked, late, behind, budget>>

Without(i) == [j \in 1 .. Len(answers) - 1 |-> answers[IF j < i THEN j ELSE j + 1]]

\* setRequests: the page shows the i-th of the answers under way.
ShowRequests(i) ==
    /\ view' = answers[i]
    /\ answers' = Without(i)
    /\ late' = IF i <= late THEN late - 1 ELSE i - 1
    /\ behind' = (i <= late)
    /\ UNCHANGED <<database, connected, asked, reading, unheard, budget>>

\* ApiHandlerError: the call fails, and the page shows what it did.
AskFails ==
    /\ Failure
    /\ \/ asked > 0 /\ asked' = asked - 1 /\ UNCHANGED reading
       \/ \E l \in BOOLEAN :
              /\ reading[l] > 0
              /\ reading' = [reading EXCEPT ![l] = @ - 1]
              /\ UNCHANGED asked
    /\ late' = Len(answers)
    /\ behind' = TRUE
    /\ UNCHANGED <<database, connected, view, answers, unheard>>

-----------------------------------------------------------------------------
PageUser == \E r \in Requests : Press(r) \/ Duplicate(r) \/ CancelRequest(r) \/ RemoveRequest(r)

Replica ==
    \/ \E r \in Requests :
           \/ Make(r) \/ Begin(r) \/ End(r)
           \/ Announce(r) \/ AnnounceAgain(r) \/ AnnounceFails(r) \/ ReplicaDies(r)
    \/ List

Answering == \E l \in BOOLEAN : Serve(l)

ShowAnswer == \E i \in 1 .. Len(answers) : ShowRequests(i)

PageNext ==
    \/ PageUser \/ Replica \/ Overwrite
    \/ Connect \/ Disconnect \/ Deliver
    \/ ReadListed \/ Answering \/ ShowAnswer \/ AskFails

PageSpec == PageInit /\ [][PageNext]_pageVars

\* A search that has listed its matches, with nothing left to do but to end.
Finish == stage[Search] = "listed" /\ End(Search)

Announcing == \E r \in Requests : Announce(r)

\* The consumer takes its events, calls are answered, and what was written is
\* announced.
PageFairSpec ==
    /\ PageSpec
    /\ WF_pageVars(Deliver) /\ WF_pageVars(ReadListed) /\ WF_pageVars(Answering)
    /\ WF_pageVars(ShowAnswer) /\ WF_pageVars(Finish) /\ WF_pageVars(Announcing)

-----------------------------------------------------------------------------
(* Properties.                                                             *)

AtRest ==
    /\ events = <<>> /\ asked = 0 /\ reading[TRUE] = 0 /\ reading[FALSE] = 0 /\ answers = <<>>
    /\ \A r \in Requests : ~Unannounced(r)

\* With nothing to be announced, no event and no answer on its way, the page shows
\* the requests as findByProduct finds them, those excepted that changed without an
\* event it received: made, canceled or removed by anyone, this page included,
\* announced in vain (while the socket was not connected, or publishing failed), of
\* matches written over, or found for the matches of a moment before.  An answer
\* that came after a newer one, or failed, may leave any request behind (getRequests
\* in products/[id]/page.tsx).
RequestsFresh ==
    AtRest /\ ~behind =>
        \A r \in Requests : view[r] # Found(listed)[r] => r \in unheard

\* A request that has come to an end is in the end shown as it is, but for those
\* reasons, and one that ended before its match was listed is shown after the
\* search: a button is not disabled for ever by a request that is over.
EveryEndShown ==
    \A r \in Requests :
        stage[r] = "over" ~> view[r] = Found(listed)[r] \/ r \in unheard \/ behind
=============================================================================
