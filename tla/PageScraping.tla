---------------------------- MODULE PageScraping ----------------------------
(***************************************************************************)
(* One replica reading the pages of Amazon with a browser, for a           *)
(* FIND_PRODUCT, a GET_REVIEWS or a GET_PRODUCT_INFO request: the attempts *)
(* of services/scraping.py and the AmazonScrapper of services/amazon.py.   *)
(*                                                                         *)
(* Amazon answers with the page asked for, with a captcha or with a        *)
(* refusal, and the driver may raise.  check503 reloads a refused page     *)
(* once; a counter of the process bounds the reloads, and past it a        *)
(* refusal told by the title raises (json.dump without a file) while one   *)
(* told by a frame or a link is read as if it were the page.  What is done *)
(* with the products and the reviews found is in module Discovery.         *)
(***************************************************************************)
EXTENDS Integers, Sequences

CONSTANTS
    Wanted,     \* PRODUCTS_TO_SEARCH and REVIEWS_TO_READ
    MaxPages,   \* bound on the pages of a site
    MaxItems,   \* bound on the items of a page
    MaxLost     \* bound on browsers left open by crashes and constructors

Tasks == {"FIND_PRODUCT", "GET_REVIEWS", "GET_PRODUCT_INFO"}

\* Attempts at each kind of request: restartCounter <= 5, and <= 3.
Limit(t) == IF t = "FIND_PRODUCT" THEN 6 ELSE 4

\* What Amazon has for a request: items with a title (and a link) on each page,
\* whether there are others without, and whether a page past the last one has
\* an empty list of results or none.
Sites ==
    [pages    : UNION {[1 .. n -> 0 .. MaxItems] : n \in 0 .. MaxPages},
     nameless : BOOLEAN,
     tail     : {"empty", "none"}]

ASSUME ConstantsAssumption ==
    /\ Wanted \in Nat \ {0}
    /\ MaxPages \in Nat /\ MaxPages >= 2
    /\ MaxItems \in Nat
    /\ MaxLost \in Nat

VARIABLES
    place,     \* where the replica is
    task,      \* type of the request
    site,      \* what Amazon has for it
    tries,     \* restartCounter
    page,      \* page open, or about to be; the last value stands for all that follow
    shown,     \* what the browser shows
    taken,     \* items of each page in the list of this attempt
    count,     \* length of that list; for a description, whether it was read
    bound,     \* findProducts: product_founded has a value
    dict,      \* findProducts has returned product_founded, which is no list
    counter,   \* refreshCounter, a global of the process
    sessions,  \* browsers open
    lost,      \* history: browsers no variable names any more
    blocked,   \* history: this attempt read something else than a page
    gaveUp,    \* history: the attempts were used up
    outcome    \* of the last request

attempt == <<page, shown, taken, count, bound, dict, blocked>>
request == <<task, site, tries, gaveUp, outcome>>
browser == <<sessions, lost>>
vars    == <<place, request, attempt, browser, counter>>

Pages == 1 .. MaxPages

\* Items of the site's page p.
Whole(p) == IF p \in 1 .. Len(site.pages) THEN site.pages[p] ELSE 0

Exhausted == \A p \in Pages : taken[p] = Whole(p)

TypeOK ==
    /\ place \in {"idle", "ended", "starting", "opening", "checking", "listing", "entering",
                  "reviewing", "paging", "describing", "failing", "closing"}
    /\ task \in Tasks
    /\ site \in Sites
    /\ tries \in 0 .. 6
    /\ page \in 1 .. MaxPages + 1
    /\ shown \in {"page", "captcha", "refused"}
    /\ taken \in [Pages -> 0 .. MaxItems]
    /\ count \in Nat
    /\ bound \in BOOLEAN
    /\ dict \in BOOLEAN
    /\ counter \in 0 .. 6
    /\ sessions \in Nat
    /\ lost \in Nat
    /\ blocked \in BOOLEAN
    /\ gaveUp \in BOOLEAN
    /\ outcome \in {"none", "COMPLETED", "ERROR"}

NoSite == [pages |-> <<>>, nameless |-> FALSE, tail |-> "none"]

Init ==
    /\ place = "idle"
    /\ task = "FIND_PRODUCT"
    /\ site = NoSite
    /\ tries = 0
    /\ page = 1
    /\ shown = "page"
    /\ taken = [p \in Pages |-> 0]
    /\ count = 0
    /\ bound = FALSE
    /\ dict = FALSE
    /\ counter = 0
    /\ sessions = 0
    /\ lost = 0
    /\ blocked = FALSE
    /\ gaveUp = FALSE
    /\ outcome = "none"

\* The variables of the attempt have their first values,
Fresh ==
    /\ page' = 1
    /\ shown' = "page"
    /\ taken' = [p \in Pages |-> 0]
    /\ count' = 0
    /\ bound' = FALSE
    /\ dict' = FALSE
    /\ blocked' = FALSE

\* and the variables of the request, too.
Idle ==
    /\ Fresh
    /\ place' = "idle"
    /\ task' = "FIND_PRODUCT"
    /\ site' = NoSite
    /\ tries' = 0
    /\ gaveUp' = FALSE
    /\ outcome' = "none"

-----------------------------------------------------------------------------
(* The attempts.                                                           *)

\* scrapeUrl calls the function of the request's type.
Begin(t, s) ==
    /\ place = "idle"
    /\ t # "FIND_PRODUCT" => s.tail = "none" /\ ~s.nameless
    /\ place' = "starting"
    /\ task' = t
    /\ site' = s
    /\ UNCHANGED <<tries, gaveUp, outcome, attempt, browser, counter>>

\* The request ends.
End(result) ==
    /\ place' = "ended"
    /\ outcome' = result

\* An attempt has failed: the function tries again, or, its attempts used up,
\* raises (findProductsInAmazon) or returns a string nobody reads.
TryAgain ==
    /\ tries' = tries + 1
    /\ IF tries + 1 < Limit(task)
       THEN place' = "starting" /\ UNCHANGED <<outcome, gaveUp>>
       ELSE /\ End(IF task = "FIND_PRODUCT" THEN "ERROR" ELSE "COMPLETED")
            /\ gaveUp' = TRUE
    /\ UNCHANGED <<task, site>>

\* AmazonScrapper(...) opens a browser.
Start ==
    /\ place = "starting"
    /\ place' = "opening"
    /\ sessions' = sessions + 1
    /\ Fresh
    /\ UNCHANGED <<request, lost, counter>>

\* AmazonScrapper(...) raises, maybe in set_window_size with the browser open.
\* findProductsInAmazon does not catch it; the others do, but at the first
\* attempt they have no scrapper to close, and raise as well.
StartFails ==
    /\ place = "starting"
    /\ \/ UNCHANGED browser
       \/ lost < MaxLost /\ lost' = lost + 1 /\ sessions' = sessions + 1
    /\ IF task = "FIND_PRODUCT" \/ tries = 0
       THEN End("ERROR") /\ UNCHANGED <<task, site, tries, gaveUp>>
       ELSE TryAgain
    /\ UNCHANGED <<attempt, counter>>

\* Mutant of Fail: the browser of the attempt stays open.
FailOpen ==
    /\ place = "failing"
    /\ TryAgain
    /\ UNCHANGED <<attempt, browser, counter>>

\* Mutant of Fail: the attempts are not counted.
FailUncounted ==
    /\ place = "failing"
    /\ sessions' = sessions - 1
    /\ place' = "starting"
    /\ UNCHANGED <<request, lost, attempt, counter>>

\* The except clause of an attempt closes its browser.
Fail ==
    /\ place = "failing"
    /\ sessions' = sessions - 1
    /\ TryAgain
    /\ UNCHANGED <<lost, attempt, counter>>

\* The attempt returns: its browser is closed and the results are written.
\* findProductsInAmazon cannot write a dictionary, and raises.
Close ==
    /\ place = "closing"
    /\ sessions' = sessions - 1
    /\ End(IF dict THEN "ERROR" ELSE "COMPLETED")
    /\ UNCHANGED <<task, site, tries, gaveUp, lost, attempt, counter>>

\* scrapeUrl writes the status of the request and returns.
Return ==
    /\ place = "ended"
    /\ Idle
    /\ UNCHANGED <<browser, counter>>

-----------------------------------------------------------------------------
(* Opening a page.                                                         *)

Opened == IF task = "FIND_PRODUCT" THEN "listing" ELSE "checking"

KeepReading == UNCHANGED <<page, taken, count, bound, dict, blocked>>

\* openUrl: the answer is a page or a captcha.
Open ==
    /\ place = "opening"
    /\ shown' \in {"page", "captcha"}
    /\ place' = Opened
    /\ KeepReading
    /\ UNCHANGED <<request, browser, counter>>

\* openUrl: the answer is a refusal, and check503 reloads it in a new tab.  It
\* does not look at what it gets then.
Refresh ==
    /\ place = "opening"
    /\ counter <= 5
    /\ counter' = counter + 1
    /\ shown' \in {"page", "captcha", "refused"}
    /\ place' = Opened
    /\ KeepReading
    /\ UNCHANGED <<request, browser>>

\* openUrl: the answer is a refusal, and the reloads are used up.  The error of
\* refresh leaves check503 if the title told it, and is swallowed otherwise.
RefreshLoop ==
    /\ place = "opening"
    /\ counter > 5
    /\ shown' = "refused"
    /\ place' \in {"failing", Opened}
    /\ KeepReading
    /\ UNCHANGED <<request, browser, counter>>

\* openUrl: the driver raises.
OpenFails ==
    /\ place = "opening"
    /\ place' = "failing"
    /\ UNCHANGED <<request, attempt, browser, counter>>

\* checkCaptcha, of the reviews and of the description only: it may solve a
\* captcha, and never raises.
CheckCaptcha ==
    /\ place = "checking"
    /\ IF shown = "captcha" THEN shown' \in {"page", "captcha", "refused"} ELSE shown' = shown
    /\ place' = IF task = "GET_REVIEWS" THEN "entering" ELSE "describing"
    /\ KeepReading
    /\ UNCHANGED <<request, browser, counter>>

-----------------------------------------------------------------------------
(* findProducts.                                                           *)

\* The third page is open and nothing was found: it returns product_founded,
\* which is an item without a title, or has no value.
FindNothing ==
    /\ place = "listing"
    /\ page >= 3 /\ count = 0
    /\ dict' = bound
    /\ place' = IF bound THEN "closing" ELSE "failing"
    /\ UNCHANGED <<page, shown, taken, count, bound, blocked, request, browser, counter>>

HasList == shown = "page" /\ (page <= Len(site.pages) \/ site.tail = "empty")

\* Items of the page that are added to the list.
Room(n) == IF n <= Wanted - count THEN n ELSE Wanted - count

Take(n) ==
    /\ taken' = IF page \in Pages THEN [taken EXCEPT ![page] = n] ELSE taken
    /\ count' = count + n

NextPage == page' = IF page <= MaxPages THEN page + 1 ELSE page

\* Mutant of ReadList: every other page is skipped.
ReadListAndSkip ==
    /\ place = "listing"
    /\ ~(page >= 3 /\ count = 0)
    /\ HasList
    /\ Take(Room(Whole(page)))
    /\ bound' = (bound \/ (page <= Len(site.pages) /\ (site.nameless \/ Whole(page) > 0)))
    /\ place' = IF count' < Wanted THEN "opening" ELSE "closing"
    /\ page' = IF page + 2 <= MaxPages + 1 THEN page + 2 ELSE MaxPages + 1
    /\ UNCHANGED <<shown, dict, blocked, request, browser, counter>>

\* The results of a page are added until there are as many as wanted, and the
\* loop opens the next page if there are fewer.
ReadList ==
    /\ place = "listing"
    /\ ~(page >= 3 /\ count = 0)
    /\ HasList
    /\ Take(Room(Whole(page)))
    /\ bound' = (bound \/ (page <= Len(site.pages) /\ (site.nameless \/ Whole(page) > 0)))
    /\ place' = IF count' < Wanted THEN "opening" ELSE "closing"
    /\ NextPage
    /\ UNCHANGED <<shown, dict, blocked, request, browser, counter>>

\* There is no list of results, or reading it raises: what was found so far is
\* returned as the result.
NoList ==
    /\ place = "listing"
    /\ ~(page >= 3 /\ count = 0)
    /\ \/ ~HasList /\ blocked' = (shown # "page")
       \/ HasList /\ blocked' = TRUE
    /\ place' = "closing"
    /\ UNCHANGED <<page, shown, taken, count, bound, dict, request, browser, counter>>

FindProducts == FindNothing \/ ReadList \/ NoList

-----------------------------------------------------------------------------
(* scrapeReviews and scrapeProductInfo.                                    *)

\* The link to all the reviews is in the footer of the product page, if it has
\* reviews; what a click shows is not checked.
Footer ==
    /\ place = "entering"
    /\ IF shown = "page" /\ site.pages # <<>>
       THEN /\ place' = "reviewing"
            /\ shown' \in {"page", "captcha", "refused"}
            /\ UNCHANGED blocked
       ELSE /\ place' = "closing"
            /\ blocked' = (shown # "page")
            /\ UNCHANGED shown
    /\ UNCHANGED <<page, taken, count, bound, dict, request, browser, counter>>

\* All the reviews of a page are added: the limit of the loop is joined with or.
ReadReviews ==
    /\ place = "reviewing"
    /\ shown = "page"
    /\ Take(Whole(page))
    /\ place' = "paging"
    /\ UNCHANGED <<page, shown, bound, dict, blocked, request, browser, counter>>

\* The page shown has no reviews and no button, or the driver raises.
NoReviews ==
    /\ place \in {"reviewing", "paging"}
    /\ blocked' = TRUE
    /\ place' = "closing"
    /\ UNCHANGED <<page, shown, taken, count, bound, dict, request, browser, counter>>

\* Mutant of TurnPage: the limit stops the loop.
TurnPageWithin ==
    /\ place = "paging"
    /\ IF page < Len(site.pages) /\ count < Wanted
       THEN /\ place' = "reviewing"
            /\ NextPage
            /\ shown' \in {"page", "captcha", "refused"}
       ELSE place' = "closing" /\ UNCHANGED <<page, shown>>
    /\ UNCHANGED <<taken, count, bound, dict, blocked, request, browser, counter>>

\* The button of the next page is disabled on the last one.
TurnPage ==
    /\ place = "paging"
    /\ IF page < Len(site.pages)
       THEN /\ place' = "reviewing"
            /\ NextPage
            /\ shown' \in {"page", "captcha", "refused"}
       ELSE place' = "closing" /\ UNCHANGED <<page, shown>>
    /\ UNCHANGED <<taken, count, bound, dict, blocked, request, browser, counter>>

ScrapeReviews == Footer \/ ReadReviews \/ NoReviews \/ TurnPage

\* Every part of the description that is not found is left blank, and the
\* description is written: that of a page, or a blank one of anything else.
ScrapeProductInfo ==
    /\ place = "describing"
    /\ count' = IF shown = "page" THEN 1 ELSE 0
    /\ blocked' = (shown # "page")
    /\ place' = "closing"
    /\ UNCHANGED <<page, shown, taken, bound, dict, request, browser, counter>>

-----------------------------------------------------------------------------
\* The process dies and is started again: its browser stays open, its counter
\* does not survive, and the message is delivered again.
Restart ==
    /\ sessions <= MaxLost
    /\ Idle
    /\ lost' = sessions
    /\ counter' = 0
    /\ UNCHANGED sessions

OpenUrl == Open \/ Refresh \/ RefreshLoop \/ OpenFails

Scrape == Start \/ StartFails \/ Fail \/ Close \/ Return \/ OpenUrl \/ CheckCaptcha
              \/ FindProducts \/ ScrapeReviews \/ ScrapeProductInfo

Next == Scrape \/ Restart \/ \E t \in Tasks, s \in Sites : Begin(t, s)

Spec == Init /\ [][Next]_vars

\* The replica's thread goes on.
FairSpec == Spec /\ WF_vars(Scrape)

-----------------------------------------------------------------------------
(* Properties.                                                             *)

\* Whatever pages were refused, reloaded or empty, the products of an attempt
\* are the first of the site's results, none skipped and none beyond the number
\* wanted, and its reviews are those of the first pages (findProducts and
\* scrapeReviews turn the pages themselves).
FoundInOrder ==
    /\ task = "FIND_PRODUCT" => count <= Wanted
    /\ \A p \in Pages :
          /\ taken[p] <= Whole(p)
          /\ taken[p] > 0 => \A q \in 1 .. p - 1 : taken[q] = Whole(q)

\* A request that ends COMPLETED has found the products wanted, or all there
\* are, or has read all the reviews, or the description, unless something else
\* than a page was read as one or its attempts were used up: the two cases in
\* which a failure is recorded as a success.
ShortWasCut ==
    place = "ended" /\ outcome = "COMPLETED" /\ ~blocked /\ ~gaveUp =>
        CASE task = "FIND_PRODUCT" -> count = Wanted \/ Exhausted
          [] task = "GET_REVIEWS" -> Exhausted
          [] task = "GET_PRODUCT_INFO" -> count = 1

\* However an attempt ends, its browser is closed: between requests the browsers
\* open are those left by a constructor that raised or a process that died.
SessionsClosed ==
    /\ place \in {"idle", "ended"} => sessions = lost
    /\ sessions <= lost + 1

\* findProducts turns empty pages forever once it has one product too few.
Endless ==
    /\ task = "FIND_PRODUCT" /\ count \in 1 .. Wanted - 1
    /\ site.tail = "empty" /\ page > Len(site.pages)

\* Whatever Amazon answers, a request ends, except for that search.
EveryRequestEnds == place # "idle" ~> place = "idle" \/ Endless
=============================================================================
