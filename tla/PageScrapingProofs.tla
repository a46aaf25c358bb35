------------------------- MODULE PageScrapingProofs -------------------------
(* Theorems about module PageScraping, for any number of items wanted, of   *)
(* pages of a site and of items of a page, and of browsers lost.            *)
EXTENDS PageScraping, TLAPS

LEMMA NoSiteIsASite == NoSite \in Sites
  <1>1. <<>> \in [1 .. 0 -> 0 .. MaxItems]
    OBVIOUS
  <1>2. 0 \in 0 .. MaxPages
    BY ConstantsAssumption
  <1>3. <<>> \in UNION {[1 .. n -> 0 .. MaxItems] : n \in 0 .. MaxPages}
    BY <1>1, <1>2
  <1>. QED BY <1>3 DEF NoSite, Sites

LEMMA SiteLength ==
  ASSUME NEW s \in Sites
  PROVE  /\ Len(s.pages) \in 0 .. MaxPages
         /\ s.pages \in [1 .. Len(s.pages) -> 0 .. MaxItems]
         /\ s.pages = <<>> <=> Len(s.pages) = 0
  <1>1. PICK n \in 0 .. MaxPages : s.pages \in [1 .. n -> 0 .. MaxItems]
    BY DEF Sites
  <1>n. n \in Nat
    BY ConstantsAssumption
  <1>2. Len(s.pages) = n
    BY <1>1, <1>n
  <1>. QED BY <1>1, <1>n, <1>2

LEMMA WholeType ==
  ASSUME TypeOK, NEW p \in Pages
  PROVE  /\ Whole(p) \in 0 .. MaxItems
         /\ p > Len(site.pages) => Whole(p) = 0
  <1>1. site.pages \in [1 .. Len(site.pages) -> 0 .. MaxItems] /\ Len(site.pages) \in Nat
    BY SiteLength DEF TypeOK
  <1>2. 0 \in 0 .. MaxItems
    BY ConstantsAssumption
  <1>. QED BY <1>1, <1>2, ConstantsAssumption DEF Whole, Pages

LEMMA PastTheLast == TypeOK /\ page \notin Pages => page = MaxPages + 1 /\ Whole(page) = 0
  <1>. SUFFICES ASSUME TypeOK, page \notin Pages PROVE page = MaxPages + 1 /\ Whole(page) = 0
    OBVIOUS
  <1>1. page = MaxPages + 1
    BY ConstantsAssumption DEF TypeOK, Pages
  <1>2. Len(site.pages) \in 0 .. MaxPages
    BY SiteLength DEF TypeOK
  <1>. QED BY <1>1, <1>2, ConstantsAssumption DEF Whole

LEMMA WholeOfPage == TypeOK => Whole(page) \in 0 .. MaxItems
  BY WholeType, PastTheLast, ConstantsAssumption

LEMMA RoomType ==
  ASSUME TypeOK, count < Wanted, NEW n \in Nat
  PROVE  /\ Room(n) \in 0 .. n
         /\ count + Room(n) \in 0 .. Wanted
         /\ count + Room(n) < Wanted => Room(n) = n
  BY ConstantsAssumption DEF TypeOK, Room

LEMMA ReadRoom ==
  ASSUME TypeOK, count < Wanted
  PROVE  /\ Room(Whole(page)) \in 0 .. MaxItems
         /\ Room(Whole(page)) <= Whole(page)
         /\ count + Room(Whole(page)) \in Nat
         /\ count + Room(Whole(page)) <= Wanted
         /\ count + Room(Whole(page)) < Wanted => Room(Whole(page)) = Whole(page)
  <1>1. Whole(page) \in Nat /\ Whole(page) <= MaxItems
    BY WholeOfPage, ConstantsAssumption
  <1>. QED BY <1>1, RoomType, ConstantsAssumption

-----------------------------------------------------------------------------
(* Browsers.                                                                *)

Working == IF place \in {"idle", "ended", "starting"} THEN 0 ELSE 1

SessionInv == sessions = lost + Working

LEMMA SessionStep == TypeOK /\ SessionInv /\ [Next]_vars => SessionInv'
  <1>. SUFFICES ASSUME TypeOK, SessionInv, [Next]_vars PROVE SessionInv'
    OBVIOUS
  <1>. USE DEF TypeOK, SessionInv, Working, browser
  <1>1. ASSUME NEW t \in Tasks, NEW s \in Sites, Begin(t, s) PROVE SessionInv'
    BY <1>1 DEF Begin
  <1>2. TryAgain => place' \in {"starting", "ended"}
    BY DEF TryAgain, End
  <1>3. CASE Start \/ StartFails
    BY <1>3, <1>2 DEF Start, StartFails, End
  <1>4. CASE Fail \/ Close \/ Return \/ Restart
    BY <1>4, <1>2 DEF Fail, Close, End, Return, Restart, Idle
  <1>5. CASE OpenUrl \/ CheckCaptcha
    BY <1>5 DEF OpenUrl, Open, Refresh, RefreshLoop, OpenFails, Opened, CheckCaptcha
  <1>6. CASE FindProducts \/ ScrapeReviews \/ ScrapeProductInfo
    BY <1>6 DEF FindProducts, FindNothing, ReadList, NoList, ScrapeReviews, Footer, ReadReviews,
                NoReviews, TurnPage, ScrapeProductInfo
  <1>7. CASE UNCHANGED vars
    BY <1>7 DEF vars
  <1>. QED BY <1>1, <1>3, <1>4, <1>5, <1>6, <1>7 DEF Next, Scrape

-----------------------------------------------------------------------------
(* Types.                                                                   *)

\* A page is listed for a product only, and only until enough was found.
WithinInv ==
    /\ task = "FIND_PRODUCT" => count <= Wanted
    /\ place \in {"opening", "listing"} /\ task = "FIND_PRODUCT" => count < Wanted
    /\ place = "idle" => count = 0 /\ tries = 0
    /\ place # "ended" => tries < Limit(task)
    /\ place = "listing" => task = "FIND_PRODUCT"
    /\ place \in {"entering", "reviewing", "paging"} => task = "GET_REVIEWS"
    /\ place = "describing" => task = "GET_PRODUCT_INFO"
    /\ place = "checking" => task # "FIND_PRODUCT"

TypeInv == TypeOK /\ WithinInv /\ SessionInv

LEMMA TypeInit == Init => TypeInv
  <1>. SUFFICES ASSUME Init PROVE TypeInv
    OBVIOUS
  <1>1. /\ bound \in BOOLEAN /\ dict \in BOOLEAN /\ blocked \in BOOLEAN /\ gaveUp \in BOOLEAN
    BY DEF Init
  <1>2. taken \in [Pages -> 0 .. MaxItems]
    BY ConstantsAssumption DEF Init
  <1>. QED BY <1>1, <1>2, NoSiteIsASite, ConstantsAssumption DEF Init, TypeInv, TypeOK, WithinInv,
        SessionInv, Working, Tasks, Limit

LEMMA FreshType ==
  ASSUME Fresh
  PROVE  /\ page' \in 1 .. MaxPages + 1 /\ shown' \in {"page", "captcha", "refused"}
         /\ taken' \in [Pages -> 0 .. MaxItems] /\ count' = 0
         /\ bound' \in BOOLEAN /\ dict' \in BOOLEAN /\ blocked' \in BOOLEAN
  <1>1. [p \in Pages |-> 0] \in [Pages -> 0 .. MaxItems]
    BY ConstantsAssumption
  <1>2. bound' \in BOOLEAN /\ dict' \in BOOLEAN /\ blocked' \in BOOLEAN
    BY DEF Fresh
  <1>3. 1 \in 1 .. MaxPages + 1
    BY ConstantsAssumption
  <1>. QED BY <1>1, <1>2, <1>3 DEF Fresh

LEMMA TypeStep == TypeInv /\ [Next]_vars => TypeInv'
  <1>. SUFFICES ASSUME TypeInv, [Next]_vars PROVE TypeOK' /\ WithinInv'
    BY SessionStep DEF TypeInv
  <1>t. TypeOK /\ WithinInv /\ Wanted \in Nat \ {0} /\ MaxPages \in Nat /\ MaxItems \in Nat
    BY ConstantsAssumption DEF TypeInv
  <1>. USE DEF TypeOK, attempt, request, browser, WithinInv
  <1>1. ASSUME NEW t \in Tasks, NEW s \in Sites, Begin(t, s) PROVE TypeOK' /\ WithinInv'
    BY <1>1, <1>t DEF Begin, Limit
  <1>s. place \in {"failing", "closing"} => sessions - 1 \in Nat
    BY DEF TypeInv, SessionInv, Working
  <1>2. CASE Start
    BY <1>2, <1>t, FreshType DEF Start
  <1>3. ASSUME TryAgain, place # "ended"
        PROVE  /\ tries' \in 0 .. 6 /\ place' \in {"starting", "ended"} /\ UNCHANGED <<task, site>>
               /\ outcome' \in {"none", "COMPLETED", "ERROR"} /\ gaveUp' \in BOOLEAN
               /\ place' = "starting" => tries' < Limit(task)
    <2>1. gaveUp' \in BOOLEAN
      BY <1>3, <1>t DEF TryAgain
    <2>2. tries + 1 \in 0 .. 6
      BY <1>3, <1>t DEF Limit
    <2>. QED BY <1>3, <1>t, <2>1, <2>2 DEF TryAgain, End
  <1>4. CASE StartFails
    BY <1>4, <1>t, <1>3 DEF StartFails, End
  <1>5. CASE Fail
    BY <1>5, <1>t, <1>s, <1>3 DEF Fail
  <1>6. CASE Close
    BY <1>6, <1>t, <1>s DEF Close, End
  <1>7. CASE Return \/ Restart
    <2>1. gaveUp' \in BOOLEAN
      BY <1>7 DEF Return, Restart, Idle
    <2>. QED BY <1>7, <1>t, <2>1, FreshType, NoSiteIsASite DEF Return, Restart, Idle, Tasks, Limit
  <1>8. CASE OpenUrl
    BY <1>8, <1>t DEF OpenUrl, Open, Refresh, RefreshLoop, OpenFails, Opened, KeepReading, TypeInv, Tasks
  <1>9. CASE CheckCaptcha
    BY <1>9, <1>t DEF CheckCaptcha, KeepReading, TypeInv, Tasks
  <1>10. CASE FindNothing
    BY <1>10, <1>t DEF FindNothing
  <1>11. CASE ReadList
    <2>1. /\ Room(Whole(page)) \in 0 .. MaxItems /\ count' \in Nat /\ count' <= Wanted
      BY <1>11, <1>t, ReadRoom DEF ReadList, Take
    <2>2. taken' \in [Pages -> 0 .. MaxItems]
      BY <1>11, <1>t, <2>1 DEF ReadList, Take
    <2>3. page' \in 1 .. MaxPages + 1
      BY <1>11, <1>t DEF ReadList, NextPage
    <2>4. bound' \in BOOLEAN
      BY <1>11, <1>t DEF ReadList
    <2>. QED BY <1>11, <1>t, <2>1, <2>2, <2>3, <2>4 DEF ReadList
  <1>12. CASE NoList
    <2>1. blocked' \in BOOLEAN
      BY <1>12 DEF NoList
    <2>. QED BY <1>12, <1>t, <2>1 DEF NoList
  <1>13. CASE Footer
    <2>1. blocked' \in BOOLEAN
      BY <1>13, <1>t DEF Footer
    <2>. QED BY <1>13, <1>t, <2>1 DEF Footer
  <1>14. CASE ReadReviews
    <2>1. Whole(page) \in 0 .. MaxItems /\ count' \in Nat
      BY <1>14, <1>t, WholeOfPage DEF ReadReviews, Take
    <2>2. taken' \in [Pages -> 0 .. MaxItems]
      BY <1>14, <1>t, <2>1 DEF ReadReviews, Take
    <2>. QED BY <1>14, <1>t, <2>1, <2>2 DEF ReadReviews
  <1>15. CASE NoReviews
    BY <1>15, <1>t DEF NoReviews
  <1>16. CASE TurnPage
    <2>1. page' \in 1 .. MaxPages + 1
      BY <1>16, <1>t DEF TurnPage, NextPage
    <2>. QED BY <1>16, <1>t, <2>1 DEF TurnPage
  <1>17. CASE ScrapeProductInfo
    <2>1. blocked' \in BOOLEAN
      BY <1>17 DEF ScrapeProductInfo
    <2>. QED BY <1>17, <1>t, <2>1 DEF ScrapeProductInfo
  <1>18. CASE UNCHANGED vars
    BY <1>18, <1>t DEF vars
  <1>. QED BY <1>1, <1>2, <1>4, <1>5, <1>6, <1>7, <1>8, <1>9, <1>10, <1>11, <1>12, <1>13,
              <1>14, <1>15, <1>16, <1>17, <1>18
          DEF Next, Scrape, FindProducts, ScrapeReviews

LEMMA TypeInvariant == Spec => []TypeInv
  BY TypeInit, TypeStep, PTL DEF Spec

\* Every reachable state has the declared types.
THEOREM TypeCorrect == Spec => []TypeOK
  <1>1. TypeInv => TypeOK
    BY DEF TypeInv
  <1>. QED BY <1>1, TypeInvariant, PTL

\* However an attempt ends, its browser is closed.
THEOREM BrowsersClosed == Spec => []SessionsClosed
  <1>1. TypeInv => SessionsClosed
    BY DEF TypeInv, TypeOK, SessionInv, Working, SessionsClosed
  <1>. QED BY <1>1, TypeInvariant, PTL
-----------------------------------------------------------------------------
(* What was read.                                                           *)

\* The pages before the n-th were read whole, and no other.
ReadUpTo(n) ==
    \A p \in Pages : /\ p < n => taken[p] = Whole(p)
                     /\ p >= n => taken[p] = 0

\* What was read is a beginning of the pages, whole ones but for the last.
Beginning ==
    \A p \in Pages : /\ taken[p] <= Whole(p)
                     /\ taken[p] > 0 => \A q \in 1 .. p - 1 : taken[q] = Whole(q)

OrderInv ==
    /\ Beginning
    /\ place = "idle" => ReadUpTo(1)
    /\ place \in {"opening", "listing", "checking", "entering", "reviewing"} => ReadUpTo(page)
    /\ place = "paging" => ReadUpTo(page + 1)
    /\ place \in {"opening", "checking", "entering"} /\ task # "FIND_PRODUCT" => page = 1
    /\ place \in {"reviewing", "paging"} => page \in 1 .. Len(site.pages)

LEMMA ReadIsBeginning == TypeOK /\ (\E n \in Nat : ReadUpTo(n)) => Beginning
  <1>. SUFFICES ASSUME TypeOK, NEW n \in Nat, ReadUpTo(n), NEW p \in Pages
                PROVE  /\ taken[p] <= Whole(p)
                       /\ taken[p] > 0 => \A q \in 1 .. p - 1 : taken[q] = Whole(q)
    BY DEF Beginning
  <1>1. Whole(p) \in 0 .. MaxItems
    BY WholeType
  <1>2. \A q \in 1 .. p - 1 : q \in Pages
    BY ConstantsAssumption DEF Pages
  <1>3. p \in Nat /\ Whole(p) \in Nat
    BY <1>1, ConstantsAssumption DEF Pages
  <1>4. CASE p < n
    <2>1. \A q \in 1 .. p - 1 : q < n
      BY <1>3, <1>4
    <2>. QED BY <1>2, <1>3, <1>4, <2>1 DEF ReadUpTo
  <1>5. CASE p >= n
    BY <1>3, <1>5 DEF ReadUpTo
  <1>. QED BY <1>3, <1>4, <1>5

\* A step that leaves the site and what was read of it.
LEMMA SameReading ==
  ASSUME UNCHANGED <<taken, site>>
  PROVE  /\ Beginning => Beginning'
         /\ \A n : ReadUpTo(n) => ReadUpTo(n)'
  BY DEF Beginning, ReadUpTo, Whole

\* Nothing is read yet.
LEMMA NothingRead == taken = [p \in Pages |-> 0] => ReadUpTo(1)
  BY DEF ReadUpTo, Pages

LEMMA OrderStep == TypeInv /\ OrderInv /\ [Next]_vars => OrderInv'
  <1>. SUFFICES ASSUME TypeInv, OrderInv, [Next]_vars PROVE OrderInv'
    OBVIOUS
  <1>t. TypeOK /\ TypeOK' /\ WithinInv /\ MaxPages \in Nat /\ page \in Nat
    BY TypeStep, ConstantsAssumption DEF TypeInv, TypeOK
  <1>p. \A p \in Pages : p \in Nat /\ Whole(p) \in Nat
    BY <1>t, WholeType, ConstantsAssumption DEF Pages
  <1>1. ASSUME NEW t \in Tasks, NEW s \in Sites, Begin(t, s) PROVE OrderInv'
    <2>1. \A p \in Pages : p >= 1 /\ taken[p] = 0
      <3>1. \A p \in Pages : p >= 1
        BY <1>t DEF Pages
      <3>. QED BY <1>1, <3>1 DEF Begin, OrderInv, ReadUpTo
    <2>2. ReadUpTo(1)'
      BY <1>1, <2>1 DEF Begin, ReadUpTo, attempt, Pages
    <2>3. Beginning'
      <3>1. (\E n \in Nat : ReadUpTo(n))'
        BY <2>2
      <3>. QED BY <3>1, <1>t, ReadIsBeginning, PTL
    <2>. QED BY <1>1, <2>3 DEF Begin, OrderInv
  <1>2. CASE Start \/ Return \/ Restart
    <2>1. taken' = [p \in Pages |-> 0] /\ page' = 1
      BY <1>2 DEF Start, Return, Restart, Idle, Fresh
    <2>2. ReadUpTo(1)'
      <3>1. (taken = [p \in Pages |-> 0])'
        BY <2>1 DEF Pages
      <3>. QED BY <3>1, NothingRead, PTL
    <2>3. Beginning'
      <3>1. (\E n \in Nat : ReadUpTo(n))'
        BY <2>2
      <3>. QED BY <3>1, <1>t, ReadIsBeginning, PTL
    <2>4. place' \in {"idle", "opening"}
      BY <1>2 DEF Start, Return, Restart, Idle
    <2>. QED BY <2>1, <2>2, <2>3, <2>4 DEF OrderInv
  <1>3. ASSUME UNCHANGED <<taken, site>>, place' \in {"starting", "ended", "failing", "closing", "describing"}
        PROVE  OrderInv'
    BY <1>3, SameReading DEF OrderInv
  <1>4. TryAgain => place' \in {"starting", "ended"} /\ UNCHANGED site
    BY DEF TryAgain, End
  <1>5. CASE StartFails \/ Fail \/ Close
    BY <1>3, <1>4, <1>5 DEF StartFails, Fail, Close, End, attempt
  <1>6. CASE OpenUrl \/ CheckCaptcha
    <2>1. UNCHANGED <<taken, site, page, task>>
      BY <1>6 DEF OpenUrl, Open, Refresh, RefreshLoop, OpenFails, CheckCaptcha, KeepReading,
                  request, attempt
    <2>2. place \in {"opening", "checking"} /\ place' \in {"listing", "checking", "entering", "describing", "failing"}
      BY <1>6 DEF OpenUrl, Open, Refresh, RefreshLoop, OpenFails, Opened, CheckCaptcha
    <2>. QED BY <2>1, <2>2, SameReading DEF OrderInv
  <1>7. CASE FindNothing \/ NoList \/ NoReviews \/ ScrapeProductInfo
    BY <1>3, <1>7 DEF FindNothing, NoList, NoReviews, ScrapeProductInfo, request
  <1>8. CASE ReadList
    <2>. DEFINE n == Room(Whole(page))
    <2>1. /\ n \in Nat /\ n <= Whole(page) /\ Whole(page) \in Nat
          /\ count + n < Wanted => n = Whole(page)
      BY <1>8, <1>t, ReadRoom, WholeOfPage, ConstantsAssumption DEF ReadList, WithinInv
    <2>2. /\ taken' = IF page \in Pages THEN [taken EXCEPT ![page] = n] ELSE taken
          /\ count' = count + n /\ UNCHANGED <<site, task>>
      BY <1>8 DEF ReadList, Take, request
    <2>. HIDE DEF n
    <2>3. \A p \in Pages : Whole(p)' = Whole(p)
      BY <2>2 DEF Whole
    <2>4. \A p \in Pages : taken'[p] = IF p = page THEN n ELSE taken[p]
      BY <1>t, <2>2 DEF TypeOK
    <2>5. \A p \in Pages : p < page => taken[p] = Whole(p)
      BY <1>8 DEF ReadList, OrderInv, ReadUpTo
    <2>6. \A p \in Pages : p >= page => taken[p] = 0
      BY <1>8 DEF ReadList, OrderInv, ReadUpTo
    <2>7. Beginning'
      <3>. SUFFICES ASSUME NEW p \in Pages
                    PROVE  /\ taken'[p] <= Whole(p)
                           /\ taken'[p] > 0 => \A q \in 1 .. p - 1 : taken'[q] = Whole(q)
        <4>1. \A p \in Pages : \A q \in 1 .. p - 1 : q \in Pages
          BY <1>t DEF Pages
        <4>. QED BY <2>3, <4>1 DEF Beginning, Pages
      <3>1. \A q \in 1 .. p - 1 : q \in Pages /\ q < p
        BY <1>t DEF Pages
      <3>2. CASE p < page
        BY <1>p, <1>t, <2>4, <2>5, <3>1, <3>2
      <3>3. CASE p = page
        BY <1>p, <1>t, <2>1, <2>4, <2>5, <3>1, <3>3
      <3>4. CASE p > page
        BY <1>p, <1>t, <2>4, <2>6, <3>4
      <3>. QED BY <1>p, <1>t, <3>2, <3>3, <3>4
    <2>8. CASE count' < Wanted
      <3>1. n = Whole(page)
        BY <2>1, <2>2, <2>8
      <3>2. page' = IF page <= MaxPages THEN page + 1 ELSE page
        BY <1>8 DEF ReadList, NextPage
      <3>3. ReadUpTo(page)'
        <4>. SUFFICES ASSUME NEW p \in Pages
                      PROVE  /\ p < page' => taken'[p] = Whole(p)
                             /\ p >= page' => taken'[p] = 0
          BY <2>3 DEF ReadUpTo, Pages
        <4>1. p < page' => p < page \/ p = page
          BY <1>p, <1>t, <3>2
        <4>2. p >= page' => p > page
          BY <1>p, <1>t, <3>2 DEF Pages
        <4>. QED BY <1>p, <1>t, <2>4, <2>5, <2>6, <3>1, <4>1, <4>2
      <3>4. place' = "opening" /\ task' = "FIND_PRODUCT"
        BY <1>8, <1>t, <2>2, <2>8 DEF ReadList, WithinInv
      <3>. QED BY <2>7, <3>3, <3>4 DEF OrderInv
    <2>9. CASE ~(count' < Wanted)
      BY <1>8, <2>7, <2>9 DEF ReadList, OrderInv
    <2>. QED BY <2>8, <2>9
  <1>9. CASE Footer
    <2>1. UNCHANGED <<taken, site, page>> /\ page = 1
      BY <1>9, <1>t DEF Footer, request, OrderInv, WithinInv
    <2>2. site.pages # <<>> => 1 \in 1 .. Len(site.pages)
      BY <1>t, SiteLength DEF TypeOK
    <2>3. place = "entering" /\ (place' = "closing" \/ (place' = "reviewing" /\ site.pages # <<>>))
      BY <1>9 DEF Footer
    <2>. QED BY <2>1, <2>2, <2>3, SameReading DEF OrderInv
  <1>10. CASE ReadReviews
    <2>1. /\ page \in 1 .. Len(site.pages) /\ Len(site.pages) \in 0 .. MaxPages /\ ReadUpTo(page)
      BY <1>10, <1>t, SiteLength DEF ReadReviews, OrderInv, TypeOK
    <2>2. page \in Pages
      BY <2>1, <1>t DEF Pages
    <2>3. taken' = [taken EXCEPT ![page] = Whole(page)] /\ UNCHANGED <<site, page>> /\ place' = "paging"
      BY <1>10, <2>2 DEF ReadReviews, Take, request
    <2>4. \A p \in Pages : taken'[p] = IF p = page THEN Whole(page) ELSE taken[p]
      BY <1>t, <2>2, <2>3 DEF TypeOK
    <2>5. ReadUpTo(page + 1)'
      <3>1. \A p \in Pages : Whole(p)' = Whole(p)
        BY <2>3 DEF Whole
      <3>. SUFFICES ASSUME NEW p \in Pages
                    PROVE  /\ p < page + 1 => taken'[p] = Whole(p)
                           /\ p >= page + 1 => taken'[p] = 0
        BY <2>3, <3>1 DEF ReadUpTo, Pages
      <3>2. (p < page + 1 => p < page \/ p = page) /\ (p >= page + 1 => p > page)
        BY <1>p, <1>t
      <3>. QED BY <1>p, <1>t, <2>1, <2>4, <3>2 DEF ReadUpTo
    <2>6. Beginning'
      <3>1. (\E n \in Nat : ReadUpTo(n))'
        BY <2>3, <2>5, <1>t
      <3>. QED BY <3>1, <1>t, ReadIsBeginning, PTL
    <2>. QED BY <2>1, <2>3, <2>5, <2>6 DEF OrderInv
  <1>11. CASE TurnPage
    <2>1. UNCHANGED <<taken, site>> /\ ReadUpTo(page + 1) /\ Len(site.pages) \in 0 .. MaxPages
      BY <1>11, <1>t, SiteLength DEF TurnPage, request, OrderInv, TypeOK
    <2>2. CASE page < Len(site.pages)
      <3>1. page' = page + 1 /\ place' = "reviewing" /\ page' \in 1 .. Len(site.pages)
        BY <1>11, <1>t, <2>1, <2>2 DEF TurnPage, NextPage
      <3>2. ReadUpTo(page)'
        BY <2>1, <3>1 DEF ReadUpTo, Whole
      <3>. QED BY <2>1, <3>1, <3>2, SameReading DEF OrderInv
    <2>3. CASE ~(page < Len(site.pages))
      BY <1>3, <1>11, <2>1, <2>3 DEF TurnPage
    <2>. QED BY <2>2, <2>3
  <1>12. CASE UNCHANGED vars
    BY <1>12, SameReading DEF vars, attempt, request, OrderInv
  <1>. QED BY <1>1, <1>2, <1>5, <1>6, <1>7, <1>8, <1>9, <1>10, <1>11, <1>12
          DEF Next, Scrape, FindProducts, ScrapeReviews

LEMMA OrderInvariant == Spec => [](TypeInv /\ OrderInv)
  <1>1. Init => OrderInv
    <2>. SUFFICES ASSUME Init PROVE OrderInv
      OBVIOUS
    <2>1. ReadUpTo(1)
      BY NothingRead DEF Init
    <2>2. Beginning
      BY <2>1, TypeInit, ReadIsBeginning DEF TypeInv
    <2>. QED BY <2>1, <2>2 DEF Init, OrderInv
  <1>. QED BY <1>1, TypeInit, TypeStep, OrderStep, PTL DEF Spec

\* The products of an attempt are the first of the site's, and no more than were
\* wanted; its reviews are those of the first pages, whole.
THEOREM ReadInOrder == Spec => []FoundInOrder
  <1>1. TypeInv /\ OrderInv => FoundInOrder
    BY DEF TypeInv, WithinInv, OrderInv, Beginning, FoundInOrder
  <1>. QED BY <1>1, OrderInvariant, PTL

-----------------------------------------------------------------------------
(* What was missed.                                                         *)

\* What was asked for was read, or all there is.
Complete ==
    /\ task = "FIND_PRODUCT" => count = Wanted \/ Exhausted
    /\ task = "GET_REVIEWS" => Exhausted
    /\ task = "GET_PRODUCT_INFO" => count = 1

\* An attempt that returns a list has read it all, unless it was shown something
\* else; so has a request that ends well at its last attempt.
CompleteInv ==
    /\ place = "closing" /\ ~blocked /\ ~dict => Complete
    /\ place = "ended" /\ outcome = "COMPLETED" /\ ~blocked /\ ~gaveUp => Complete

LEMMA AllRead ==
  ASSUME TypeOK, NEW n \in Nat, ReadUpTo(n), n > Len(site.pages)
  PROVE  Exhausted
  <1>. SUFFICES ASSUME NEW p \in Pages PROVE taken[p] = Whole(p)
    BY DEF Exhausted
  <1>1. p \in Nat /\ Len(site.pages) \in Nat
    BY SiteLength, ConstantsAssumption DEF TypeOK, Pages
  <1>2. CASE p < n
    BY <1>2 DEF ReadUpTo
  <1>3. CASE p >= n
    BY <1>1, <1>3, WholeType DEF ReadUpTo
  <1>. QED BY <1>1, <1>2, <1>3

LEMMA CompleteStep == TypeInv /\ OrderInv /\ CompleteInv /\ [Next]_vars => CompleteInv'
  <1>. SUFFICES ASSUME TypeInv, OrderInv, CompleteInv, [Next]_vars PROVE CompleteInv'
    OBVIOUS
  <1>t. TypeOK /\ WithinInv /\ page \in Nat /\ count \in Nat /\ Wanted \in Nat
    BY ConstantsAssumption DEF TypeInv, TypeOK
  <1>1. ASSUME UNCHANGED <<task, site, taken, count>> PROVE Complete' <=> Complete
    BY <1>1 DEF Complete, Exhausted, Whole
  <1>2. ASSUME place' \notin {"closing", "ended"} PROVE CompleteInv'
    BY <1>2 DEF CompleteInv
  <1>3. ASSUME NEW t \in Tasks, NEW s \in Sites, Begin(t, s) PROVE CompleteInv'
    BY <1>3, <1>2 DEF Begin
  <1>4. CASE Start \/ Return \/ Restart \/ CheckCaptcha \/ ReadReviews
    BY <1>4, <1>2 DEF Start, Return, Restart, Idle, CheckCaptcha, ReadReviews
  <1>5. CASE StartFails \/ Fail
    <2>1. place' = "ended" => outcome' = "ERROR" \/ gaveUp'
      BY <1>5 DEF StartFails, Fail, TryAgain, End
    <2>2. place' \in {"starting", "ended"}
      BY <1>5 DEF StartFails, Fail, TryAgain, End
    <2>. QED BY <2>1, <2>2 DEF CompleteInv
  <1>6. CASE Close
    <2>1. /\ place = "closing" /\ place' = "ended" /\ (outcome' = "COMPLETED" => ~dict)
          /\ UNCHANGED <<task, site, taken, count, blocked>>
      BY <1>6 DEF Close, End, attempt
    <2>. QED BY <2>1, <1>1 DEF CompleteInv
  <1>7. CASE OpenUrl
    BY <1>7, <1>2 DEF OpenUrl, Open, Refresh, RefreshLoop, OpenFails, Opened
  <1>8. CASE FindNothing
    <2>1. dict' = bound /\ place' = (IF bound THEN "closing" ELSE "failing")
      BY <1>8 DEF FindNothing
    <2>2. bound \in BOOLEAN
      BY <1>t DEF TypeOK
    <2>3. place' = "closing" => dict'
      BY <2>1, <2>2
    <2>4. place' \in {"closing", "failing"}
      BY <2>1
    <2>. QED BY <2>3, <2>4 DEF CompleteInv
  <1>9. CASE ReadList
    <2>1. count < Wanted /\ task = "FIND_PRODUCT"
      BY <1>9, <1>t DEF ReadList, WithinInv
    <2>2. count' = count + Room(Whole(page)) /\ task' = task
      BY <1>9 DEF ReadList, Take, request
    <2>3. count' \in Nat /\ count' <= Wanted
      BY <1>t, <2>1, <2>2, ReadRoom
    <2>4. place' = (IF count' < Wanted THEN "opening" ELSE "closing")
      BY <1>9 DEF ReadList
    <2>. QED BY <1>t, <2>1, <2>2, <2>3, <2>4 DEF CompleteInv, Complete
  <1>10. CASE NoList
    <2>1. /\ place = "listing" /\ place' = "closing" /\ UNCHANGED <<task, site, taken, count>>
          /\ ~blocked' => shown = "page" /\ ~HasList
      BY <1>10 DEF NoList, request
    <2>2. ASSUME ~blocked' PROVE Exhausted
      <3>1. ~(page <= Len(site.pages)) /\ Len(site.pages) \in Nat
        BY <2>1, <2>2, <1>t, SiteLength, ConstantsAssumption DEF HasList, TypeOK
      <3>2. ReadUpTo(page) /\ page > Len(site.pages)
        BY <1>t, <2>1, <3>1 DEF OrderInv
      <3>. QED BY <1>t, <3>2, AllRead
    <2>3. task = "FIND_PRODUCT"
      BY <1>t, <2>1 DEF WithinInv
    <2>. QED BY <1>1, <2>1, <2>2, <2>3 DEF CompleteInv, Complete
  <1>11. CASE Footer
    <2>1. place = "entering" /\ place' \in {"closing", "reviewing"} /\ UNCHANGED <<task, site, taken, count>>
      BY <1>11 DEF Footer, request
    <2>2. page = 1 /\ ReadUpTo(1) /\ task = "GET_REVIEWS"
      BY <1>t, <2>1 DEF OrderInv, WithinInv
    <2>3. ASSUME place' = "closing", ~blocked' PROVE Exhausted
      <3>1. Len(site.pages) = 0
        BY <1>11, <1>t, <2>3, SiteLength DEF Footer, TypeOK
      <3>. QED BY <1>t, <2>2, <3>1, AllRead
    <2>. QED BY <1>1, <2>1, <2>2, <2>3 DEF CompleteInv, Complete
  <1>12. CASE NoReviews
    BY <1>12 DEF NoReviews, CompleteInv
  <1>13. CASE TurnPage
    <2>1. /\ place = "paging" /\ place' \in {"closing", "reviewing"} /\ UNCHANGED <<task, site, taken, count>>
          /\ place' = "closing" => ~(page < Len(site.pages))
      BY <1>13 DEF TurnPage, request
    <2>2. ReadUpTo(page + 1) /\ task = "GET_REVIEWS" /\ Len(site.pages) \in Nat
      BY <1>t, <2>1, SiteLength, ConstantsAssumption DEF OrderInv, WithinInv, TypeOK
    <2>3. place' = "closing" => Exhausted
      BY <1>t, <2>1, <2>2, AllRead
    <2>. QED BY <1>1, <2>1, <2>2, <2>3 DEF CompleteInv, Complete
  <1>14. CASE ScrapeProductInfo
    <2>1. /\ place = "describing" /\ place' = "closing" /\ task' = task
          /\ ~blocked' => count' = 1
      BY <1>14 DEF ScrapeProductInfo, request
    <2>2. task = "GET_PRODUCT_INFO"
      BY <1>t, <2>1 DEF WithinInv
    <2>. QED BY <2>1, <2>2 DEF CompleteInv, Complete
  <1>15. CASE UNCHANGED vars
    BY <1>15, <1>1 DEF vars, attempt, request, CompleteInv
  <1>. QED BY <1>3, <1>4, <1>5, <1>6, <1>7, <1>8, <1>9, <1>10, <1>11, <1>12, <1>13, <1>14, <1>15
          DEF Next, Scrape, FindProducts, ScrapeReviews

\* A request that ends COMPLETED has what was asked for or all there is, unless
\* something else than a page was read or its attempts were used up.
THEOREM NothingMissed == Spec => []ShortWasCut
  <1>1. Init => CompleteInv
    BY DEF Init, CompleteInv
  <1>2. TypeInv /\ CompleteInv => ShortWasCut
    BY DEF TypeInv, TypeOK, Tasks, CompleteInv, Complete, ShortWasCut
  <1>. QED BY <1>1, <1>2, OrderInvariant, CompleteStep, PTL DEF Spec
=============================================================================
