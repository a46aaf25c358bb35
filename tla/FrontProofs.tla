----------------------------- MODULE FrontProofs -----------------------------
(***************************************************************************)
(* Theorems about ProductPage and LogViewer, for any requests, rows, days, *)
(* boxes and sizes of a page, any number of calls the pages wait for and   *)
(* any number of failures.                                                 *)
(***************************************************************************)
EXTENDS ProductPage, LogViewer, FiniteSetTheorems, TLAPS

-----------------------------------------------------------------------------
(* ProductPage: types.                                                     *)

LEMMA WithoutType ==
  ASSUME PageTypeOK, NEW i \in 1 .. Len(answers)
  PROVE  /\ Without(i) \in Seq(Views)
         /\ Len(Without(i)) = Len(answers) - 1
         /\ \A j \in 1 .. Len(answers) - 1 : Without(i)[j] = answers[IF j < i THEN j ELSE j + 1]
  <1>. DEFINE n == Len(answers)
  <1>1. answers \in Seq(Views) /\ n \in Nat /\ n - 1 \in Nat
    BY DEF PageTypeOK
  <1>2. \A j \in 1 .. n - 1 : answers[IF j < i THEN j ELSE j + 1] \in Views
    BY <1>1
  <1>3. Without(i) \in [1 .. n - 1 -> Views]
    BY <1>2 DEF Without
  <1>. QED BY <1>1, <1>3 DEF Without

LEMMA WithoutLast ==
  ASSUME PageTypeOK, NEW i \in 1 .. Len(answers), i < Len(answers)
  PROVE  Without(i)[Len(answers) - 1] = answers[Len(answers)]
  <1>. DEFINE n == Len(answers)
  <1>1. n \in Nat /\ n - 1 \in 1 .. n - 1 /\ ~(n - 1 < i) /\ n - 1 + 1 = n
    BY DEF PageTypeOK
  <1>2. Without(i)[n - 1] = answers[IF n - 1 < i THEN n - 1 ELSE n - 1 + 1]
    BY <1>1 DEF Without
  <1>. QED BY <1>1, <1>2

LEMMA PageTypeInit == PageInit => PageTypeOK
  <1>. SUFFICES ASSUME PageInit PROVE PageTypeOK
    OBVIOUS
  <1>1. events \in Seq(Requests) /\ answers \in Seq(Views) /\ Len(answers) = 0
    BY DEF PageInit
  <1>2. connected \in BOOLEAN /\ behind \in BOOLEAN
    BY DEF PageInit
  <1>3. status \in Views /\ view \in Views /\ listed \in BOOLEAN
    BY DEF PageInit, Views, Statuses
  <1>4. reading \in [BOOLEAN -> Nat] /\ asked \in Nat /\ changes \in Nat /\ faults \in Nat
    BY DEF PageInit
  <1>5. unheard \subseteq Requests /\ late \in 0 .. Len(answers)
    BY <1>1 DEF PageInit
  <1>6. stage \in [Requests -> {"none", "waiting", "begun", "running", "listed", "ended",
                               "failed", "over"}]
    BY DEF PageInit
  <1>. QED BY <1>1, <1>2, <1>3, <1>4, <1>5, <1>6 DEF PageTypeOK

LEMMA FoundType == ASSUME PageTypeOK, NEW l PROVE Found(l) \in Views
  <1>1. \A r \in Requests : (IF r \in Own \/ l THEN status[r] ELSE "absent") \in Statuses
    BY DEF PageTypeOK, Views, Statuses
  <1>. QED BY <1>1 DEF Found, Views

LEMMA ToldType == ASSUME NEW r \in Requests PROVE Told(r) \subseteq Requests /\ r \in Told(r)
  BY DEF Told

LEMMA PageTypeStep == PageTypeOK /\ [PageNext]_pageVars => PageTypeOK'
  <1>. SUFFICES ASSUME PageTypeOK, [PageNext]_pageVars PROVE PageTypeOK'
    OBVIOUS
  <1>s. Search \in Requests
    BY PageAssumption
  <1>. USE DEF PageTypeOK, database, held, budget
  <1>f. Failure => faults' \in Nat /\ changes' \in Nat
    BY DEF Failure
  <1>c. Change => faults' \in Nat /\ changes' \in Nat
    BY DEF Change
  <1>1. ASSUME NEW r \in Requests, Press(r) \/ Duplicate(r) \/ Make(r) PROVE PageTypeOK'
    BY <1>1 DEF Press, Duplicate, Make, Made, Quietly, Views, Statuses
  <1>2. ASSUME NEW r \in Requests, CancelRequest(r) \/ RemoveRequest(r) PROVE PageTypeOK'
    BY <1>2, <1>c DEF CancelRequest, RemoveRequest, Quietly, Views, Statuses
  <1>3. ASSUME NEW r \in Requests, Begin(r) \/ End(r) PROVE PageTypeOK'
    BY <1>3 DEF Begin, End, Update, Views, Statuses
  <1>4. ASSUME NEW r \in Requests, AnnounceAgain(r) PROVE PageTypeOK'
    BY <1>4, <1>f DEF AnnounceAgain, Update, Views, Statuses
  <1>5. ASSUME NEW r \in Requests, Announce(r) PROVE PageTypeOK'
    <2>1. events' \in Seq(Requests)
      <3>1. events' = Append(events, r)
        BY <1>5 DEF Announce
      <3>. QED BY <3>1
    <2>. QED BY <1>5, <2>1 DEF Announce
  <1>6. ASSUME NEW r \in Requests, AnnounceFails(r) PROVE PageTypeOK'
    BY <1>6, <1>f, ToldType DEF AnnounceFails
  <1>7. ASSUME NEW r \in Requests, ReplicaDies(r) PROVE PageTypeOK'
    BY <1>7, <1>f, ToldType DEF ReplicaDies
  <1>8. CASE List
    BY <1>8, <1>s DEF List
  <1>9. CASE Overwrite
    BY <1>9, <1>c DEF Overwrite
  <1>10. CASE Connect
    <2>1. connected' \in BOOLEAN
      BY <1>10 DEF Connect
    <2>. QED BY <1>10, <2>1 DEF Connect
  <1>11. CASE Disconnect
    <2>1. connected' \in BOOLEAN
      BY <1>11 DEF Disconnect
    <2>. QED BY <1>11, <1>f, <2>1 DEF Disconnect
  <1>12. CASE Deliver
    <2>1. events' \in Seq(Requests) /\ Head(events) \in Requests
      BY <1>12 DEF Deliver
    <2>2. asked' \in Nat /\ unheard' \subseteq Requests
      BY <1>12, <2>1, ToldType DEF Deliver
    <2>. QED BY <1>12, <2>1, <2>2 DEF Deliver
  <1>13. CASE ReadListed
    <2>1. asked' \in Nat /\ reading' \in [BOOLEAN -> Nat]
      BY <1>13 DEF ReadListed
    <2>. QED BY <1>13, <2>1 DEF ReadListed
  <1>14. ASSUME NEW l \in BOOLEAN, Serve(l) PROVE PageTypeOK'
    <2>1. answers' \in Seq(Views) /\ Len(answers') = Len(answers) + 1
      BY <1>14, FoundType DEF Serve
    <2>2. reading' \in [BOOLEAN -> Nat]
      BY <1>14 DEF Serve
    <2>. QED BY <1>14, <2>1, <2>2 DEF Serve
  <1>15. ASSUME NEW i \in 1 .. Len(answers), ShowRequests(i) PROVE PageTypeOK'
    <2>1. answers' \in Seq(Views) /\ Len(answers') = Len(answers) - 1
      BY <1>15, WithoutType DEF ShowRequests
    <2>2. late' \in 0 .. Len(answers')
      BY <1>15, <2>1 DEF ShowRequests
    <2>3. view' \in Views
      BY <1>15 DEF ShowRequests
    <2>4. behind' \in BOOLEAN
      BY <1>15 DEF ShowRequests
    <2>. QED BY <1>15, <2>1, <2>2, <2>3, <2>4 DEF ShowRequests
  <1>16. CASE AskFails
    <2>1. behind' \in BOOLEAN
      BY <1>16 DEF AskFails
    <2>2. late' \in 0 .. Len(answers')
      BY <1>16 DEF AskFails
    <2>3. CASE asked > 0 /\ asked' = asked - 1 /\ UNCHANGED reading
      <3>1. asked' \in Nat
        BY <2>3
      <3>. QED BY <1>16, <1>f, <2>1, <2>2, <2>3, <3>1 DEF AskFails
    <2>4. ASSUME NEW l \in BOOLEAN, reading[l] > 0, reading' = [reading EXCEPT ![l] = @ - 1],
                 UNCHANGED asked
          PROVE PageTypeOK'
      <3>1. reading[l] - 1 \in Nat
        BY <2>4
      <3>2. reading' \in [BOOLEAN -> Nat]
        BY <2>4, <3>1
      <3>. QED BY <1>16, <1>f, <2>1, <2>2, <2>4, <3>2 DEF AskFails
    <2>. QED BY <1>16, <2>3, <2>4 DEF AskFails
  <1>17. CASE UNCHANGED pageVars
    BY <1>17 DEF pageVars
  <1>. QED BY <1>1, <1>2, <1>3, <1>4, <1>5, <1>6, <1>7, <1>8, <1>9, <1>10, <1>11, <1>12, <1>13,
              <1>14, <1>15, <1>16, <1>17
          DEF PageNext, PageUser, Replica, Answering, ShowAnswer

\* Every reachable state has the declared types.
THEOREM PageTypeCorrect == PageSpec => []PageTypeOK
  BY PageTypeInit, PageTypeStep, PTL DEF PageSpec

-----------------------------------------------------------------------------
(* What the page shows.                                                     *)

\* Something on its way will bring a request up to date: a call that is not
\* answered yet, an event the page has not received, or one to be announced.
Coming(r) ==
    \/ asked > 0 \/ reading[TRUE] > 0 \/ reading[FALSE] > 0
    \/ \E i \in 1 .. Len(events) : r \in Told(events[i])
    \/ \E q \in Requests : Unannounced(q) /\ r \in Told(q)

Excused(r) == r \in unheard \/ Coming(r)

Recent(v) == \A r \in Requests : v[r] # Found(listed)[r] => Excused(r)

\* The newest of what the page shows and of the answers on their way to it is
\* recent: the last of the answers, if one is newer than the view.
RecentInv ==
    /\ late < Len(answers) => Recent(answers[Len(answers)])
    /\ late = Len(answers) /\ ~behind => Recent(view)

\* What is found in r changes with its status, or with the list if it is of a match.
LEMMA FoundSame ==
  ASSUME NEW r \in Requests, status'[r] = status[r], r \in Own \/ listed' = listed
  PROVE  Found(listed)'[r] = Found(listed)[r]
  BY DEF Found

\* Being told of a request lasts while the list does, and where an event of another
\* is none of this one.
LEMMA ToldSame == ASSUME NEW q, listed' = listed PROVE Told(q)' = Told(q)
  BY DEF Told

\* An excuse lasts in a step that takes away none.
LEMMA ComingKept ==
  ASSUME PageTypeOK, NEW r \in Requests, Coming(r),
         asked' = asked, reading' = reading,
         \A q \in Requests : r \in Told(q) => r \in Told(q)',
         events' = events \/ \E e \in Requests : events' = Append(events, e),
         \A q \in Requests : Unannounced(q) /\ r \in Told(q) =>
              Unannounced(q)' \/ events' = Append(events, q)
  PROVE  Coming(r)'
  <1>. USE DEF PageTypeOK
  <1>e. events \in Seq(Requests) /\ Len(events) \in Nat
    OBVIOUS
  <1>1. CASE asked > 0 \/ reading[TRUE] > 0 \/ reading[FALSE] > 0
    <2>1. asked' > 0 \/ reading'[TRUE] > 0 \/ reading'[FALSE] > 0
      BY <1>1
    <2>. QED BY <2>1 DEF Coming
  <1>2. ASSUME NEW i \in 1 .. Len(events), r \in Told(events[i]) PROVE Coming(r)'
    <2>1. i \in 1 .. Len(events') /\ events'[i] = events[i]
      <3>1. CASE events' = events
        BY <3>1
      <3>2. ASSUME NEW e \in Requests, events' = Append(events, e)
            PROVE  i \in 1 .. Len(events') /\ events'[i] = events[i]
        BY <1>e, <3>2
      <3>. QED BY <3>1, <3>2
    <2>2. events[i] \in Requests
      BY <1>e
    <2>. QED BY <1>2, <2>1, <2>2 DEF Coming
  <1>3. ASSUME NEW q \in Requests, Unannounced(q), r \in Told(q) PROVE Coming(r)'
    <2>1. r \in Told(q)'
      BY <1>3
    <2>2. CASE Unannounced(q)'
      BY <2>1, <2>2 DEF Coming
    <2>3. CASE events' = Append(events, q)
      <3>1. Len(events) + 1 \in 1 .. Len(events') /\ events'[Len(events) + 1] = q
        BY <1>e, <2>3
      <3>. QED BY <2>1, <3>1 DEF Coming
    <2>. QED BY <1>3, <2>2, <2>3
  <1>. QED BY <1>1, <1>2, <1>3 DEF Coming

LEMMA RecentKept ==
  ASSUME PageTypeOK, NEW v \in Views, Recent(v), [PageNext]_pageVars, ~Answering, ~AskFails,
         ~ShowAnswer
  PROVE  Recent(v)'
  <1>. SUFFICES ASSUME NEW r \in Requests, v[r] # Found(listed)'[r] PROVE Excused(r)'
    BY DEF Recent
  <1>. USE DEF PageTypeOK, database, held
  <1>s. Search \in Requests
    BY PageAssumption
  <1>1. ASSUME NEW q \in Requests, Quietly(q, status'[q]), UNCHANGED listed,
               \A z \in Requests : Unannounced(z)' <=> Unannounced(z)
        PROVE  Excused(r)'
    <2>1. CASE r = q
      BY <1>1, <2>1 DEF Quietly, Excused
    <2>2. CASE r # q
      <3>1. status'[r] = status[r]
        BY <1>1, <2>2 DEF Quietly, Views
      <3>2. Excused(r)
        BY <1>1, <3>1, FoundSame DEF Recent
      <3>3. Coming(r) => Coming(r)'
        BY <1>1, ComingKept, ToldSame DEF Quietly
      <3>. QED BY <1>1, <3>2, <3>3 DEF Excused, Quietly
    <2>. QED BY <2>1, <2>2
  <1>2. ASSUME NEW q \in Requests, NEW set, NEW place \in {"begun", "ended", "failed"}, NEW new,
               set \subseteq {"waiting", "running", "listed", "ended"}, Update(q, set, place, new)
        PROVE  Excused(r)'
    <2>1. Unannounced(q)' /\ q \in Told(q)'
      BY <1>2, ToldType DEF Update, Unannounced, Told
    <2>2. CASE r = q
      BY <2>1, <2>2 DEF Excused, Coming
    <2>3. CASE r # q
      <3>1. status'[r] = status[r] /\ UNCHANGED listed
        BY <1>2, <2>3 DEF Update, Views
      <3>2. Excused(r)
        BY <3>1, FoundSame DEF Recent
      <3>3. \A z \in Requests : Unannounced(z) => Unannounced(z)'
        BY <1>2 DEF Update, Unannounced
      <3>4. Coming(r) => Coming(r)'
        BY <1>2, <3>1, <3>3, ComingKept, ToldSame DEF Update
      <3>. QED BY <1>2, <3>2, <3>4 DEF Excused, Update
    <2>. QED BY <2>2, <2>3
  <1>3. ASSUME NEW q \in Requests, Announce(q) PROVE Excused(r)'
    <2>1. UNCHANGED <<listed, status, unheard, asked, reading>> /\ events' = Append(events, q)
      BY <1>3 DEF Announce
    <2>2. Excused(r)
      BY <2>1, FoundSame DEF Recent
    <2>3. \A z \in Requests : Unannounced(z) => Unannounced(z)' \/ z = q
      BY <1>3 DEF Announce, Unannounced
    <2>4. Coming(r) => Coming(r)'
      BY <2>1, <2>3, ComingKept, ToldSame
    <2>. QED BY <2>1, <2>2, <2>4 DEF Excused
  <1>4. ASSUME NEW q \in Requests, AnnounceFails(q) \/ ReplicaDies(q) PROVE Excused(r)'
    <2>1. UNCHANGED <<listed, status, events, asked, reading>> /\ unheard \subseteq unheard'
      BY <1>4 DEF AnnounceFails, ReplicaDies
    <2>2. Excused(r)
      BY <2>1, FoundSame DEF Recent
    <2>3. CASE Unannounced(q) /\ r \in Told(q)
      <3>1. r \in unheard'
        BY <1>4, <2>3 DEF AnnounceFails, ReplicaDies
      <3>. QED BY <3>1 DEF Excused
    <2>4. CASE ~(Unannounced(q) /\ r \in Told(q))
      <3>1. \A z \in Requests : z # q => (Unannounced(z)' <=> Unannounced(z))
        BY <1>4 DEF AnnounceFails, ReplicaDies, Unannounced
      <3>2. \A z \in Requests : Unannounced(z) /\ r \in Told(z) => Unannounced(z)'
        BY <2>4, <3>1
      <3>3. Coming(r) => Coming(r)'
        BY <2>1, <3>2, ComingKept, ToldSame
      <3>. QED BY <2>1, <2>2, <3>3 DEF Excused
    <2>. QED BY <2>3, <2>4
  <1>5. CASE List
    <2>1. listed' /\ stage'[Search] = "listed"
      BY <1>5, <1>s DEF List
    <2>2. CASE r \notin Own
      <3>1. r \in Told(Search)' /\ Unannounced(Search)'
        BY <2>1, <2>2 DEF Told, Unannounced
      <3>. QED BY <1>s, <3>1 DEF Excused, Coming
    <2>3. CASE r \in Own
      <3>1. UNCHANGED <<status, events, unheard, asked, reading>>
        BY <1>5 DEF List
      <3>2. Excused(r)
        BY <2>3, <3>1, FoundSame DEF Recent
      <3>3. \A z \in Requests : Unannounced(z) => Unannounced(z)'
        BY <1>5 DEF List, Unannounced
      <3>4. \A z \in Requests : r \in Told(z) => r \in Told(z)'
        BY <2>1 DEF Told
      <3>5. Coming(r) => Coming(r)'
        BY <3>1, <3>3, <3>4, ComingKept
      <3>. QED BY <3>1, <3>2, <3>5 DEF Excused
    <2>. QED BY <2>2, <2>3
  <1>6. CASE Overwrite
    <2>1. CASE r \notin Own
      BY <1>6, <2>1 DEF Overwrite, Excused
    <2>2. CASE r \in Own
      <3>1. UNCHANGED <<status, stage, events, asked, reading>> /\ unheard \subseteq unheard'
        BY <1>6 DEF Overwrite
      <3>2. Excused(r)
        BY <2>2, <3>1, FoundSame DEF Recent
      <3>3. \A z \in Requests : r \in Told(z) => r \in Told(z)'
        BY <2>2 DEF Told
      <3>4. \A z \in Requests : Unannounced(z) => Unannounced(z)'
        BY <3>1 DEF Unannounced
      <3>5. Coming(r) => Coming(r)'
        BY <3>1, <3>3, <3>4, ComingKept
      <3>. QED BY <3>1, <3>2, <3>5 DEF Excused
    <2>. QED BY <2>1, <2>2
  <1>7. CASE Deliver
    <2>0. UNCHANGED <<listed, status, stage, reading>>
      BY <1>7 DEF Deliver
    <2>1. Excused(r)
      BY <2>0, FoundSame DEF Recent
    <2>2. CASE connected
      <3>1. asked' > 0
        BY <1>7, <2>2 DEF Deliver
      <3>. QED BY <3>1 DEF Excused, Coming
    <2>3. CASE ~connected
      <3>1. events # <<>> /\ events' = Tail(events) /\ unheard' = unheard \cup Told(events[1])
        BY <1>7, <2>3 DEF Deliver
      <3>2. Len(events) \in Nat /\ Len(events') = Len(events) - 1
        BY <3>1
      <3>3. ASSUME NEW i \in 1 .. Len(events), i # 1
            PROVE  i - 1 \in 1 .. Len(events') /\ events'[i - 1] = events[i]
        <4>1. i - 1 \in 1 .. Len(events')
          BY <3>2, <3>3
        <4>2. events'[i - 1] = events[i - 1 + 1]
          BY <3>1, <3>2, <4>1
        <4>. QED BY <3>3, <4>1, <4>2
      <3>4. asked' = asked
        BY <1>7, <2>3 DEF Deliver
      <3>5. \A z : Told(z)' = Told(z) /\ Unannounced(z)' = Unannounced(z)
        BY <2>0 DEF Told, Unannounced
      <3>6. CASE r \in unheard \/ r \in Told(events[1])
        BY <3>1, <3>6 DEF Excused
      <3>7. CASE r \notin unheard /\ r \notin Told(events[1])
        <4>1. Coming(r)
          BY <2>1, <3>7 DEF Excused
        <4>2. Coming(r)'
          BY <2>0, <3>3, <3>4, <3>5, <3>7, <4>1 DEF Coming
        <4>. QED BY <4>2 DEF Excused
      <3>. QED BY <3>6, <3>7
    <2>. QED BY <2>2, <2>3
  <1>8. CASE ReadListed
    <2>0. reading' = [reading EXCEPT ![listed] = @ + 1] /\ reading \in [BOOLEAN -> Nat]
      BY <1>8 DEF ReadListed
    <2>1. reading'[TRUE] > 0 \/ reading'[FALSE] > 0
      <3>1. reading'[listed] = reading[listed] + 1 /\ reading[listed] \in Nat
        BY <2>0
      <3>2. reading'[listed] > 0
        BY <3>1
      <3>3. listed = TRUE \/ listed = FALSE
        OBVIOUS
      <3>. QED BY <3>2, <3>3
    <2>. QED BY <2>1 DEF Excused, Coming
  <1>9. CASE Connect \/ Disconnect \/ UNCHANGED pageVars
    <2>1. UNCHANGED <<listed, status, stage, events, unheard, asked, reading>>
      BY <1>9 DEF Connect, Disconnect, pageVars
    <2>2. Excused(r)
      BY <2>1, FoundSame DEF Recent
    <2>3. \A z \in Requests : Unannounced(z) => Unannounced(z)'
      BY <2>1 DEF Unannounced
    <2>4. Coming(r) => Coming(r)'
      BY <2>1, <2>3, ComingKept, ToldSame
    <2>. QED BY <2>1, <2>2, <2>4 DEF Excused
  <1>10. ASSUME NEW q \in Requests,
                Press(q) \/ Duplicate(q) \/ Make(q) \/ CancelRequest(q) \/ RemoveRequest(q)
         PROVE  Excused(r)'
    <2>1. Quietly(q, status'[q]) /\ UNCHANGED listed
      BY <1>10 DEF Press, Duplicate, Make, Made, CancelRequest, RemoveRequest, Quietly, Views
    <2>2. \A z \in Requests : Unannounced(z)' <=> Unannounced(z)
      BY <1>10 DEF Press, Duplicate, Make, Made, CancelRequest, RemoveRequest, Unannounced
    <2>. QED BY <1>1, <2>1, <2>2
  <1>11. ASSUME NEW q \in Requests, Begin(q) \/ End(q) \/ AnnounceAgain(q) PROVE Excused(r)'
    BY <1>2, <1>11 DEF Begin, End, AnnounceAgain
  <1>. QED
    BY <1>3, <1>4, <1>5, <1>6, <1>7, <1>8, <1>9, <1>10, <1>11 DEF PageNext, PageUser, Replica

LEMMA RecentStep == PageTypeOK /\ RecentInv /\ [PageNext]_pageVars => RecentInv'
  <1>. SUFFICES ASSUME PageTypeOK, RecentInv, [PageNext]_pageVars PROVE RecentInv'
    OBVIOUS
  <1>. USE DEF PageTypeOK, database, held
  <1>1. ASSUME NEW l \in BOOLEAN, Serve(l) PROVE RecentInv'
    <2>1. Len(answers') = Len(answers) + 1 /\ answers'[Len(answers) + 1] = Found(l)
      BY <1>1 DEF Serve
    <2>2. UNCHANGED <<status, listed, late>>
      BY <1>1 DEF Serve
    <2>3. \A r \in Requests : Found(l)[r] # Found(listed)[r] => r \in unheard'
      BY <1>1 DEF Serve, Found
    <2>4. Found(listed)' = Found(listed)
      BY <2>2 DEF Found
    <2>5. (Recent(answers[Len(answers)]))'
      BY <2>1, <2>3, <2>4 DEF Recent, Excused
    <2>. QED BY <2>1, <2>2, <2>5 DEF RecentInv
  <1>2. ASSUME NEW i \in 1 .. Len(answers), ShowRequests(i) PROVE RecentInv'
    <2>. DEFINE n == Len(answers)
    <2>0. answers' = Without(i)
      BY <1>2 DEF ShowRequests
    <2>1. n \in Nat /\ Len(answers') = n - 1
      BY <2>0, WithoutType
    <2>2. \A r : Excused(r)' <=> Excused(r)
      BY <1>2 DEF ShowRequests, Excused, Coming, Told, Unannounced
    <2>3. Found(listed)' = Found(listed)
      BY <1>2 DEF ShowRequests, Found
    <2>4. CASE i <= late
      <3>1. late' = late - 1 /\ behind'
        BY <1>2, <2>4 DEF ShowRequests
      <3>2. late < n => i < n
        BY <2>1, <2>4
      <3>3. late < n => answers'[n - 1] = answers[n]
        BY <2>0, <3>2, WithoutLast
      <3>. QED BY <2>1, <2>2, <2>3, <3>1, <3>3 DEF RecentInv, Recent
    <2>5. CASE ~(i <= late)
      <3>1. late' = i - 1 /\ view' = answers[i] /\ late < n
        BY <1>2, <2>1, <2>5 DEF ShowRequests
      <3>2. i < n => answers'[n - 1] = answers[n]
        BY <1>2, <2>1, WithoutLast DEF ShowRequests
      <3>3. Recent(answers[n])
        BY <3>1 DEF RecentInv
      <3>. QED BY <2>1, <2>2, <2>3, <3>1, <3>2, <3>3 DEF RecentInv, Recent
    <2>. QED BY <2>4, <2>5
  <1>3. CASE AskFails
    BY <1>3 DEF AskFails, RecentInv
  <1>4. ASSUME ~Answering, ~AskFails, ~ShowAnswer PROVE RecentInv'
    <2>a. UNCHANGED <<view, answers, late, behind>> \/ PageUser \/ Replica
      BY <1>4 DEF PageNext, Overwrite, Connect, Disconnect, Deliver, ReadListed, pageVars
    <2>b. PageUser => UNCHANGED <<view, answers, late, behind>>
      BY DEF PageUser, Press, Duplicate, Made, CancelRequest, RemoveRequest, Quietly
    <2>c. Replica => UNCHANGED <<view, answers, late, behind>>
      BY DEF Replica, Make, Made, Quietly, Begin, End, Update, Announce, AnnounceAgain,
             AnnounceFails, ReplicaDies, List
    <2>1. UNCHANGED <<view, answers, late, behind>>
      BY <2>a, <2>b, <2>c
    <2>2. late < Len(answers) => answers[Len(answers)] \in Views
      OBVIOUS
    <2>3. late < Len(answers) => Recent(answers[Len(answers)])'
      <3>. SUFFICES ASSUME late < Len(answers) PROVE Recent(answers[Len(answers)])'
        OBVIOUS
      <3>1. PICK v \in Views : v = answers[Len(answers)]
        BY <2>2
      <3>2. Recent(v)
        BY <3>1 DEF RecentInv
      <3>3. Recent(v)'
        BY <3>2, <1>4, RecentKept
      <3>. QED BY <3>1, <3>3, <2>1 DEF Recent
    <2>4. late = Len(answers) /\ ~behind => Recent(view)'
      <3>. SUFFICES ASSUME late = Len(answers), ~behind PROVE Recent(view)'
        OBVIOUS
      <3>1. PICK v \in Views : v = view
        OBVIOUS
      <3>2. Recent(v)
        BY <3>1 DEF RecentInv
      <3>3. Recent(v)'
        BY <3>2, <1>4, RecentKept
      <3>. QED BY <3>1, <3>3, <2>1 DEF Recent
    <2>. QED BY <2>1, <2>3, <2>4 DEF RecentInv
  <1>. QED BY <1>1, <1>2, <1>3, <1>4 DEF Answering, ShowAnswer

\* With nothing on its way the page shows the requests as findByProduct finds them,
\* but for those whose change no event tells and for an answer that came late or
\* failed, whatever order the answers of getRequests come in: a request announced
\* before its match was listed is shown after the end of the search.
THEOREM ShownFresh == PageSpec => []RequestsFresh
  <1>1. PageInit => RecentInv
    BY DEF PageInit, RecentInv, Recent, Excused, Coming
  <1>2. PageTypeOK /\ RecentInv => RequestsFresh
    <2>. SUFFICES ASSUME PageTypeOK, RecentInv, AtRest, ~behind, NEW r \in Requests,
                         view[r] # Found(listed)[r]
                  PROVE  r \in unheard
      BY DEF RequestsFresh
    <2>1. Len(events) = 0 /\ Len(answers) = 0
      BY DEF AtRest
    <2>2. ~Coming(r)
      BY <2>1 DEF AtRest, Coming
    <2>3. late = Len(answers)
      BY <2>1 DEF PageTypeOK
    <2>. QED BY <2>2, <2>3 DEF RecentInv, Recent, Excused
  <1>. QED BY <1>1, <1>2, PageTypeCorrect, RecentStep, PTL DEF PageSpec

-----------------------------------------------------------------------------
(* LogViewer: numbers, and the places of the rows that are kept.           *)

LEMMA Times ==
  ASSUME NEW a \in Nat, NEW b \in Nat, NEW r \in Nat \ {0}
  PROVE  /\ r * a \in Nat
         /\ a <= b => r * a <= r * b
         /\ a < b => r * a + r <= r * b
         /\ a * r = r * a
  OBVIOUS

LEMMA Quotient ==
  ASSUME NEW n \in Nat, NEW r \in Nat \ {0}
  PROVE  /\ n \div r \in Nat
         /\ r * (n \div r) <= n
         /\ n < r * (n \div r) + r
  OBVIOUS

LEMMA QuotientOnly ==
  ASSUME NEW n \in Nat, NEW r \in Nat \ {0}, NEW q \in Nat
  PROVE  n \div r = q <=> r * q <= n /\ n < r * q + r
  <1>. DEFINE d == n \div r
  <1>1. d \in Nat /\ r * d <= n /\ n < r * d + r
    BY Quotient
  <1>2. r * q \in Nat /\ r * d \in Nat
    BY <1>1, Times
  <1>3. q < d => r * q + r <= r * d
    BY <1>1, Times
  <1>4. d < q => r * d + r <= r * q
    BY <1>1, Times
  <1>. HIDE DEF d
  <1>5. d = q <=> r * q <= n /\ n < r * q + r
    BY <1>1, <1>2, <1>3, <1>4
  <1>. QED BY <1>5 DEF d

LEMMA QuotientMonotonic ==
  ASSUME NEW n \in Nat, NEW k \in Nat, NEW r \in Nat \ {0}, n <= k
  PROVE  n \div r <= k \div r
  <1>. DEFINE d == n \div r
              e == k \div r
  <1>1. d \in Nat /\ r * d <= n /\ e \in Nat /\ k < r * e + r
    BY Quotient
  <1>2. r * d \in Nat /\ r * e \in Nat /\ (e < d => r * e + r <= r * d)
    BY <1>1, Times
  <1>. HIDE DEF d, e
  <1>3. d <= e
    BY <1>1, <1>2
  <1>. QED BY <1>3 DEF d, e

Below(K, i) == {j \in K : j < i}

LEMMA RankBijection ==
  ASSUME NEW K \in SUBSET Nat, IsFiniteSet(K)
  PROVE  /\ \A i \in K : Cardinality(Below(K, i)) \in 0 .. Cardinality(K) - 1
         /\ \A i, j \in K : i < j => Cardinality(Below(K, i)) < Cardinality(Below(K, j))
         /\ [i \in K |-> Cardinality(Below(K, i))] \in Bijection(K, 0 .. Cardinality(K) - 1)
  <1>. DEFINE n == Cardinality(K)
              rank == [i \in K |-> Cardinality(Below(K, i))]
  <1>0. \A i \in K : i \in Nat
    OBVIOUS
  <1>1. n \in Nat
    BY FS_CardinalityType
  <1>2. ASSUME NEW i \in K
        PROVE  /\ Cardinality(Below(K, i)) \in Nat
               /\ IsFiniteSet(Below(K, i) \cup {i})
               /\ Cardinality(Below(K, i) \cup {i}) = Cardinality(Below(K, i)) + 1
    <2>1. Below(K, i) \in SUBSET K /\ i \notin Below(K, i)
      BY DEF Below
    <2>2. IsFiniteSet(Below(K, i))
      BY <2>1, FS_Subset
    <2>. QED BY <2>1, <2>2, FS_CardinalityType, FS_AddElement
  <1>3. ASSUME NEW i \in K PROVE Cardinality(Below(K, i)) \in 0 .. n - 1
    <2>1. Below(K, i) \cup {i} \in SUBSET K
      BY DEF Below
    <2>2. Cardinality(Below(K, i) \cup {i}) <= n
      BY <2>1, FS_Subset
    <2>. QED BY <1>1, <1>2, <2>2
  <1>4. ASSUME NEW i \in K, NEW j \in K, i < j
        PROVE  Cardinality(Below(K, i)) < Cardinality(Below(K, j))
    <2>1. Below(K, i) \cup {i} \in SUBSET Below(K, j)
      <3>1. \A k \in K : k < i => k < j
        BY <1>0, <1>4
      <3>. QED BY <1>4, <3>1 DEF Below
    <2>2. Below(K, j) \in SUBSET K
      BY DEF Below
    <2>3. IsFiniteSet(Below(K, j))
      BY <2>2, FS_Subset
    <2>4. Cardinality(Below(K, i) \cup {i}) <= Cardinality(Below(K, j))
      BY <2>1, <2>3, FS_Subset
    <2>5. Cardinality(Below(K, j)) \in Nat
      BY <1>2
    <2>. HIDE DEF n
    <2>. QED BY <1>2, <2>4, <2>5
  <1>5. rank \in Injection(K, 0 .. n - 1)
    <2>1. rank \in [K -> 0 .. n - 1]
      BY <1>3
    <2>2. ASSUME NEW i \in K, NEW j \in K, rank[i] = rank[j] PROVE i = j
      <3>. HIDE DEF n
      <3>1. /\ Cardinality(Below(K, i)) = Cardinality(Below(K, j))
            /\ Cardinality(Below(K, i)) \in Nat
        BY <1>2, <2>2
      <3>2. ~(i < j)
        BY <1>4, <3>1
      <3>3. ~(j < i)
        BY <1>4, <3>1
      <3>. QED BY <1>0, <3>2, <3>3
    <2>. QED BY <2>1, <2>2 DEF Injection, IsInjective
  <1>6. Cardinality(0 .. n - 1) = n /\ IsFiniteSet(0 .. n - 1)
    BY <1>1, FS_Interval
  <1>7. rank \in Surjection(K, 0 .. n - 1)
    <2>. HIDE DEF rank, n
    <2>1. Cardinality(K) = Cardinality(0 .. n - 1)
      BY <1>6 DEF n
    <2>. QED BY <1>5, <1>6, <2>1, FS_Injection
  <1>8. rank \in Bijection(K, 0 .. n - 1)
    BY <1>5, <1>7 DEF Bijection
  <1>. QED BY <1>3, <1>4, <1>8

LEMMA KeptPlaces ==
  ASSUME NEW S, NEW l \in Seq(S), NEW h
  PROVE  /\ Kept(l, h) \in SUBSET Nat
         /\ IsFiniteSet(Kept(l, h))
         /\ Cardinality(Kept(l, h)) \in Nat
  <1>1. DOMAIN l = 1 .. Len(l) /\ Len(l) \in Nat
    OBVIOUS
  <1>2. IsFiniteSet(1 .. Len(l))
    BY <1>1, FS_Interval
  <1>3. Kept(l, h) \in SUBSET (1 .. Len(l))
    BY <1>1 DEF Kept
  <1>. QED BY <1>1, <1>2, <1>3, FS_Subset, FS_CardinalityType

LEMMA PagesFilled ==
  ASSUME NEW S, NEW l \in Seq(S), NEW h
  PROVE  /\ Cardinality(Pages(l, h)) \in Nat
         /\ Pages(l, h) = 1 .. Cardinality(Pages(l, h))
         /\ \A i, j \in Kept(l, h) : i < j => PageOf(l, h, i) <= PageOf(l, h, j)
         /\ \A p \in 1 .. Cardinality(Pages(l, h)) :
                Cardinality({i \in Kept(l, h) : PageOf(l, h, i) = p}) =
                    IF p < Cardinality(Pages(l, h))
                    THEN RowsPerPage
                    ELSE Cardinality(Kept(l, h)) - (Cardinality(Pages(l, h)) - 1) * RowsPerPage
  <1>. DEFINE K == Kept(l, h)
              n == Cardinality(K)
              r == RowsPerPage
              rk(i) == Cardinality(Below(K, i))
              last == (n - 1) \div r
              m == IF n = 0 THEN 0 ELSE last + 1
              T(p) == {q \in 0 .. n - 1 : q \div r = p - 1}
              P(p) == {i \in K : PageOf(l, h, i) = p}
  <1>1. K \in SUBSET Nat /\ IsFiniteSet(K) /\ n \in Nat
    BY KeptPlaces
  <1>2. r \in Nat \ {0}
    BY ConstantsAssumption
  <1>3. /\ \A i \in K : rk(i) \in 0 .. n - 1
        /\ \A i, j \in K : i < j => rk(i) < rk(j)
        /\ [i \in K |-> rk(i)] \in Bijection(K, 0 .. n - 1)
    BY <1>1, RankBijection
  <1>4. \A q \in 0 .. n - 1 : \E i \in K : rk(i) = q
    BY <1>3 DEF Bijection, Surjection
  <1>5. \A i, j \in K : rk(i) = rk(j) => i = j
    BY <1>3 DEF Bijection, Injection, IsInjective
  <1>6. \A i : PageOf(l, h, i) = rk(i) \div r + 1
    BY DEF PageOf, Below
  <1>. HIDE DEF K, r
  <1>. HIDE DEF rk, n
  <1>7. n # 0 => last \in Nat /\ r * last \in Nat /\ r * last <= n - 1 /\ n - 1 < r * last + r
    BY <1>1, <1>2, Quotient, Times
  <1>8. \A q \in 0 .. n - 1 : q \in Nat /\ n # 0 /\ q \div r \in Nat /\ q \div r <= last
    <2>. TAKE q \in 0 .. n - 1
    <2>1. q \in Nat /\ n # 0 /\ n - 1 \in Nat /\ q <= n - 1
      BY <1>1
    <2>. QED BY <1>2, <2>1, Quotient, QuotientMonotonic
  <1>. HIDE DEF last
  <1>9. m \in Nat
    BY <1>7
  <1>10. \A i \in K : PageOf(l, h, i) \in 1 .. m
    <2>. TAKE i \in K
    <2>1. rk(i) \in 0 .. n - 1
      BY <1>3
    <2>. QED BY <1>6, <1>7, <1>8, <2>1
  <1>11. ASSUME NEW p \in 1 .. m
         PROVE  /\ p - 1 \in Nat /\ p - 1 <= last /\ n # 0
                /\ r * (p - 1) \in 0 .. n - 1
                /\ T(p) = IF p < m THEN r * (p - 1) .. r * (p - 1) + r - 1
                                   ELSE r * (p - 1) .. n - 1
    <2>1. p - 1 \in Nat /\ n # 0 /\ p - 1 <= last /\ last \in Nat
      BY <1>1, <1>7
    <2>2. r * (p - 1) \in Nat /\ r * (p - 1) <= r * last
      BY <1>2, <2>1, Times
    <2>3. r * (p - 1) \in 0 .. n - 1
      BY <1>1, <1>7, <2>1, <2>2
    <2>4. T(p) = {q \in 0 .. n - 1 : r * (p - 1) <= q /\ q < r * (p - 1) + r}
      <3>1. \A q \in 0 .. n - 1 : q \div r = p - 1 <=> r * (p - 1) <= q /\ q < r * (p - 1) + r
        BY <1>2, <1>8, <2>1, QuotientOnly
      <3>. QED BY <3>1
    <2>5. CASE p < m
      <3>1. p - 1 < last
        BY <2>1, <2>5
      <3>2. r * (p - 1) + r <= r * last
        BY <1>2, <2>1, <3>1, Times
      <3>3. r * (p - 1) + r <= n - 1
        BY <1>1, <1>2, <1>7, <2>1, <2>2, <3>2
      <3>. DEFINE a == r * (p - 1)
      <3>4. T(p) = a .. a + r - 1
        <4>. HIDE DEF T
        <4>1. T(p) = {q \in 0 .. n - 1 : a <= q /\ q < a + r}
          BY <2>4
        <4>2. a \in Nat /\ a + r <= n - 1
          BY <2>2, <3>3
        <4>. HIDE DEF a
        <4>. QED BY <1>1, <1>2, <4>1, <4>2
      <3>. QED BY <2>1, <2>3, <2>5, <3>4
    <2>6. CASE p = m
      <3>1. p - 1 = last
        BY <2>1, <2>6
      <3>. DEFINE a == r * (p - 1)
      <3>2. T(p) = a .. n - 1
        <4>. HIDE DEF T
        <4>1. T(p) = {q \in 0 .. n - 1 : a <= q /\ q < a + r}
          BY <2>4
        <4>2. a \in Nat /\ n - 1 < a + r
          BY <1>7, <2>1, <2>2, <3>1
        <4>. HIDE DEF a
        <4>. QED BY <1>1, <1>2, <4>1, <4>2
      <3>. QED BY <1>9, <2>1, <2>3, <2>6, <3>2
    <2>. QED BY <1>9, <2>1, <2>3, <2>5, <2>6
  <1>12. ASSUME NEW p \in 1 .. m PROVE \E i \in K : PageOf(l, h, i) = p
    <2>1. PICK i \in K : rk(i) = r * (p - 1)
      BY <1>4, <1>11
    <2>2. r * (p - 1) \in T(p)
      BY <1>2, <1>11, <1>1
    <2>. QED BY <1>6, <2>1, <2>2
  <1>13. Pages(l, h) = 1 .. m
    BY <1>10, <1>12 DEF Pages, K
  <1>14. Cardinality(Pages(l, h)) = m
    BY <1>9, <1>13, FS_Interval
  <1>15. \A i, j \in K : i < j => PageOf(l, h, i) <= PageOf(l, h, j)
    <2>1. ASSUME NEW i \in K, NEW j \in K, i < j PROVE PageOf(l, h, i) <= PageOf(l, h, j)
      <3>1. rk(i) < rk(j) /\ rk(i) \in 0 .. n - 1 /\ rk(j) \in 0 .. n - 1
        BY <1>3, <2>1
      <3>2. rk(i) \in Nat /\ rk(j) \in Nat /\ rk(i) <= rk(j)
        BY <3>1
      <3>3. rk(i) \div r <= rk(j) \div r /\ rk(i) \div r \in Nat /\ rk(j) \div r \in Nat
        BY <1>2, <3>2, QuotientMonotonic, Quotient
      <3>. QED BY <1>6, <3>3
    <2>. QED BY <2>1
  <1>16. ASSUME NEW p \in 1 .. m PROVE Cardinality(P(p)) = Cardinality(T(p))
    <2>. DEFINE g == [i \in P(p) |-> rk(i)]
    <2>1. \A i \in K : i \in P(p) <=> rk(i) \in T(p)
      <3>. TAKE i \in K
      <3>1. rk(i) \in 0 .. n - 1 /\ rk(i) \div r \in Nat
        BY <1>3, <1>8
      <3>. QED BY <1>6, <3>1
    <2>2. g \in [P(p) -> T(p)]
      BY <2>1
    <2>3. \A q \in T(p) : \E i \in P(p) : g[i] = q
      BY <1>4, <2>1
    <2>4. \A i, j \in P(p) : g[i] = g[j] => i = j
      BY <1>5
    <2>5. g \in Bijection(P(p), T(p))
      BY <2>2, <2>3, <2>4 DEF Bijection, Injection, IsInjective, Surjection
    <2>6. IsFiniteSet(P(p))
      BY <1>1, FS_Subset
    <2>. HIDE DEF P, T
    <2>. QED BY <2>5, <2>6, FS_Bijection DEF ExistsBijection
  <1>17. ASSUME NEW p \in 1 .. m
         PROVE  Cardinality(P(p)) = IF p < m THEN r ELSE n - (m - 1) * r
    <2>. DEFINE a == r * (p - 1)
    <2>1. a \in 0 .. n - 1 /\ p - 1 \in Nat
      BY <1>11
    <2>2. T(p) = IF p < m THEN a .. a + r - 1 ELSE a .. n - 1
      BY <1>11
    <2>3. (p - 1) * r = a
      BY <1>2, <2>1, Times
    <2>. HIDE DEF a, T
    <2>4. CASE p < m
      <3>1. Cardinality(T(p)) = r
        BY <1>2, <2>1, <2>2, <2>4, FS_Interval
      <3>. QED BY <1>16, <2>4, <3>1
    <2>5. CASE p = m
      <3>1. Cardinality(T(p)) = n - a
        BY <1>1, <2>1, <2>2, <2>5, FS_Interval
      <3>. QED BY <1>9, <1>16, <2>3, <2>5, <3>1
    <2>. QED BY <1>9, <2>4, <2>5
  <1>. HIDE DEF m
  <1>. QED BY <1>9, <1>13, <1>14, <1>15, <1>17 DEF K, n, r

-----------------------------------------------------------------------------
(* LogViewer: the inductive invariant.                                     *)

\* The rows printLog prints, and those of a call.
Logged == {row \in Rows : row.request = "null"}
Plain  == Logged \cup {Blank}

\* The rows of every call begin with the text in place of the scrapper's logs.
RowTypes ==
    /\ TypeOK
    /\ files \in [Days -> Seq(Logged)]
    /\ logs \in Seq(Plain)
    /\ \A i \in DOMAIN calls : /\ calls[i].rows \in Seq(Plain)
                               /\ Blank \in Range(calls[i].rows)

\* The rows of a file, and of the files of the days, are in the order of printing.
FilesInOrder ==
    /\ \A d \in Days : \A row \in Range(files[d]) : d <= today /\ row.id \in 1 .. printed
    /\ \A d \in Days : \A i, j \in DOMAIN files[d] : i < j => files[d][i].id < files[d][j].id
    /\ \A d, e \in Days : \A row \in Range(files[d]), other \in Range(files[e]) :
           d < e => row.id < other.id

Increasing(rows) ==
    \A i, j \in DOMAIN rows :
        i < j /\ Blank \notin {rows[i], rows[j]} => rows[i].id < rows[j].id

\* The call is for the dates picked, and has what it should of the days it has read.
CallCovers(c, n) ==
    /\ c.from = from /\ c.to = to
    /\ c.day = from \/ c.day \in from .. to + 1
    /\ Covers(Range(c.rows), from, c.day - 1, n)
    /\ Increasing(c.rows)

LastCall ==
    awaited # None =>
        Len(calls) > 0 /\ awaited <= printed /\ CallCovers(calls[Len(calls)], awaited)

\* RangeShown, with what keeps a row printed later from being one of the call's: a bound,
\* and a last day.
LastShown == RangeShown /\ (fresh # None => fresh <= printed /\ to \in Days)

\* Before the first answer, and after the page is loaded again, the page is the first.
\* A page that is not there was there when it was picked.
PagePicked ==
    /\ logs = <<>> => page = 1
    /\ logs # <<>> => Blank \in Range(logs)
    /\ page > Cardinality(Pages(logs, hidden)) => narrowed \/ logs = <<>>

-----------------------------------------------------------------------------
(* LogViewer: sequences.                                                   *)

\* A place of a joined sequence is a place of one of the two.
LEMMA JoinedAt ==
  ASSUME NEW S, NEW s \in Seq(S), NEW t \in Seq(S), NEW i \in 1 .. Len(s) + Len(t)
  PROVE  (s \o t)[i] = IF i <= Len(s) THEN s[i] ELSE t[i - Len(s)]
  OBVIOUS

LEMMA Removal ==
  ASSUME NEW S, NEW s \in Seq(S), NEW i \in DOMAIN s
  PROVE  /\ RemoveAt(s, i) \in Seq(S)
         /\ Len(RemoveAt(s, i)) = Len(s) - 1
         /\ \A j \in 1 .. Len(s) - 1 : RemoveAt(s, i)[j] = s[IF j < i THEN j ELSE j + 1]
  <1>1. i \in 1 .. Len(s) /\ Len(s) \in Nat /\ i - 1 \in Nat
    OBVIOUS
  <1>. DEFINE a == SubSeq(s, 1, i - 1)
              b == SubSeq(s, i + 1, Len(s))
  <1>2. a \in Seq(S) /\ Len(a) = i - 1 /\ \A j \in 1 .. i - 1 : a[j] = s[j]
    BY <1>1
  <1>3. b \in Seq(S) /\ Len(b) = Len(s) - i /\ \A j \in 1 .. Len(s) - i : b[j] = s[i + j]
    BY <1>1
  <1>4. RemoveAt(s, i) = a \o b
    BY DEF RemoveAt
  <1>. HIDE DEF a, b
  <1>5. a \o b \in Seq(S) /\ Len(a \o b) = Len(s) - 1
    BY <1>1, <1>2, <1>3
  <1>6. ASSUME NEW j \in 1 .. Len(s) - 1 PROVE (a \o b)[j] = s[IF j < i THEN j ELSE j + 1]
    <2>1. CASE j < i
      BY <1>1, <1>2, <1>3, <2>1
    <2>2. CASE ~(j < i)
      <3>1. (a \o b)[j] = b[j - (i - 1)]
        <4>1. j \in 1 .. Len(a) + Len(b) /\ ~(j <= Len(a))
          BY <1>1, <1>2, <1>3, <2>2
        <4>2. (a \o b)[j] = b[j - Len(a)]
          BY <1>2, <1>3, <4>1, JoinedAt
        <4>. QED BY <1>2, <4>2
      <3>2. j - (i - 1) \in 1 .. Len(s) - i /\ i + (j - (i - 1)) = j + 1
        BY <1>1, <2>2
      <3>. QED BY <1>3, <2>2, <3>1, <3>2
    <2>. QED BY <2>1, <2>2
  <1>. QED BY <1>4, <1>5, <1>6

LEMMA Joined ==
  ASSUME NEW S, NEW s \in Seq(S), NEW t \in Seq(S)
  PROVE  /\ s \o t \in Seq(S)
         /\ Range(s \o t) = Range(s) \cup Range(t)
  <1>1. /\ Len(s) \in Nat /\ DOMAIN s = 1 .. Len(s)
        /\ Len(t) \in Nat /\ DOMAIN t = 1 .. Len(t)
        /\ s \o t \in Seq(S) /\ DOMAIN (s \o t) = 1 .. Len(s) + Len(t)
    OBVIOUS
  <1>2. \A i \in 1 .. Len(s) : i \in 1 .. Len(s) + Len(t) /\ (s \o t)[i] = s[i]
    BY <1>1
  <1>3. \A i \in 1 .. Len(t) : Len(s) + i \in 1 .. Len(s) + Len(t) /\ (s \o t)[Len(s) + i] = t[i]
    BY <1>1
  <1>4. ASSUME NEW i \in 1 .. Len(s) + Len(t), i \notin 1 .. Len(s)
        PROVE  i - Len(s) \in 1 .. Len(t) /\ (s \o t)[i] = t[i - Len(s)]
    <2>1. i - Len(s) \in 1 .. Len(t) /\ Len(s) + (i - Len(s)) = i
      BY <1>1, <1>4
    <2>. QED BY <1>3, <2>1
  <1>5. ASSUME NEW x \in Range(s \o t) PROVE x \in Range(s) \cup Range(t)
    <2>1. PICK i \in 1 .. Len(s) + Len(t) : x = (s \o t)[i]
      BY <1>1 DEF Range
    <2>2. CASE i \in 1 .. Len(s)
      BY <1>1, <1>2, <2>1, <2>2 DEF Range
    <2>3. CASE i \notin 1 .. Len(s)
      BY <1>1, <1>4, <2>1, <2>3 DEF Range
    <2>. QED BY <2>2, <2>3
  <1>6. ASSUME NEW x \in Range(s) PROVE x \in Range(s \o t)
    BY <1>1, <1>2, <1>6 DEF Range
  <1>7. ASSUME NEW x \in Range(t) PROVE x \in Range(s \o t)
    BY <1>1, <1>3, <1>7 DEF Range
  <1>. QED BY <1>1, <1>5, <1>6, <1>7

LEMMA Appended ==
  ASSUME NEW S, NEW s \in Seq(S), NEW x \in S
  PROVE  /\ Append(s, x) \in Seq(S)
         /\ DOMAIN Append(s, x) = 1 .. Len(s) + 1
         /\ Range(Append(s, x)) = Range(s) \cup {x}
         /\ \A i \in DOMAIN s : Append(s, x)[i] = s[i]
         /\ Append(s, x)[Len(s) + 1] = x
  <1>1. /\ Len(s) \in Nat /\ DOMAIN s = 1 .. Len(s)
        /\ Append(s, x) \in Seq(S) /\ DOMAIN Append(s, x) = 1 .. Len(s) + 1
    OBVIOUS
  <1>2. \A i \in 1 .. Len(s) : Append(s, x)[i] = s[i] /\ i \in 1 .. Len(s) + 1
    BY <1>1
  <1>3. Append(s, x)[Len(s) + 1] = x /\ Len(s) + 1 \in 1 .. Len(s) + 1
    BY <1>1
  <1>4. \A i \in 1 .. Len(s) + 1 : i \in 1 .. Len(s) \/ i = Len(s) + 1
    BY <1>1
  <1>. QED BY <1>1, <1>2, <1>3, <1>4 DEF Range

-----------------------------------------------------------------------------
(* LogViewer: types.                                                       *)

CallRecords == [from : Dates, to : Dates, day : Dates, rows : Seq(Rows)]

LEMMA Constants ==
  /\ MaxDay \in Nat \ {0} /\ RowsPerPage \in Nat \ {0} /\ MaxRows \in Nat
  /\ MaxCalls \in Nat /\ MaxFailures \in Nat /\ MaxChoices \in Nat
  /\ 1 \in Days /\ \A d \in Days : d \in Nat /\ d >= 1 /\ d <= MaxDay
  <1>1. MaxDay \in Nat \ {0} /\ RowsPerPage \in Nat \ {0}
    BY ConstantsAssumption
  <1>2. MaxRows \in Nat /\ MaxCalls \in Nat /\ MaxFailures \in Nat /\ MaxChoices \in Nat
    BY ConstantsAssumption
  <1>. QED BY <1>1, <1>2 DEF Days

LEMMA DateRange ==
  /\ Dates = 1 .. MaxDay + 1 /\ NoDate = MaxDay + 1
  /\ \A d \in Dates : d \in Nat /\ d >= 1
  /\ \A d \in Days : d \in Dates /\ d + 1 \in Dates
  BY Constants DEF Days, Dates, NoDate

LEMMA RowKinds ==
  /\ Blank \in Rows /\ Blank \in Plain /\ Blank \notin Logged
  /\ Blank.id = 0 /\ Blank.type = None /\ Blank.origin = None
  /\ \A row \in Plain : row \in Rows /\ (row = Blank \/ row \in Logged)
  /\ \A row \in Logged : /\ row \in Rows /\ row \in Plain /\ row # Blank
                         /\ row.id \in 1 .. MaxRows /\ row.request = "null"
                         /\ Key(row) = "null"
  /\ \A k \in Kinds, n \in 1 .. MaxRows : Row(n, k) \in Logged /\ Row(n, k).id = n
  <1>1. None # "null" /\ None # "None"
    BY ConstantsAssumption
  <1>2. Blank \in Rows /\ Blank.request = None /\ Blank.id = 0 /\ Blank.type = None /\ Blank.origin = None
    BY DEF Rows, Blank
  <1>3. \A row \in Logged : row # Blank /\ row \in Rows /\ row.request = "null"
    BY <1>1, <1>2 DEF Logged
  <1>4. \A row \in Logged : row.id \in 1 .. MaxRows
    BY <1>3 DEF Rows
  <1>5. \A row \in Logged : Key(row) = "null"
    BY <1>1, <1>3 DEF Key
  <1>6. \A k \in Kinds, n \in 1 .. MaxRows : Row(n, k) \in Logged /\ Row(n, k).id = n
    BY DEF Row, Logged, Rows
  <1>. QED BY <1>2, <1>3, <1>4, <1>5, <1>6 DEF Plain, Logged

LEMMA RowSeqs ==
  /\ \A s \in Seq(Logged) : s \in Seq(Plain) /\ s \in Seq(Rows)
  /\ \A s \in Seq(Plain) : s \in Seq(Rows)
  BY RowKinds

\* Sorting loses no row, and puts no log in two places.
LEMMA Sorting ==
  ASSUME NEW s \in Seq(Plain), Blank \in Range(s), NEW l \in Sorted(s)
  PROVE  /\ l \in Seq(Plain) /\ Range(l) = Range(s)
         /\ \A i, j \in DOMAIN l : l[i] = l[j] /\ l[i] # Blank => i = j
  <1>. DEFINE D == DOMAIN s
              R == Range(s) \ {Blank}
  <1>1. Len(s) \in Nat /\ D = 1 .. Len(s) /\ s \in [D -> Plain]
    OBVIOUS
  <1>2. Range(s) \subseteq Plain /\ s \in Surjection(D, Range(s))
    BY <1>1 DEF Range, Surjection
  <1>3. PICK place \in Injection(R, D) :
            l = [i \in D |-> IF i \in Range(place)
                             THEN CHOOSE row \in DOMAIN place : place[row] = i ELSE Blank]
    BY DEF Sorted
  <1>4. /\ place \in [R -> D] /\ DOMAIN place = R
        /\ \A row, other \in R : place[row] = place[other] => row = other
        /\ \A i : i \in Range(place) <=> \E row \in R : place[row] = i
    BY <1>3 DEF Injection, IsInjective, Range
  <1>. HIDE DEF R
  <1>5. \A row \in R : place[row] \in D /\ l[place[row]] = row
    BY <1>3, <1>4
  <1>6. \A i \in D : i \notin Range(place) => l[i] = Blank
    BY <1>3
  <1>7. \A i \in D : l[i] = Blank \/ (l[i] \in R /\ place[l[i]] = i)
    BY <1>4, <1>5, <1>6
  <1>8. \E i \in D : i \notin Range(place)
    <2>. SUFFICES ASSUME D \subseteq Range(place) PROVE FALSE
      OBVIOUS
    <2>1. IsFiniteSet(D)
      <3>1. IsFiniteSet(1 .. Len(s))
        BY <1>1, FS_Interval
      <3>. QED BY <1>1, <3>1
    <2>2. place \in Surjection(R, D)
      BY <1>4 DEF Surjection
    <2>3. Cardinality(R) = Cardinality(D)
      BY <1>3, <2>1, <2>2, FS_Injection
    <2>4. IsFiniteSet(Range(s)) /\ Cardinality(Range(s)) <= Cardinality(D)
      BY <1>2, <2>1, FS_Surjection
    <2>5. Cardinality(R) = Cardinality(Range(s)) - 1
      BY <2>4, FS_RemoveElement DEF R
    <2>6. Cardinality(Range(s)) \in Nat
      BY <2>4, FS_CardinalityType
    <2>. QED BY <2>3, <2>4, <2>5, <2>6
  <1>9. DOMAIN l = D
    BY <1>3
  <1>10. \A row : row \in Range(s) <=> row = Blank \/ row \in R
    BY DEF R
  <1>11. Range(l) = Range(s)
    <2>1. ASSUME NEW row \in Range(l) PROVE row \in Range(s)
      BY <1>7, <1>9, <1>10, <2>1 DEF Range
    <2>2. ASSUME NEW row \in R PROVE row \in Range(l)
      BY <1>5, <1>9, <2>2 DEF Range
    <2>3. Blank \in Range(l)
      BY <1>6, <1>8, <1>9 DEF Range
    <2>. QED BY <1>10, <2>1, <2>2, <2>3
  <1>12. l \in Seq(Plain)
    <2>1. \A i \in D : l[i] \in Plain
      BY <1>2, <1>9, <1>11 DEF Range
    <2>2. l \in [1 .. Len(s) -> Plain]
      BY <1>1, <1>3, <2>1
    <2>. QED BY <1>1, <2>2
  <1>13. ASSUME NEW i \in D, NEW j \in D, l[i] = l[j], l[i] # Blank PROVE i = j
    BY <1>7, <1>13
  <1>. QED BY <1>9, <1>11, <1>12, <1>13

LEMMA FileRowsType ==
  ASSUME NEW d \in Days, files \in [Days -> Seq(Logged)]
  PROVE  /\ FileRows(d) \in Seq(Plain)
         /\ files[d] \in Seq(Logged) /\ files[d] \in Seq(Plain)
         /\ Range(FileRows(d)) \subseteq Range(files[d]) \cup {Blank}
         /\ Range(files[d]) \subseteq Range(FileRows(d))
  <1>1. files[d] \in Seq(Logged) /\ files[d] \in Seq(Plain)
    BY RowSeqs
  <1>2. CASE files[d] = <<>>
    BY <1>1, <1>2 DEF FileRows, Range
  <1>3. CASE files[d] # <<>>
    <2>1. FileRows(d) = Append(files[d], Blank)
      BY <1>3 DEF FileRows
    <2>2. /\ Append(files[d], Blank) \in Seq(Plain)
          /\ Range(Append(files[d], Blank)) = Range(files[d]) \cup {Blank}
      BY <1>1, Appended, RowKinds
    <2>. QED BY <1>1, <2>1, <2>2
  <1>. QED BY <1>2, <1>3

LEMMA CallType ==
  ASSUME NEW a \in Dates, NEW b \in Dates
  PROVE  /\ Call(a, b) \in CallRecords
         /\ Call(a, b).from = a /\ Call(a, b).to = b /\ Call(a, b).day = a
         /\ Call(a, b).rows = <<Blank>>
         /\ <<Blank>> \in Seq(Plain) /\ Range(<<Blank>>) = {Blank}
  <1>1. <<Blank>> \in Seq(Plain) /\ <<Blank>> \in Seq(Rows)
    BY RowKinds
  <1>2. Range(<<Blank>>) = {Blank}
    BY DEF Range
  <1>4. /\ Call(a, b) \in CallRecords
        /\ Call(a, b).from = a /\ Call(a, b).to = b /\ Call(a, b).day = a
        /\ Call(a, b).rows = <<Blank>>
    BY <1>1 DEF Call, CallRecords
  <1>. QED BY <1>1, <1>2, <1>4

\* The pages there are, and that the rows without a field are on one of them.
LEMMA PageNumbers ==
  ASSUME NEW l \in Seq(Rows), NEW h
  PROVE  /\ Cardinality(Pages(l, h)) \in Nat
         /\ \A p : p \in Pages(l, h) <=> p \in 1 .. Cardinality(Pages(l, h))
         /\ Pages(l, h) \subseteq Nat \ {0}
         /\ Blank \in Range(l) /\ None \notin h => Cardinality(Pages(l, h)) > 0
  <1>1. /\ Cardinality(Pages(l, h)) \in Nat
        /\ Pages(l, h) = 1 .. Cardinality(Pages(l, h))
    BY PagesFilled
  <1>2. ASSUME Blank \in Range(l), None \notin h PROVE Cardinality(Pages(l, h)) > 0
    <2>1. PICK i \in DOMAIN l : l[i] = Blank
      BY <1>2 DEF Range
    <2>2. i \in Kept(l, h)
      BY <1>2, <2>1, RowKinds DEF Kept, Shows
    <2>3. PageOf(l, h, i) \in Pages(l, h)
      BY <2>2 DEF Pages
    <2>. QED BY <1>1, <2>3
  <1>. QED BY <1>1, <1>2

\* The rows of a page are places of the list.
LEMMA PagePlaces ==
  ASSUME logs \in Seq(Rows), NEW p
  PROVE  /\ Page(p) \subseteq DOMAIN logs /\ Page(p) \subseteq Nat
         /\ IsFiniteSet(Page(p))
  <1>1. Kept(logs, hidden) \in SUBSET Nat /\ IsFiniteSet(Kept(logs, hidden))
    BY KeptPlaces
  <1>2. Page(p) \in SUBSET Kept(logs, hidden)
    BY DEF Page
  <1>3. Kept(logs, hidden) \subseteq DOMAIN logs
    BY DEF Kept
  <1>. QED BY <1>1, <1>2, <1>3, FS_Subset

\* The group of a date holds one row at most.
LEMMA DateAlone ==
  ASSUME logs \in Seq(Rows)
  PROVE  Cardinality(Group("date")) \in {0, 1}
  <1>. DEFINE G == Group("date")
  <1>1. \A i \in G : i \in Nat
    BY PagePlaces DEF Group, Alike
  <1>2. \A i, j \in G : i <= j /\ j <= i
    BY DEF Group
  <1>3. \A i, j \in G : i = j
    BY <1>1, <1>2
  <1>4. CASE G = {}
    BY <1>4, FS_EmptySet
  <1>5. ASSUME NEW i \in G PROVE Cardinality(G) = 1
    <2>1. G = {i}
      BY <1>3
    <2>. HIDE DEF G
    <2>. QED BY <2>1, FS_Singleton
  <1>. QED BY <1>4, <1>5

LEMMA TypesInit == Init => RowTypes
  <1>. SUFFICES ASSUME Init PROVE RowTypes
    OBVIOUS
  <1>0. 1 \in Dates
    BY Constants, DateRange
  <1>1. Call(1, 1) \in CallRecords /\ Call(1, 1).rows \in Seq(Plain) /\ Blank \in Range(Call(1, 1).rows)
    BY <1>0, CallType
  <1>2. calls = <<Call(1, 1)>> /\ calls \in Seq(CallRecords) /\ DOMAIN calls = {1} /\ calls[1] = Call(1, 1)
    BY <1>1 DEF Init
  <1>3. TypeOK
    <2>1. files \in [Days -> Seq(Rows)] /\ logs \in Seq(Rows)
      BY DEF Init
    <2>2. grouped \in BOOLEAN /\ broken \in BOOLEAN /\ narrowed \in BOOLEAN /\ stuck \in BOOLEAN
      BY DEF Init
    <2>3. {awaited, fresh} \subseteq 0 .. MaxRows \cup {None} /\ printed \in 0 .. MaxRows
          /\ failures \in 0 .. MaxFailures /\ choices \in 0 .. MaxChoices
      BY Constants DEF Init
    <2>. QED BY <1>2, <2>1, <2>2, <2>3, Constants, DateRange DEF Init, TypeOK, CallRecords
  <1>4. files \in [Days -> Seq(Logged)] /\ logs \in Seq(Plain)
    BY DEF Init
  <1>. QED BY <1>1, <1>2, <1>3, <1>4 DEF RowTypes

\* What Render leaves the page's variables in.
LEMMA RenderTypes ==
  ASSUME RowTypes, NEW l \in Seq(Plain), NEW h, NEW p \in Nat \ {0}, NEW g \in BOOLEAN,
         h \subseteq Boxes \cup {"WARNING", "queues", "api"},
         Render(l, h, p, g)
  PROVE  /\ logs' \in Seq(Plain) /\ logs' \in Seq(Rows)
         /\ hidden' \subseteq Boxes \cup {"WARNING", "queues", "api"}
         /\ page' \in Nat \ {0}
         /\ grouped' \in BOOLEAN /\ broken' \in BOOLEAN
         /\ expanded' \in {None, "null"}
  <1>1. l \in Seq(Rows)
    BY RowSeqs
  <1>2. expanded \in {None, "null"}
    BY DEF RowTypes, TypeOK
  <1>3. broken' \in BOOLEAN
    BY DEF Render
  <1>. QED BY <1>1, <1>2, <1>3 DEF Render

\* Removing a call leaves the others.
LEMMA CallRemoved ==
  ASSUME RowTypes, NEW i \in DOMAIN calls, calls' = RemoveAt(calls, i)
  PROVE  /\ calls' \in Seq(CallRecords)
         /\ Len(calls) \in Nat /\ Len(calls') = Len(calls) - 1 /\ i \in 1 .. Len(calls)
         /\ \A j \in DOMAIN calls' : calls'[j].rows \in Seq(Plain) /\ Blank \in Range(calls'[j].rows)
         /\ i # Len(calls) => Len(calls') > 0 /\ calls'[Len(calls')] = calls[Len(calls)]
  <1>1. calls \in Seq(CallRecords)
    BY DEF RowTypes, TypeOK, CallRecords
  <1>2. /\ calls' \in Seq(CallRecords) /\ Len(calls') = Len(calls) - 1
        /\ \A j \in 1 .. Len(calls) - 1 : calls'[j] = calls[IF j < i THEN j ELSE j + 1]
    BY <1>1, Removal
  <1>3. Len(calls) \in Nat /\ DOMAIN calls = 1 .. Len(calls) /\ DOMAIN calls' = 1 .. Len(calls) - 1
    BY <1>1, <1>2
  <1>4. \A j \in 1 .. Len(calls) - 1 : (IF j < i THEN j ELSE j + 1) \in DOMAIN calls
    BY <1>3
  <1>5. \A j \in DOMAIN calls' : calls'[j].rows \in Seq(Plain) /\ Blank \in Range(calls'[j].rows)
    BY <1>2, <1>3, <1>4 DEF RowTypes
  <1>6. ASSUME i # Len(calls) PROVE Len(calls') > 0 /\ calls'[Len(calls')] = calls[Len(calls)]
    <2>1. Len(calls) - 1 \in 1 .. Len(calls) - 1 /\ ~(Len(calls) - 1 < i) /\ Len(calls) - 1 + 1 = Len(calls)
      BY <1>3, <1>6
    <2>. QED BY <1>2, <2>1
  <1>. QED BY <1>2, <1>3, <1>5, <1>6

\* The rows of a call after it has read one more file.
LEMMA CallRead ==
  ASSUME RowTypes, NEW i \in DOMAIN calls, Find(i)
  PROVE  LET c == calls[i]
         IN  /\ c \in CallRecords /\ c.day \in Days /\ c.day <= c.to
             /\ calls' \in Seq(CallRecords) /\ Len(calls') = Len(calls)
             /\ DOMAIN calls' = DOMAIN calls
             /\ \A j \in DOMAIN calls : j # i => calls'[j] = calls[j]
             /\ calls'[i].from = c.from /\ calls'[i].to = c.to /\ calls'[i].day = c.day + 1
             /\ calls'[i].rows = c.rows \o FileRows(c.day)
             /\ calls'[i].rows \in Seq(Plain)
             /\ Range(calls'[i].rows) = Range(c.rows) \cup Range(FileRows(c.day))
  <1>. DEFINE c == calls[i]
              read == c.rows \o FileRows(c.day)
  <1>0. calls \in Seq(CallRecords)
    BY DEF RowTypes, TypeOK, CallRecords
  <1>1. calls \in Seq(CallRecords) /\ c \in CallRecords /\ c.rows \in Seq(Plain)
    BY <1>0 DEF RowTypes
  <1>2. c.day \in Days /\ c.day <= c.to /\ c.day + 1 \in Dates
    <2>1. c.day \in Dates /\ c.to \in Days /\ c.day <= c.to
      BY <1>1 DEF Find, CallRecords
    <2>. HIDE DEF c
    <2>. QED BY <2>1, Constants, DateRange DEF Days
  <1>3. FileRows(c.day) \in Seq(Plain)
    BY <1>2, FileRowsType DEF RowTypes
  <1>4. read \in Seq(Plain) /\ read \in Seq(Rows)
        /\ Range(read) = Range(c.rows) \cup Range(FileRows(c.day))
    BY <1>1, <1>3, Joined, RowSeqs
  <1>5. calls' = [calls EXCEPT ![i] = [c EXCEPT !.rows = read, !.day = c.day + 1]]
    BY DEF Find
  <1>. DEFINE e == [c EXCEPT !.rows = read, !.day = c.day + 1]
  <1>6. e \in CallRecords /\ e.from = c.from /\ e.to = c.to /\ e.day = c.day + 1 /\ e.rows = read
    BY <1>1, <1>2, <1>4 DEF CallRecords
  <1>. HIDE DEF e
  <1>7. calls' \in Seq(CallRecords) /\ Len(calls') = Len(calls) /\ DOMAIN calls' = DOMAIN calls
        /\ calls'[i] = e /\ \A j \in DOMAIN calls : j # i => calls'[j] = calls[j]
    BY <1>1, <1>5, <1>6 DEF e
  <1>. QED BY <1>1, <1>2, <1>4, <1>6, <1>7

LEMMA TypesStep == RowTypes /\ [Next]_vars => RowTypes'
  <1>. SUFFICES ASSUME RowTypes, [Next]_vars PROVE RowTypes'
    OBVIOUS
  <1>0. /\ calls \in Seq(CallRecords) /\ DOMAIN calls = 1 .. Len(calls) /\ Len(calls) \in Nat
        /\ logs \in Seq(Plain) /\ logs \in Seq(Rows) /\ files \in [Days -> Seq(Logged)]
        /\ printed \in 0 .. MaxRows /\ choices \in 0 .. MaxChoices /\ stuck \in BOOLEAN
        /\ hidden \subseteq Boxes \cup {"WARNING", "queues", "api"}
        /\ page \in Nat \ {0} /\ grouped \in BOOLEAN
        /\ TypeOK
    BY DEF RowTypes, TypeOK, CallRecords
  <1>1. ASSUME NEW k \in Kinds, PrintLog(k) PROVE RowTypes'
    <2>1. printed + 1 \in 1 .. MaxRows /\ printed' = printed + 1
      BY <1>0, <1>1, Constants DEF PrintLog
    <2>2. today \in Days /\ Row(printed + 1, k) \in Logged
      BY <1>0, <2>1, RowKinds DEF TypeOK
    <2>3. files[today] \in Seq(Logged) /\ Append(files[today], Row(printed + 1, k)) \in Seq(Logged)
      BY <1>0, <2>2
    <2>4. files' \in [Days -> Seq(Logged)]
      BY <1>0, <1>1, <2>2, <2>3 DEF PrintLog
    <2>5. files' \in [Days -> Seq(Rows)]
      BY <2>4, RowSeqs
    <2>6. UNCHANGED <<today, stuck, dates, calls, shown, awaited, fresh, narrowed, failures, choices>>
      BY <1>1 DEF PrintLog
    <2>7. TypeOK'
      BY <1>0, <2>1, <2>5, <2>6 DEF TypeOK, dates, shown
    <2>. QED BY <2>4, <2>6, <2>7 DEF RowTypes, shown
  <1>2. ASSUME NextDay PROVE RowTypes'
    <2>1. today' \in Days
      BY <1>0, <1>2, Constants DEF NextDay, TypeOK, Days
    <2>2. UNCHANGED <<files, printed, stuck, dates, calls, shown, awaited, fresh, narrowed,
                      failures, choices>>
      BY <1>2 DEF NextDay
    <2>3. TypeOK'
      BY <1>0, <2>1, <2>2 DEF TypeOK, dates, shown
    <2>. QED BY <2>2, <2>3 DEF RowTypes, shown
  <1>3. ASSUME NEW a \in Dates, NEW b \in Dates, PickDate(a, b) PROVE RowTypes'
    <2>1. UNCHANGED <<server, calls, shown, narrowed, failures>>
      BY <1>3 DEF PickDate
    <2>2. choices' \in 0 .. MaxChoices
      BY <1>0, <1>3, Constants DEF PickDate
    <2>3. TypeOK'
      BY <1>0, <1>3, <2>1, <2>2 DEF TypeOK, PickDate, server, shown
    <2>. QED BY <2>1, <2>3 DEF RowTypes, shown, server
  <1>4. ASSUME GetLogs PROVE RowTypes'
    <2>. DEFINE c == Call(from, to)
    <2>1. c \in CallRecords /\ c.rows \in Seq(Plain) /\ Blank \in Range(c.rows)
      BY <1>0, CallType DEF TypeOK
    <2>2. calls' = Append(calls, c)
      BY <1>4 DEF GetLogs
    <2>. HIDE DEF c
    <2>3. /\ calls' \in Seq(CallRecords) /\ DOMAIN calls' = 1 .. Len(calls) + 1
          /\ \A i \in DOMAIN calls : calls'[i] = calls[i]
          /\ calls'[Len(calls) + 1] = c
      BY <1>0, <2>1, <2>2
    <2>4. \A i \in DOMAIN calls' : calls'[i].rows \in Seq(Plain) /\ Blank \in Range(calls'[i].rows)
      BY <1>0, <2>1, <2>3 DEF RowTypes
    <2>5. UNCHANGED <<server, dates, shown, narrowed, failures>> /\ awaited' = printed /\ fresh' = None
      BY <1>4 DEF GetLogs
    <2>6. choices' \in 0 .. MaxChoices
      BY <1>0, <1>4, Constants DEF GetLogs
    <2>7. TypeOK'
      BY <1>0, <2>3, <2>5, <2>6 DEF TypeOK, server, dates, shown, CallRecords
    <2>. QED BY <2>4, <2>5, <2>7 DEF RowTypes, shown, server
  <1>5. ASSUME NEW l \in Seq(Plain), NEW h, NEW p \in Nat \ {0}, NEW g \in BOOLEAN,
               h \subseteq Boxes \cup {"WARNING", "queues", "api"},
               Render(l, h, p, g), calls' \in Seq(CallRecords),
               \A i \in DOMAIN calls' : calls'[i].rows \in Seq(Plain) /\ Blank \in Range(calls'[i].rows),
               from' \in Dates, to' \in Dates, awaited' \in 0 .. MaxRows \cup {None},
               fresh' \in 0 .. MaxRows \cup {None}, narrowed' \in BOOLEAN,
               choices' \in 0 .. MaxChoices, UNCHANGED <<server, failures>>
        PROVE  RowTypes'
    <2>1. /\ logs' \in Seq(Plain) /\ logs' \in Seq(Rows)
          /\ hidden' \subseteq Boxes \cup {"WARNING", "queues", "api"}
          /\ page' \in Nat \ {0}
          /\ grouped' \in BOOLEAN /\ broken' \in BOOLEAN
          /\ expanded' \in {None, "null"}
      BY <1>5, RenderTypes
    <2>2. TypeOK'
      BY <1>0, <1>5, <2>1 DEF TypeOK, server, CallRecords
    <2>. QED BY <1>5, <2>1, <2>2 DEF RowTypes, server
  <1>6. /\ from \in Dates /\ to \in Dates /\ awaited \in 0 .. MaxRows \cup {None}
        /\ fresh \in 0 .. MaxRows \cup {None} /\ narrowed \in BOOLEAN
        /\ \A i \in DOMAIN calls : calls[i].rows \in Seq(Plain) /\ Blank \in Range(calls[i].rows)
    BY DEF RowTypes, TypeOK
  <1>7. ASSUME NEW b \in Boxes, Toggle(b) PROVE RowTypes'
    <2>. DEFINE h == IF b \in hidden THEN hidden \ {b} ELSE hidden \cup {b}
    <2>1. h \subseteq Boxes \cup {"WARNING", "queues", "api"}
      BY <1>0
    <2>2. Render(logs, h, page, grouped) /\ narrowed' \in BOOLEAN
          /\ UNCHANGED <<server, dates, calls, awaited, fresh, failures, choices>>
      BY <1>6, <1>7 DEF Toggle, Narrow
    <2>. HIDE DEF h
    <2>. QED BY <1>0, <1>5, <1>6, <2>1, <2>2 DEF dates
  <1>8. ASSUME NEW p \in Pages(logs, hidden) \cup {page - 1}, PickPage(p) PROVE RowTypes'
    <2>1. p \in Nat \ {0}
      BY <1>0, <1>8, PageNumbers DEF PickPage
    <2>2. Render(logs, hidden, p, grouped) /\ narrowed' \in BOOLEAN
          /\ UNCHANGED <<server, dates, calls, awaited, fresh, failures, choices>>
      BY <1>6, <1>8 DEF PickPage
    <2>. QED BY <1>0, <1>5, <1>6, <2>1, <2>2 DEF dates
  <1>9. ASSUME SwitchView PROVE RowTypes'
    <2>1. Render(logs, hidden, page, ~grouped)
          /\ UNCHANGED <<server, dates, calls, awaited, fresh, narrowed, failures, choices>>
      BY <1>9 DEF SwitchView
    <2>2. (~grouped) \in BOOLEAN
      OBVIOUS
    <2>. QED BY <1>0, <1>5, <1>6, <2>1, <2>2 DEF dates
  <1>10. ASSUME NEW key \in {"null", "date"}, Expand(key) PROVE RowTypes'
    <2>1. key # "date"
      <3>1. ~(Cardinality(Group("date")) > 1)
        BY <1>0, DateAlone
      <3>. QED BY <1>10, <3>1 DEF Expand
    <2>2. expanded' \in {None, "null"}
      BY <1>10, <2>1 DEF Expand
    <2>3. UNCHANGED <<server, dates, calls, logs, hidden, page, grouped, broken,
                      awaited, fresh, narrowed, failures, choices>>
      BY <1>10 DEF Expand
    <2>4. TypeOK'
      BY <1>0, <2>2, <2>3 DEF TypeOK, server, dates
    <2>. QED BY <2>3, <2>4 DEF RowTypes, server
  <1>11. ASSUME NEW i \in DOMAIN calls, Find(i) PROVE RowTypes'
    <2>1. calls' \in Seq(CallRecords)
      BY <1>11, CallRead
    <2>2. \A j \in DOMAIN calls' : calls'[j].rows \in Seq(Plain) /\ Blank \in Range(calls'[j].rows)
      <3>1. ASSUME NEW j \in DOMAIN calls PROVE calls'[j].rows \in Seq(Plain) /\ Blank \in Range(calls'[j].rows)
        <4>1. CASE j = i
          BY <1>6, <1>11, <4>1, CallRead
        <4>2. CASE j # i
          BY <1>6, <1>11, <4>2, CallRead
        <4>. QED BY <4>1, <4>2
      <3>. QED BY <1>11, <3>1, CallRead
    <2>3. UNCHANGED <<server, dates, shown, awaited, fresh, narrowed, failures, choices>>
      BY <1>11 DEF Find
    <2>4. TypeOK'
      BY <1>0, <2>1, <2>3 DEF TypeOK, server, dates, shown, CallRecords
    <2>. QED BY <2>2, <2>3, <2>4 DEF RowTypes, server, shown
  <1>12. ASSUME NEW i \in DOMAIN calls, Show(i) PROVE RowTypes'
    <2>0. PICK l \in Sorted(calls[i].rows) : Render(l, hidden, page, grouped) /\ Narrow(l, hidden)
      BY <1>12 DEF Show
    <2>1. l \in Seq(Plain)
      BY <1>6, <1>12, <2>0, Sorting
    <2>2. /\ narrowed' \in BOOLEAN
          /\ calls' = RemoveAt(calls, i)
          /\ UNCHANGED <<server, dates, failures, choices>>
          /\ awaited' = IF i = Len(calls) THEN None ELSE awaited
          /\ fresh' = IF i = Len(calls) THEN awaited ELSE None
      BY <1>6, <1>12, <2>0 DEF Show, Narrow
    <2>3. /\ calls' \in Seq(CallRecords)
          /\ \A j \in DOMAIN calls' : calls'[j].rows \in Seq(Plain) /\ Blank \in Range(calls'[j].rows)
      BY <1>12, <2>2, CallRemoved
    <2>. QED BY <1>0, <1>5, <1>6, <2>0, <2>1, <2>2, <2>3 DEF dates
  <1>13. ASSUME NEW i \in DOMAIN calls, GetLogsFails(i) PROVE RowTypes'
    <2>1. /\ failures < MaxFailures /\ failures' = failures + 1
          /\ calls' = RemoveAt(calls, i)
          /\ awaited' = IF i = Len(calls) THEN None ELSE awaited
          /\ UNCHANGED <<server, dates, shown, fresh, narrowed, choices>>
      BY <1>13 DEF GetLogsFails
    <2>2. /\ calls' \in Seq(CallRecords)
          /\ \A j \in DOMAIN calls' : calls'[j].rows \in Seq(Plain) /\ Blank \in Range(calls'[j].rows)
      BY <1>13, <2>1, CallRemoved
    <2>3. failures' \in 0 .. MaxFailures
      BY <1>0, <2>1, Constants DEF TypeOK
    <2>4. awaited' \in {None, awaited}
      BY <2>1
    <2>5. UNCHANGED <<server, from, to, logs, hidden, page, grouped, expanded, broken,
                      fresh, narrowed, choices>>
      BY <2>1 DEF dates, shown
    <2>6. TypeOK'
      BY <1>0, <2>2, <2>3, <2>4, <2>5 DEF TypeOK, server, CallRecords
    <2>. QED BY <2>2, <2>5, <2>6 DEF RowTypes, server
  <1>14. ASSUME Reload PROVE RowTypes'
    <2>. DEFINE c == Call(today, today)
                h == {"WARNING", "queues", "api"}
    <2>1. today \in Dates
      BY <1>0, Constants, DateRange DEF TypeOK
    <2>2. c \in CallRecords /\ c.rows \in Seq(Plain) /\ Blank \in Range(c.rows)
      BY <2>1, CallType
    <2>3. /\ from' = today /\ to' = today /\ calls' = <<c>> /\ Render(<<>>, h, 1, FALSE)
          /\ awaited' = printed /\ fresh' = None /\ narrowed' = FALSE
          /\ choices' = 0 /\ UNCHANGED <<server, failures>>
      BY <1>14 DEF Reload
    <2>4. h \subseteq Boxes \cup h /\ <<>> \in Seq(Plain) /\ 1 \in Nat \ {0} /\ FALSE \in BOOLEAN
      OBVIOUS
    <2>. HIDE DEF c
    <2>5. calls' \in Seq(CallRecords) /\ DOMAIN calls' = {1} /\ calls'[1] = c
      BY <2>2, <2>3
    <2>6. choices' \in 0 .. MaxChoices
      BY <2>3, Constants
    <2>. QED BY <1>0, <1>5, <2>1, <2>2, <2>3, <2>4, <2>5, <2>6
  <1>15. ASSUME UNCHANGED vars PROVE RowTypes'
    <2>1. UNCHANGED <<today, files, printed, stuck, from, to, calls, logs, hidden, page, grouped,
                      expanded, broken, awaited, fresh, narrowed, failures, choices>>
      BY <1>15 DEF vars, server, dates, shown
    <2>2. TypeOK'
      BY <1>0, <2>1 DEF TypeOK
    <2>. QED BY <2>1, <2>2 DEF RowTypes
  <1>16. ASSUME NEW i \in DOMAIN calls, FindForever(i) PROVE RowTypes'
    <2>1. /\ stuck' = TRUE
          /\ UNCHANGED <<today, files, printed, dates, calls, shown, awaited, fresh, narrowed,
                         failures, choices>>
      BY <1>16 DEF FindForever
    <2>2. TypeOK'
      BY <1>0, <2>1 DEF TypeOK, dates, shown
    <2>. QED BY <2>1, <2>2 DEF RowTypes, shown
  <1>. QED BY <1>1, <1>2, <1>3, <1>4, <1>7, <1>8, <1>9, <1>10, <1>11, <1>12, <1>13, <1>14, <1>15,
              <1>16
           DEF Next, Api, User, Answer

-----------------------------------------------------------------------------
(* LogViewer: the groups.                                                  *)

\* The groups hold what they tell of, whatever the rows are.
LEMMA TypesGroup == RowTypes => GroupsTellAll
  <1>. SUFFICES ASSUME RowTypes PROVE GroupsTellAll
    OBVIOUS
  <1>1. logs \in Seq(Plain) /\ logs \in Seq(Rows)
    BY RowSeqs DEF RowTypes
  <1>2. ASSUME NEW i \in Page(page), logs[i] # Blank
        PROVE  /\ i \in Group(Key(logs[i]))
               /\ Header(Group(Key(logs[i]))).count =
                      Cardinality({j \in Page(page) : Key(logs[j]) = Key(logs[i])})
               /\ Dot(i) = "error" => Header(Group(Key(logs[i]))).dot \in {"error", "success"}
    <2>. DEFINE G == {j \in Page(page) : Key(logs[j]) = "null"}
    <2>1. i \in DOMAIN logs
      BY <1>1, PagePlaces
    <2>2. logs[i] \in Plain
      BY <1>1, <2>1
    <2>3. Key(logs[i]) = "null"
      BY <1>2, <2>2, RowKinds
    <2>4. Group("null") = G
      BY DEF Group, Alike
    <2>5. i \in G
      BY <2>3
    <2>6. Header(G).count = Cardinality(G) /\ Header(G).dot = GroupColor(G)
      BY DEF Header
    <2>7. ASSUME Dot(i) = "error" PROVE GroupColor(G) \in {"error", "success"}
      <3>1. logs[i].type = "ERROR"
        BY <2>7 DEF Dot, PointerColor
      <3>. DEFINE types == {logs[j].type : j \in G}
      <3>2. "ERROR" \in types
        BY <2>5, <3>1
      <3>3. PointerColor("RESULT") = "success" /\ PointerColor("ERROR") = "error"
        BY DEF PointerColor
      <3>4. "RESULT" \in types => GroupColor(G) = PointerColor("RESULT")
        BY <3>2 DEF GroupColor
      <3>5. "RESULT" \notin types => GroupColor(G) = PointerColor("ERROR")
        BY <3>2 DEF GroupColor
      <3>. QED BY <3>3, <3>4, <3>5
    <2>. HIDE DEF G
    <2>8. {j \in Page(page) : Key(logs[j]) = Key(logs[i])} = G
      BY <2>3 DEF G
    <2>. QED BY <2>3, <2>4, <2>5, <2>6, <2>7, <2>8
  <1>. QED BY <1>2 DEF GroupsTellAll

-----------------------------------------------------------------------------
(* LogViewer: the pages.                                                   *)

\* Rendering other rows, or others of the rows, leaves the page picked.
LEMMA PickedNarrow ==
  ASSUME RowTypes, PagePicked, NEW l \in Seq(Plain), NEW h,
         h \subseteq Boxes \cup {"WARNING", "queues", "api"},
         l # <<>> => Blank \in Range(l), l = <<>> => logs = <<>>,
         Narrow(l, h), logs' = l, hidden' = h, page' = page
  PROVE  PagePicked'
  <1>. DEFINE c == Cardinality(Pages(logs, hidden))
              d == Cardinality(Pages(l, h))
  <1>1. page \in Nat \ {0} /\ c \in Nat /\ d \in Nat
    BY RowSeqs, PageNumbers DEF RowTypes, TypeOK
  <1>2. None \notin h
    BY ConstantsAssumption
  <1>3. l # <<>> => d > 0
    BY <1>2, RowSeqs, PageNumbers
  <1>4. narrowed' = (narrowed \/ d < c)
    BY DEF Narrow
  <1>5. Cardinality(Pages(logs, hidden))' = d
    OBVIOUS
  <1>. HIDE DEF d, c
  <1>6. page > d /\ l # <<>> => narrowed'
    <2>. SUFFICES ASSUME page > d, l # <<>> PROVE narrowed'
      OBVIOUS
    <2>1. page # 1
      BY <1>1, <1>3
    <2>2. logs # <<>>
      BY <2>1 DEF PagePicked
    <2>3. CASE page > c
      BY <1>4, <2>2, <2>3 DEF PagePicked, c
    <2>4. CASE ~(page > c)
      <3>1. d < c
        BY <1>1, <2>4
      <3>. QED BY <1>4, <3>1
    <2>. QED BY <2>3, <2>4
  <1>7. l = <<>> => page = 1
    BY DEF PagePicked
  <1>. QED BY <1>5, <1>6, <1>7 DEF PagePicked

LEMMA PickedStep == RowTypes /\ PagePicked /\ [Next]_vars => PagePicked'
  <1>. SUFFICES ASSUME RowTypes, PagePicked, [Next]_vars PROVE PagePicked'
    OBVIOUS
  <1>0. /\ logs \in Seq(Plain) /\ logs \in Seq(Rows)
        /\ hidden \subseteq Boxes \cup {"WARNING", "queues", "api"}
        /\ page \in Nat \ {0}
    BY RowSeqs DEF RowTypes, TypeOK
  <1>1. ASSUME UNCHANGED <<logs, hidden, page, narrowed>> PROVE PagePicked'
    BY <1>1 DEF PagePicked
  <1>2. ASSUME Api PROVE UNCHANGED <<logs, hidden, page, narrowed>>
    BY <1>2 DEF Api, PrintLog, NextDay, shown
  <1>3. ASSUME NEW a, NEW b, PickDate(a, b) PROVE UNCHANGED <<logs, hidden, page, narrowed>>
    BY <1>3 DEF PickDate, shown
  <1>4. ASSUME GetLogs PROVE UNCHANGED <<logs, hidden, page, narrowed>>
    BY <1>4 DEF GetLogs, shown
  <1>5. ASSUME NEW b \in Boxes, Toggle(b) PROVE PagePicked'
    <2>. DEFINE h == IF b \in hidden THEN hidden \ {b} ELSE hidden \cup {b}
    <2>1. h \subseteq Boxes \cup {"WARNING", "queues", "api"}
      BY <1>0
    <2>2. Render(logs, h, page, grouped) /\ Narrow(logs, h)
      BY <1>5 DEF Toggle
    <2>3. logs # <<>> => Blank \in Range(logs)
      BY DEF PagePicked
    <2>4. logs' = logs /\ hidden' = h /\ page' = page
      BY <2>2 DEF Render
    <2>. HIDE DEF h
    <2>. QED BY <1>0, <2>1, <2>2, <2>3, <2>4, PickedNarrow
  <1>6. ASSUME NEW p \in Pages(logs, hidden) \cup {page - 1}, PickPage(p) PROVE PagePicked'
    <2>. DEFINE c == Cardinality(Pages(logs, hidden))
    <2>1. c \in Nat /\ (p \in Pages(logs, hidden) <=> p \in 1 .. c)
      BY <1>0, PageNumbers
    <2>2. /\ p \in Pages(logs, hidden) \/ (p = page - 1 /\ p > 0)
          /\ logs' = logs /\ hidden' = hidden /\ page' = p
          /\ narrowed' = (narrowed /\ p \notin Pages(logs, hidden))
      BY <1>6 DEF PickPage, Render
    <2>3. Cardinality(Pages(logs, hidden))' = c
      BY <2>2
    <2>4. logs = <<>> => c = 0
      BY FS_EmptySet DEF Pages, Kept
    <2>. HIDE DEF c
    <2>5. page > c => narrowed \/ logs = <<>>
      BY DEF PagePicked, c
    <2>6. p > c => narrowed' \/ logs = <<>>
      <3>. SUFFICES ASSUME p > c PROVE narrowed' \/ logs = <<>>
        OBVIOUS
      <3>1. p \notin 1 .. c
        BY <2>1
      <3>2. p \notin Pages(logs, hidden) /\ p = page - 1
        BY <2>1, <2>2, <3>1
      <3>3. page > c
        BY <1>0, <2>1, <3>2
      <3>. QED BY <2>2, <2>5, <3>2, <3>3
    <2>7. logs = <<>> => p = 1
      BY <1>0, <2>1, <2>2, <2>4 DEF PagePicked
    <2>. QED BY <2>2, <2>3, <2>6, <2>7 DEF PagePicked
  <1>7. ASSUME SwitchView PROVE UNCHANGED <<logs, hidden, page, narrowed>>
    BY <1>7 DEF SwitchView, Render
  <1>8. ASSUME NEW key, Expand(key) PROVE UNCHANGED <<logs, hidden, page, narrowed>>
    BY <1>8 DEF Expand
  <1>9. ASSUME NEW i \in DOMAIN calls, Show(i) PROVE PagePicked'
    <2>0. PICK l \in Sorted(calls[i].rows) : Render(l, hidden, page, grouped) /\ Narrow(l, hidden)
      BY <1>9 DEF Show
    <2>1. l \in Seq(Plain) /\ Blank \in Range(l)
      BY <2>0, Sorting DEF RowTypes
    <2>2. l # <<>>
      BY <2>1 DEF Range
    <2>3. Narrow(l, hidden) /\ logs' = l /\ hidden' = hidden /\ page' = page
      BY <2>0 DEF Render
    <2>. QED BY <1>0, <2>1, <2>2, <2>3, PickedNarrow
  <1>10. ASSUME NEW i, Find(i) \/ FindForever(i) \/ GetLogsFails(i)
         PROVE  UNCHANGED <<logs, hidden, page, narrowed>>
    BY <1>10 DEF Find, FindForever, GetLogsFails, shown
  <1>11. ASSUME Reload PROVE PagePicked'
    BY <1>11 DEF Reload, Render, PagePicked
  <1>12. ASSUME UNCHANGED vars PROVE UNCHANGED <<logs, hidden, page, narrowed>>
    BY <1>12 DEF vars, shown
  <1>. QED BY <1>1, <1>2, <1>3, <1>4, <1>5, <1>6, <1>7, <1>8, <1>9, <1>10, <1>11, <1>12
           DEF Next, User, Answer

LEMMA PickedShows == RowTypes /\ PagePicked => PageShown
  <1>. SUFFICES ASSUME RowTypes, PagePicked PROVE PageShown
    OBVIOUS
  <1>1. logs \in Seq(Plain)
    BY DEF RowTypes
  <1>. DEFINE c == Cardinality(Pages(logs, hidden))
  <1>2. /\ c \in Nat /\ Pages(logs, hidden) = 1 .. c
        /\ \A i, j \in Kept(logs, hidden) :
               i < j => PageOf(logs, hidden, i) <= PageOf(logs, hidden, j)
        /\ \A p \in 1 .. c :
               Cardinality({i \in Kept(logs, hidden) : PageOf(logs, hidden, i) = p}) =
                   IF p < c THEN RowsPerPage
                   ELSE Cardinality(Kept(logs, hidden)) - (c - 1) * RowsPerPage
    BY <1>1, PagesFilled
  <1>3. Viewing.rows = Cardinality(Kept(logs, hidden))
    BY DEF Viewing
  <1>4. \A p \in 1 .. c :
            Cardinality(Page(p)) = IF p < c THEN RowsPerPage ELSE Viewing.rows - (c - 1) * RowsPerPage
    BY <1>2, <1>3 DEF Page
  <1>5. page > c => narrowed \/ logs = <<>>
    BY DEF PagePicked
  <1>. HIDE DEF c
  <1>. QED BY <1>2, <1>4, <1>5 DEF PageShown, c

-----------------------------------------------------------------------------
(* LogViewer: the files.                                                   *)

\* A row is in one file only.
LEMMA OneFile ==
  ASSUME FilesInOrder, NEW d \in Days, NEW e \in Days,
         NEW row \in Range(files[d]), row \in Range(files[e])
  PROVE  d = e
  <1>1. row.id \in Nat /\ ~(row.id < row.id)
    BY DEF FilesInOrder
  <1>2. ~(d < e) /\ ~(e < d)
    BY <1>1 DEF FilesInOrder
  <1>. QED BY <1>2, Constants

\* The file of the day when a row is printed, and the others.
LEMMA FilesPrint ==
  ASSUME RowTypes, FilesInOrder, NEW k \in Kinds, PrintLog(k)
  PROVE  LET new == Row(printed + 1, k)
         IN  /\ today \in Days /\ printed \in Nat /\ printed' = printed + 1
             /\ new \in Logged /\ new.id = printed + 1
             /\ \A d \in Days : d # today => files'[d] = files[d]
             /\ files[today] \in Seq(Logged)
             /\ files'[today] = Append(files[today], new)
             /\ Range(files'[today]) = Range(files[today]) \cup {new}
  <1>. DEFINE new == Row(printed + 1, k)
  <1>1. today \in Days /\ printed \in Nat /\ printed + 1 \in 1 .. MaxRows /\ printed' = printed + 1
    <2>1. today \in Days /\ printed \in 0 .. MaxRows /\ printed < MaxRows /\ printed' = printed + 1
      BY DEF PrintLog, RowTypes, TypeOK
    <2>. QED BY <2>1, Constants
  <1>2. new \in Logged /\ new.id = printed + 1
    BY <1>1, RowKinds
  <1>3. files[today] \in Seq(Logged)
    BY <1>1 DEF RowTypes
  <1>4. files' = [files EXCEPT ![today] = Append(files[today], new)]
    BY DEF PrintLog
  <1>. HIDE DEF new
  <1>5. \A d \in Days : d # today => files'[d] = files[d]
    BY <1>1, <1>4 DEF RowTypes
  <1>6. files'[today] = Append(files[today], new)
    BY <1>1, <1>4 DEF RowTypes
  <1>7. Range(files'[today]) = Range(files[today]) \cup {new}
    BY <1>2, <1>3, <1>6, Appended
  <1>. QED BY <1>1, <1>2, <1>3, <1>5, <1>6, <1>7 DEF new

LEMMA FilesInit == Init => FilesInOrder
  BY DEF Init, FilesInOrder, Range

LEMMA FilesStep == RowTypes /\ FilesInOrder /\ [Next]_vars => FilesInOrder' /\ printed <= printed'
  <1>. SUFFICES ASSUME RowTypes, FilesInOrder, [Next]_vars PROVE FilesInOrder' /\ printed <= printed'
    OBVIOUS
  <1>0. printed \in Nat
    BY Constants DEF RowTypes, TypeOK
  <1>1. ASSUME NEW k \in Kinds, PrintLog(k) PROVE FilesInOrder' /\ printed <= printed'
    <2>. DEFINE new == Row(printed + 1, k)
    <2>1. /\ today \in Days /\ printed \in Nat /\ printed' = printed + 1
          /\ new \in Logged /\ new.id = printed + 1
          /\ \A d \in Days : d # today => files'[d] = files[d]
          /\ files[today] \in Seq(Logged)
          /\ files'[today] = Append(files[today], new)
          /\ Range(files'[today]) = Range(files[today]) \cup {new}
      BY <1>1, FilesPrint
    <2>2. today' = today
      BY <1>1 DEF PrintLog
    <2>. HIDE DEF new
    <2>3. \A d \in Days : \A row \in Range(files'[d]) :
              (row \in Range(files[d])) \/ (d = today /\ row = new)
      BY <2>1
    <2>4. \A d \in Days : \A row \in Range(files[d]) : d <= today /\ row.id \in 1 .. printed
      BY DEF FilesInOrder
    <2>5. \A d \in Days : \A row \in Range(files'[d]) : d <= today' /\ row.id \in 1 .. printed'
      <3>1. new.id \in 1 .. printed' /\ today <= today
        BY <2>1, Constants
      <3>2. \A n \in 1 .. printed : n \in 1 .. printed'
        BY <2>1
      <3>. QED BY <2>2, <2>3, <2>4, <3>1, <3>2
    <2>6. ASSUME NEW d \in Days, NEW e \in Days,
                 NEW row \in Range(files'[d]), NEW other \in Range(files'[e]), d < e
          PROVE  row.id < other.id
      <3>0. e <= today
        BY <2>2, <2>5
      <3>1. d # today
        BY <2>1, <2>6, <3>0, Constants
      <3>2. row \in Range(files[d])
        BY <2>3, <3>1
      <3>3. CASE other \in Range(files[e])
        BY <2>6, <3>2, <3>3 DEF FilesInOrder
      <3>4. CASE other = new
        BY <2>1, <2>4, <3>2, <3>4
      <3>. QED BY <2>3, <3>3, <3>4
    <2>7. ASSUME NEW d \in Days, NEW i \in DOMAIN files'[d], NEW j \in DOMAIN files'[d], i < j
          PROVE  files'[d][i].id < files'[d][j].id
      <3>1. CASE d # today
        BY <2>1, <2>7, <3>1 DEF FilesInOrder
      <3>2. CASE d = today
        <4>. DEFINE s == files[today]
        <4>1. /\ DOMAIN Append(s, new) = 1 .. Len(s) + 1
              /\ \A n \in DOMAIN s : Append(s, new)[n] = s[n]
              /\ Append(s, new)[Len(s) + 1] = new
              /\ DOMAIN s = 1 .. Len(s) /\ Len(s) \in Nat
          BY <2>1, Appended
        <4>2. i \in 1 .. Len(s) + 1 /\ j \in 1 .. Len(s) + 1
          BY <2>1, <3>2, <4>1
        <4>3. i \in DOMAIN s
          BY <2>7, <4>1, <4>2
        <4>4. files'[d][i] = s[i] /\ s[i] \in Range(s)
          BY <2>1, <3>2, <4>1, <4>3 DEF Range
        <4>5. CASE j = Len(s) + 1
          <5>1. files'[d][j] = new
            BY <2>1, <3>2, <4>1, <4>5
          <5>2. s[i].id \in 1 .. printed
            BY <2>1, <2>4, <4>4
          <5>. QED BY <2>1, <4>4, <5>1, <5>2
        <4>6. CASE j # Len(s) + 1
          <5>1. j \in DOMAIN s
            BY <4>1, <4>2, <4>6
          <5>2. files'[d][j] = s[j]
            BY <2>1, <3>2, <4>1, <5>1
          <5>3. s[i].id < s[j].id
            BY <2>1, <2>7, <4>3, <5>1 DEF FilesInOrder
          <5>. QED BY <4>4, <5>2, <5>3
        <4>. QED BY <4>5, <4>6
      <3>. QED BY <3>1, <3>2
    <2>. QED BY <2>1, <2>5, <2>6, <2>7 DEF FilesInOrder
  <1>2. ASSUME NextDay PROVE FilesInOrder' /\ printed <= printed'
    <2>1. today' = today + 1 /\ today \in Days /\ UNCHANGED <<files, printed>>
      BY <1>2 DEF NextDay, RowTypes, TypeOK
    <2>2. \A d \in Days : d <= today => d <= today'
      BY <2>1, Constants
    <2>3. files' = files /\ printed' = printed
      BY <2>1
    <2>4. FilesInOrder'
      BY <2>2, <2>3 DEF FilesInOrder
    <2>. QED BY <1>0, <2>3, <2>4
  <1>3. ASSUME UNCHANGED <<today, files, printed>> PROVE FilesInOrder' /\ printed <= printed'
    <2>1. today' = today /\ files' = files /\ printed' = printed
      BY <1>3
    <2>2. FilesInOrder'
      BY <2>1 DEF FilesInOrder
    <2>. QED BY <1>0, <2>1, <2>2
  <1>4. ASSUME User \/ Answer \/ Reload \/ UNCHANGED vars PROVE UNCHANGED <<today, files, printed>>
    <2>1. ASSUME NEW i, FindForever(i) PROVE UNCHANGED <<today, files, printed>>
      BY <2>1 DEF FindForever
    <2>2. ASSUME UNCHANGED server PROVE UNCHANGED <<today, files, printed>>
      BY <2>2 DEF server
    <2>3. ASSUME User \/ Reload \/ UNCHANGED vars PROVE UNCHANGED server
      BY <2>3 DEF User, Reload, vars, PickDate, GetLogs, Toggle, PickPage, SwitchView, Expand
    <2>4. ASSUME NEW i, Find(i) \/ Show(i) \/ GetLogsFails(i) PROVE UNCHANGED server
      BY <2>4 DEF Find, Show, GetLogsFails
    <2>. QED BY <1>4, <2>1, <2>2, <2>3, <2>4 DEF Answer
  <1>. QED BY <1>1, <1>2, <1>3, <1>4 DEF Next, Api

-----------------------------------------------------------------------------
(* LogViewer: the calls, and the rows of the last of them.                 *)

\* A row printed since is of no file read before.
LEMMA CoversPrint ==
  ASSUME RowTypes, FilesInOrder, NEW k \in Kinds, PrintLog(k),
         NEW rows, NEW a \in Dates, NEW b \in 0 .. MaxDay, NEW n \in Nat, n <= printed,
         Covers(rows, a, b, n)
  PROVE  Covers(rows, a, b, n)'
  <1>. DEFINE new == Row(printed + 1, k)
  <1>1. /\ today \in Days /\ printed \in Nat
        /\ new \in Logged /\ new.id = printed + 1
        /\ \A d \in Days : d # today => files'[d] = files[d]
        /\ Range(files'[today]) = Range(files[today]) \cup {new}
    BY FilesPrint
  <1>. HIDE DEF new
  <1>2. \A d \in a .. b : d \in Days
    BY Constants, DateRange DEF Days
  <1>3. \A d \in Days : Range(files[d]) \subseteq Range(files'[d])
    BY <1>1
  <1>4. \A row \in rows : row # Blank => \E d \in a .. b : row \in Range(files'[d])
    BY <1>2, <1>3 DEF Covers
  <1>5. \A d \in Days : \A row \in Range(files[d]) : row.id \in 1 .. printed
    BY DEF FilesInOrder
  <1>6. new \notin rows
    <2>1. \A row \in rows : row # Blank => row.id \in 1 .. printed
      BY <1>2, <1>5 DEF Covers
    <2>. QED BY <1>1, <2>1, RowKinds
  <1>7. ASSUME NEW d \in a .. b, NEW row \in Range(files'[d]), row \notin rows
        PROVE  row.id > n /\ \A later \in rows \cap Range(files'[d]) : later.id < row.id
    <2>1. \A later \in rows \cap Range(files'[d]) : later \in Range(files[d])
      BY <1>1, <1>2, <1>6
    <2>2. CASE row \in Range(files[d])
      BY <1>7, <2>1, <2>2 DEF Covers
    <2>3. CASE row \notin Range(files[d])
      <3>1. row.id = printed + 1
        BY <1>1, <1>2, <2>3
      <3>2. \A later \in rows \cap Range(files'[d]) : later.id \in 1 .. printed
        BY <1>2, <1>5, <2>1
      <3>. QED BY <1>1, <3>1, <3>2
    <2>. QED BY <2>2, <2>3
  <1>. QED BY <1>4, <1>7 DEF Covers

\* A call that was just made has read no file.
LEMMA NewCall ==
  from \in Dates /\ to \in Dates => \A n : CallCovers(Call(from, to), n)
  <1>. SUFFICES ASSUME from \in Dates, to \in Dates, NEW n PROVE CallCovers(Call(from, to), n)
    OBVIOUS
  <1>. DEFINE c == Call(from, to)
  <1>1. c.from = from /\ c.to = to /\ c.day = from /\ c.rows = <<Blank>> /\ Range(c.rows) = {Blank}
    BY CallType
  <1>2. from .. from - 1 = {}
    BY Constants, DateRange
  <1>3. Covers({Blank}, from, from - 1, n)
    BY <1>2 DEF Covers
  <1>4. Increasing(<<Blank>>)
    BY DEF Increasing
  <1>. HIDE DEF c
  <1>. QED BY <1>1, <1>3, <1>4 DEF CallCovers, c

\* A call has read one more file.
LEMMA FindCovers ==
  ASSUME RowTypes, FilesInOrder, NEW i \in DOMAIN calls, Find(i), NEW n, CallCovers(calls[i], n)
  PROVE  CallCovers(calls[i], n)'
  <1>. DEFINE c == calls[i]
              e == calls'[i]
              d == calls[i].day
              new == FileRows(d)
  <1>1. /\ c \in CallRecords /\ d \in Days /\ d <= c.to
        /\ e.from = c.from /\ e.to = c.to /\ e.day = d + 1
        /\ e.rows = c.rows \o new
        /\ Range(e.rows) = Range(c.rows) \cup Range(new)
    BY CallRead
  <1>2. /\ files' = files /\ from' = from /\ to' = to
        /\ c.from = from /\ c.to = to /\ from \in Dates /\ to \in Days
        /\ files \in [Days -> Seq(Logged)]
    BY DEF Find, server, dates, CallCovers, RowTypes, TypeOK
  <1>3. /\ new \in Seq(Plain) /\ files[d] \in Seq(Logged)
        /\ Range(new) \subseteq Range(files[d]) \cup {Blank}
        /\ Range(files[d]) \subseteq Range(new)
    BY <1>1, <1>2, FileRowsType
  <1>4. c.rows \in Seq(Plain)
    BY DEF RowTypes
  <1>5. /\ c.day = from \/ c.day \in from .. to + 1
        /\ Covers(Range(c.rows), from, d - 1, n)
        /\ Increasing(c.rows)
    BY DEF CallCovers
  <1>. HIDE DEF c, e, d, new
  <1>0. from \in Nat /\ to \in Nat /\ d \in Nat /\ (d = from \/ d \in from .. to + 1) /\ d <= to
    BY <1>1, <1>2, <1>5, Constants, DateRange DEF c, d
  <1>6. from <= d /\ d <= to /\ d + 1 \in from .. to + 1
    BY <1>0
  <1>7. \A f : f \in from .. d <=> f \in from .. d - 1 \/ f = d
    BY <1>0, <1>6
  <1>8. \A f \in from .. d : f \in Days
    BY <1>1, <1>2, Constants, DateRange DEF Days
  <1>9. \A row \in Range(e.rows) : row # Blank => \E f \in from .. d : row \in Range(files[f])
    BY <1>1, <1>3, <1>5, <1>7 DEF Covers
  <1>10. ASSUME NEW f \in from .. d, NEW row \in Range(files[f]), row \notin Range(e.rows)
         PROVE  row.id > n /\ \A later \in Range(e.rows) \cap Range(files[f]) : later.id < row.id
    <2>1. f # d
      BY <1>1, <1>3, <1>10
    <2>2. f \in from .. d - 1 /\ row \notin Range(c.rows)
      BY <1>1, <1>7, <1>10, <2>1
    <2>3. ASSUME NEW later \in Range(e.rows), later \in Range(files[f]) PROVE later \in Range(c.rows)
      <3>1. later # Blank
        <4>1. files[f] \in Seq(Logged)
          BY <1>2, <1>8
        <4>. QED BY <2>3, <4>1, RowKinds DEF Range
      <3>2. later \notin Range(files[d])
        BY <1>1, <1>8, <2>1, <2>3, OneFile
      <3>. QED BY <1>1, <1>3, <3>1, <3>2
    <2>. QED BY <1>5, <2>2, <2>3 DEF Covers
  <1>11. Covers(Range(e.rows), from, d, n)
    BY <1>9, <1>10 DEF Covers
  <1>12. e.day - 1 = d
    <2>1. d \in Nat /\ e.day = d + 1
      BY <1>1, Constants
    <2>. QED BY <2>1
  <1>13. Increasing(e.rows)
    <2>. DEFINE s == c.rows
                t == new
    <2>1. /\ Len(s) \in Nat /\ DOMAIN s = 1 .. Len(s)
          /\ Len(t) \in Nat /\ DOMAIN t = 1 .. Len(t)
          /\ DOMAIN (s \o t) = 1 .. Len(s) + Len(t)
          /\ \A p \in 1 .. Len(s) : (s \o t)[p] = s[p]
      BY <1>3, <1>4
    <2>2. \A p \in 1 .. Len(s) + Len(t) : p \notin 1 .. Len(s) =>
              p - Len(s) \in 1 .. Len(t) /\ (s \o t)[p] = t[p - Len(s)]
      BY <1>3, <1>4
    <2>3. ASSUME NEW p \in 1 .. Len(t), t[p] # Blank
          PROVE  p \in DOMAIN files[d] /\ t[p] = files[d][p]
      <3>1. CASE files[d] = <<>>
        BY <3>1, <2>3, <2>1 DEF FileRows, new
      <3>2. CASE files[d] # <<>>
        <4>1. t = Append(files[d], Blank)
          BY <3>2 DEF FileRows, new
        <4>2. files[d] \in Seq(Plain) /\ Len(files[d]) \in Nat /\ DOMAIN files[d] = 1 .. Len(files[d])
          BY <1>3, RowSeqs
        <4>3. /\ DOMAIN t = 1 .. Len(files[d]) + 1
              /\ \A q \in DOMAIN files[d] : t[q] = files[d][q]
              /\ t[Len(files[d]) + 1] = Blank
          BY <4>1, <4>2, Appended, RowKinds
        <4>. QED BY <2>1, <2>3, <4>2, <4>3
      <3>. QED BY <3>1, <3>2
    <2>4. ASSUME NEW p \in 1 .. Len(s) + Len(t), NEW q \in 1 .. Len(s) + Len(t), p < q,
                 (s \o t)[p] # Blank, (s \o t)[q] # Blank
          PROVE  (s \o t)[p].id < (s \o t)[q].id
      <3>1. CASE q \in 1 .. Len(s)
        <4>1. p \in 1 .. Len(s)
          BY <2>1, <2>4, <3>1
        <4>. QED BY <1>5, <2>1, <2>4, <3>1, <4>1 DEF Increasing
      <3>2. CASE p \in 1 .. Len(s) /\ q \notin 1 .. Len(s)
        <4>1. (s \o t)[q] \in Range(files[d])
          BY <2>2, <2>3, <2>4, <3>2 DEF Range
        <4>2. (s \o t)[p] = s[p] /\ s[p] \in Range(s)
          BY <2>1, <3>2 DEF Range
        <4>3. PICK f \in from .. d - 1 : s[p] \in Range(files[f])
          BY <1>5, <2>4, <4>2 DEF Covers
        <4>4. f \in Days /\ f < d
          BY <1>1, <1>2, <1>7, <1>8, Constants
        <4>. QED BY <1>1, <4>1, <4>2, <4>3, <4>4 DEF FilesInOrder
      <3>3. CASE p \notin 1 .. Len(s) /\ q \notin 1 .. Len(s)
        <4>1. /\ p - Len(s) \in DOMAIN files[d] /\ (s \o t)[p] = files[d][p - Len(s)]
              /\ q - Len(s) \in DOMAIN files[d] /\ (s \o t)[q] = files[d][q - Len(s)]
          BY <2>2, <2>3, <2>4, <3>3
        <4>2. p - Len(s) < q - Len(s)
          BY <2>1, <2>4
        <4>. QED BY <1>1, <4>1, <4>2 DEF FilesInOrder
      <3>. QED BY <2>1, <2>4, <3>1, <3>2, <3>3
    <2>. QED BY <1>1, <2>1, <2>4 DEF Increasing
  <1>14. Covers(Range(e.rows), from, e.day - 1, n)
    BY <1>11, <1>12
  <1>15. Covers(Range(calls[i].rows), from, calls[i].day - 1, n)'
    BY <1>2, <1>14 DEF Covers, e
  <1>16. e.from = from' /\ e.to = to' /\ e.day \in from' .. to' + 1
    BY <1>1, <1>2, <1>6
  <1>. QED BY <1>13, <1>15, <1>16 DEF CallCovers, Increasing, e

LEMMA RangeInit == Init => LastCall /\ LastShown
  <1>. SUFFICES ASSUME Init PROVE LastCall /\ LastShown
    OBVIOUS
  <1>1. from = 1 /\ to = 1 /\ awaited = 0 /\ printed = 0 /\ fresh = None /\ calls = <<Call(from, to)>>
    BY DEF Init
  <1>2. CallCovers(Call(from, to), awaited)
    BY <1>1, Constants, DateRange, NewCall
  <1>3. Len(calls) = 1 /\ calls[Len(calls)] = Call(from, to)
    BY <1>1
  <1>. QED BY <1>1, <1>2, <1>3 DEF LastCall, LastShown, RangeShown

\* What a call has read when a row is printed, and when nothing it is about changes.
LEMMA CallPrint ==
  ASSUME RowTypes, FilesInOrder, NEW k \in Kinds, PrintLog(k),
         NEW c \in CallRecords, NEW n \in Nat, n <= printed, CallCovers(c, n)
  PROVE  CallCovers(c, n)'
  <1>1. c.day \in Dates /\ c.day - 1 \in 0 .. MaxDay
    BY Constants, DateRange DEF CallRecords
  <1>2. from \in Dates /\ from' = from /\ to' = to
    BY DEF RowTypes, TypeOK, PrintLog, dates
  <1>3. PICK a \in Dates : a = from
    BY <1>2
  <1>4. Covers(Range(c.rows), a, c.day - 1, n)
    BY <1>3 DEF CallCovers
  <1>5. Covers(Range(c.rows), a, c.day - 1, n)'
    BY <1>1, <1>4, CoversPrint
  <1>6. Covers(Range(c.rows), from, c.day - 1, n)'
    BY <1>2, <1>3, <1>5 DEF Covers
  <1>. QED BY <1>2, <1>6 DEF CallCovers, Increasing

LEMMA CallKept ==
  ASSUME NEW c, NEW n, CallCovers(c, n), UNCHANGED <<files, from, to>>
  PROVE  CallCovers(c, n)'
  BY DEF CallCovers, Covers, Increasing

LEMMA LastCallNext ==
  ASSUME awaited' # None =>
             \E c, n : /\ Len(calls') > 0 /\ awaited' <= printed'
                       /\ c = calls'[Len(calls')] /\ n = awaited' /\ CallCovers(c, n)'
  PROVE  LastCall'
  BY DEF LastCall, CallCovers, Covers, Increasing

LEMMA LastCallStep ==
  RowTypes /\ FilesInOrder /\ LastCall /\ [Next]_vars => LastCall'
  <1>. SUFFICES ASSUME RowTypes, FilesInOrder, LastCall, [Next]_vars PROVE LastCall'
    OBVIOUS
  <1>0. /\ calls \in Seq(CallRecords) /\ DOMAIN calls = 1 .. Len(calls) /\ Len(calls) \in Nat
        /\ from \in Dates /\ to \in Dates /\ today \in Dates /\ printed \in Nat
        /\ awaited \in Nat \cup {None}
    BY Constants, DateRange DEF RowTypes, TypeOK, CallRecords
  <1>1. awaited # None =>
            \E c \in CallRecords, n \in Nat :
                /\ Len(calls) > 0 /\ awaited <= printed
                /\ c = calls[Len(calls)] /\ n = awaited /\ CallCovers(c, n)
    <2>1. Len(calls) > 0 => calls[Len(calls)] \in CallRecords
      BY <1>0
    <2>. QED BY <1>0, <2>1 DEF LastCall
  <1>2. ASSUME UNCHANGED <<files, from, to, printed, awaited>>,
               Len(calls) > 0 => Len(calls') > 0 /\ calls'[Len(calls')] = calls[Len(calls)]
        PROVE  LastCall'
    <2>1. awaited' # None =>
             \E c, n : /\ Len(calls') > 0 /\ awaited' <= printed'
                       /\ c = calls'[Len(calls')] /\ n = awaited' /\ CallCovers(c, n)'
      BY <1>1, <1>2, CallKept
    <2>. QED BY <2>1, LastCallNext
  <1>3. ASSUME awaited' = None PROVE LastCall'
    BY <1>3 DEF LastCall
  <1>4. ASSUME Len(calls') > 0, calls'[Len(calls')] = Call(from', to'), from' \in Dates, to' \in Dates,
               awaited' = printed, printed' = printed
        PROVE  LastCall'
    <2>1. (from \in Dates /\ to \in Dates => \A n : CallCovers(Call(from, to), n))'
      BY NewCall, PTL
    <2>2. \A n : CallCovers(Call(from, to), n)'
      BY <1>4, <2>1
    <2>3. CallCovers(calls[Len(calls)], awaited)'
      BY <1>4, <2>2 DEF CallCovers, Covers, Increasing
    <2>4. awaited' <= printed'
      BY <1>0, <1>4
    <2>. QED BY <1>4, <2>3, <2>4 DEF LastCall
  <1>5. ASSUME NEW k \in Kinds, PrintLog(k) PROVE LastCall'
    <2>1. UNCHANGED <<from, to, calls, awaited>> /\ printed' = printed + 1
      BY <1>5 DEF PrintLog, dates
    <2>2. awaited' # None =>
             \E c, n : /\ Len(calls') > 0 /\ awaited' <= printed'
                       /\ c = calls'[Len(calls')] /\ n = awaited' /\ CallCovers(c, n)'
      <3>. SUFFICES ASSUME awaited # None
                    PROVE  \E c, n : /\ Len(calls') > 0 /\ awaited' <= printed'
                                     /\ c = calls'[Len(calls')] /\ n = awaited' /\ CallCovers(c, n)'
        BY <2>1
      <3>1. PICK c \in CallRecords, n \in Nat :
                /\ Len(calls) > 0 /\ awaited <= printed
                /\ c = calls[Len(calls)] /\ n = awaited /\ CallCovers(c, n)
        BY <1>1
      <3>2. CallCovers(c, n)'
        BY <1>5, <3>1, CallPrint
      <3>3. awaited' <= printed'
        BY <1>0, <2>1, <3>1
      <3>. QED BY <2>1, <3>1, <3>2, <3>3
    <2>. QED BY <2>2, LastCallNext
  <1>6. ASSUME NextDay PROVE LastCall'
    BY <1>2, <1>6 DEF NextDay, dates
  <1>7. ASSUME NEW a, NEW b, PickDate(a, b) PROVE LastCall'
    BY <1>3, <1>7 DEF PickDate
  <1>8. ASSUME GetLogs PROVE LastCall'
    <2>1. /\ calls' = Append(calls, Call(from, to)) /\ awaited' = printed
          /\ UNCHANGED <<printed, from, to>>
      BY <1>8 DEF GetLogs, server, dates
    <2>2. Call(from, to) \in CallRecords
      BY <1>0, CallType
    <2>3. Len(calls') > 0 /\ calls'[Len(calls')] = Call(from, to)
      BY <1>0, <2>1, <2>2
    <2>4. Call(from', to') = Call(from, to)
      BY <2>1
    <2>. QED BY <1>0, <1>4, <2>1, <2>3, <2>4
  <1>9. ASSUME NEW b, Toggle(b) PROVE LastCall'
    BY <1>2, <1>9 DEF Toggle, server, dates
  <1>10. ASSUME NEW p, PickPage(p) PROVE LastCall'
    BY <1>2, <1>10 DEF PickPage, server, dates
  <1>11. ASSUME SwitchView PROVE LastCall'
    BY <1>2, <1>11 DEF SwitchView, server, dates
  <1>12. ASSUME NEW key, Expand(key) PROVE LastCall'
    BY <1>2, <1>12 DEF Expand, server, dates
  <1>13. ASSUME NEW i \in DOMAIN calls, Find(i) PROVE LastCall'
    <2>1. UNCHANGED <<files, from, to, printed, awaited>>
      BY <1>13 DEF Find, server, dates
    <2>2. Len(calls') = Len(calls) /\ \A j \in DOMAIN calls : j # i => calls'[j] = calls[j]
      BY <1>13, CallRead
    <2>3. CASE i # Len(calls)
      <3>1. Len(calls) > 0 => calls'[Len(calls')] = calls[Len(calls)]
        BY <1>0, <2>2, <2>3
      <3>. QED BY <1>2, <2>1, <2>2, <3>1
    <2>4. CASE i = Len(calls)
      <3>1. awaited' # None =>
             \E c, n : /\ Len(calls') > 0 /\ awaited' <= printed'
                       /\ c = calls'[Len(calls')] /\ n = awaited' /\ CallCovers(c, n)'
        <4>. SUFFICES ASSUME awaited # None
                      PROVE  \E c, n : /\ Len(calls') > 0 /\ awaited' <= printed'
                                       /\ c = calls'[Len(calls')] /\ n = awaited' /\ CallCovers(c, n)'
          BY <2>1
        <4>1. PICK n \in Nat : /\ Len(calls) > 0 /\ awaited <= printed
                               /\ n = awaited /\ CallCovers(calls[i], n)
          BY <1>1, <2>4
        <4>2. CallCovers(calls[i], n)'
          BY <1>13, <4>1, FindCovers
        <4>3. PICK c : c = calls'[i]
          OBVIOUS
        <4>4. CallCovers(c, n)'
          BY <4>2, <4>3 DEF CallCovers, Covers, Increasing
        <4>. QED BY <2>1, <2>2, <2>4, <4>1, <4>3, <4>4
      <3>. QED BY <3>1, LastCallNext
    <2>. QED BY <2>3, <2>4
  <1>14. ASSUME NEW i \in DOMAIN calls, Show(i) \/ GetLogsFails(i) PROVE LastCall'
    <2>1. /\ calls' = RemoveAt(calls, i)
          /\ awaited' = IF i = Len(calls) THEN None ELSE awaited
          /\ UNCHANGED <<files, from, to, printed>>
      BY <1>14 DEF Show, GetLogsFails, server, dates
    <2>2. i # Len(calls) => Len(calls') > 0 /\ calls'[Len(calls')] = calls[Len(calls)]
      BY <2>1, CallRemoved
    <2>. QED BY <1>2, <1>3, <2>1, <2>2
  <1>15. ASSUME Reload PROVE LastCall'
    <2>1. /\ from' = today /\ to' = today /\ calls' = <<Call(today, today)>>
          /\ awaited' = printed /\ printed' = printed
      BY <1>15 DEF Reload, server
    <2>2. Len(calls') > 0 /\ calls'[Len(calls')] = Call(today, today)
      BY <2>1
    <2>. QED BY <1>0, <1>4, <2>1, <2>2
  <1>16. ASSUME UNCHANGED vars PROVE LastCall'
    BY <1>2, <1>16 DEF vars, server, dates
  <1>17. ASSUME NEW i, FindForever(i) PROVE LastCall'
    BY <1>2, <1>17 DEF FindForever, dates
  <1>. QED BY <1>5, <1>6, <1>7, <1>8, <1>9, <1>10, <1>11, <1>12, <1>13, <1>14, <1>15, <1>16,
              <1>17
           DEF Next, Api, User, Answer

\* In whatever order, the rows of the last call are those the page should have.
LEMMA ShowLast ==
  ASSUME RowTypes, LastCall, NEW i \in DOMAIN calls, Show(i), i = Len(calls), awaited # None
  PROVE  LastShown'
  <1>. DEFINE c == calls[i]
              s == c.rows
  <1>1. awaited <= printed /\ CallCovers(c, awaited)
    BY DEF LastCall
  <1>2. /\ fresh' = awaited /\ logs' \in Sorted(s) /\ c.day > c.to
        /\ UNCHANGED <<files, printed, from, to>>
    BY DEF Show, Render, server, dates
  <1>3. calls \in Seq(CallRecords) /\ s \in Seq(Plain) /\ Blank \in Range(s)
    BY DEF RowTypes, TypeOK, CallRecords
  <1>4. c \in CallRecords /\ from \in Dates /\ to \in Dates
    BY <1>3 DEF RowTypes, TypeOK
  <1>5. /\ c.from = from /\ c.to = to
        /\ c.day = from \/ c.day \in from .. to + 1
        /\ Covers(Range(s), from, c.day - 1, awaited)
        /\ Increasing(s)
    BY <1>1 DEF CallCovers
  <1>6. c.day \in Dates
    BY <1>4 DEF CallRecords
  <1>7. DOMAIN s = 1 .. Len(s) /\ Len(s) \in Nat
    BY <1>3
  <1>8. /\ logs' \in Seq(Plain) /\ Range(logs') = Range(s)
        /\ \A p, q \in DOMAIN logs' : logs'[p] = logs'[q] /\ logs'[p] # Blank => p = q
    BY <1>2, <1>3, Sorting
  <1>9. \A x, y \in DOMAIN s : x # y /\ s[x] # Blank /\ s[y] # Blank => s[x].id # s[y].id
    <2>1. \A row \in Plain : row.id \in Nat
      BY RowKinds
    <2>2. \A x \in DOMAIN s : s[x].id \in Nat /\ x \in Nat
      BY <1>3, <2>1
    <2>. QED BY <1>5, <2>2 DEF Increasing
  <1>. HIDE DEF c, s
  <1>10. from .. c.day - 1 = from .. to /\ to \in Days
    <2>1. from \in Nat /\ to \in Nat /\ c.day \in Nat /\ c.day > to
      BY <1>2, <1>4, <1>5, <1>6, Constants, DateRange
    <2>2. from .. c.day - 1 = from .. to
      BY <1>5, <2>1
    <2>3. to \in Days
      BY <1>4, <1>6, <2>1, Constants, DateRange DEF Days
    <2>. QED BY <2>2, <2>3
  <1>11. Covers(Range(s), from, to, awaited)
    BY <1>5, <1>10 DEF Covers
  <1>12. Covers(Range(logs), from, to, fresh)'
    BY <1>2, <1>8, <1>11 DEF Covers
  <1>13. ASSUME NEW p \in DOMAIN logs', NEW q \in DOMAIN logs', p # q, Blank \notin {logs'[p], logs'[q]}
         PROVE  logs'[p].id # logs'[q].id
    <2>1. logs'[p] \in Range(s) /\ logs'[q] \in Range(s) /\ logs'[p] # logs'[q]
      BY <1>8, <1>13 DEF Range
    <2>2. PICK x \in DOMAIN s, y \in DOMAIN s : logs'[p] = s[x] /\ logs'[q] = s[y]
      BY <2>1 DEF Range
    <2>. QED BY <1>9, <1>13, <2>1, <2>2
  <1>14. fresh' <= printed'
    BY <1>1, <1>2
  <1>. QED BY <1>2, <1>10, <1>12, <1>13, <1>14 DEF LastShown, RangeShown

LEMMA LastShownStep ==
  RowTypes /\ FilesInOrder /\ LastCall /\ LastShown /\ [Next]_vars => LastShown'
  <1>. SUFFICES ASSUME RowTypes, FilesInOrder, LastCall, LastShown, [Next]_vars PROVE LastShown'
    OBVIOUS
  <1>0. /\ from \in Dates /\ to \in Dates /\ printed \in Nat /\ fresh \in Nat \cup {None}
    BY Constants DEF RowTypes, TypeOK
  <1>1. ASSUME UNCHANGED <<files, printed, from, to, logs, fresh>> PROVE LastShown'
    BY <1>1 DEF LastShown, RangeShown, Covers
  <1>2. ASSUME fresh' = None PROVE LastShown'
    BY <1>2 DEF LastShown, RangeShown
  <1>3. ASSUME NEW k \in Kinds, PrintLog(k) PROVE LastShown'
    <2>1. UNCHANGED <<from, to, logs, fresh>> /\ printed' = printed + 1
      BY <1>3 DEF PrintLog, dates, shown
    <2>2. CASE fresh = None
      BY <1>2, <2>1, <2>2
    <2>3. CASE fresh # None
      <3>0. PICK rows : rows = Range(logs)
        OBVIOUS
      <3>1. PICK a \in Dates, b \in Days, n \in Nat : a = from /\ b = to /\ n = fresh
        BY <1>0, <2>3 DEF LastShown
      <3>2. n <= printed /\ Covers(rows, a, b, n) /\ b \in 0 .. MaxDay
        BY <2>3, <3>0, <3>1, Constants DEF LastShown, RangeShown
      <3>3. Covers(rows, a, b, n)'
        BY <1>3, <3>2, CoversPrint
      <3>4. Covers(Range(logs), from, to, fresh)'
        BY <2>1, <3>0, <3>1, <3>3 DEF Covers
      <3>5. fresh' <= printed'
        BY <1>0, <2>1, <3>1, <3>2
      <3>. QED BY <2>1, <2>3, <3>4, <3>5 DEF LastShown, RangeShown
    <2>. QED BY <2>2, <2>3
  <1>4. ASSUME NextDay \/ (\E key : Expand(key)) \/ (\E i : Find(i) \/ FindForever(i) \/ GetLogsFails(i))
               \/ UNCHANGED vars
        PROVE  UNCHANGED <<files, printed, from, to, logs, fresh>>
    BY <1>4 DEF NextDay, Expand, Find, FindForever, GetLogsFails, vars, server, dates, shown
  <1>5. ASSUME (\E b : Toggle(b)) \/ (\E p : PickPage(p)) \/ SwitchView
        PROVE  UNCHANGED <<files, printed, from, to, logs, fresh>>
    BY <1>5 DEF Toggle, PickPage, SwitchView, Render, server, dates
  <1>6. ASSUME (\E a, b : PickDate(a, b)) \/ GetLogs \/ Reload PROVE fresh' = None
    BY <1>6 DEF PickDate, GetLogs, Reload
  <1>7. ASSUME NEW i \in DOMAIN calls, Show(i) PROVE LastShown'
    <2>1. fresh' = IF i = Len(calls) THEN awaited ELSE None
      BY <1>7 DEF Show
    <2>2. CASE i = Len(calls) /\ awaited # None
      BY <1>7, <2>2, ShowLast
    <2>3. CASE i # Len(calls) \/ awaited = None
      BY <1>2, <2>1, <2>3
    <2>. QED BY <2>2, <2>3
  <1>. QED BY <1>1, <1>2, <1>3, <1>4, <1>5, <1>6, <1>7 DEF Next, Api, User, Answer

-----------------------------------------------------------------------------
(* LogViewer: what holds in every state.                                   *)

LogsInv == RowTypes /\ FilesInOrder /\ LastCall /\ LastShown /\ PagePicked

LEMMA LogsInductive == Spec => []LogsInv
  <1>1. Init => LogsInv
    <2>. SUFFICES ASSUME Init PROVE LogsInv
      OBVIOUS
    <2>1. PagePicked
      <3>1. logs = <<>> /\ page = 1
        BY DEF Init
      <3>. QED BY <3>1 DEF PagePicked
    <2>. QED BY <2>1, TypesInit, FilesInit, RangeInit DEF LogsInv
  <1>2. LogsInv /\ [Next]_vars => LogsInv'
    BY TypesStep, FilesStep, LastCallStep, LastShownStep, PickedStep DEF LogsInv
  <1>. QED BY <1>1, <1>2, PTL DEF Spec

\* Every variable of the log page and of the API's files keeps its type: in
\* particular no group of a date is ever opened, since none has two rows.
THEOREM LogTypeCorrect == Spec => []TypeOK
  <1>1. LogsInv => TypeOK
    BY DEF LogsInv, RowTypes
  <1>. QED BY <1>1, LogsInductive, PTL

\* What the page shows covers the dates picked up to the moment the last of its calls
\* was made, whatever is printed while the files are read, however many calls are under
\* way, and in whatever order the engine's sort puts it.
THEOREM RangeCorrect == Spec => []RangeShown
  <1>1. LogsInv => RangeShown
    BY DEF LogsInv, LastShown
  <1>. QED BY <1>1, LogsInductive, PTL

\* The pages are numbered from 1 without a gap and full but for the last, and the page
\* picked is one of them unless there were more when it was.
THEOREM PagesCorrect == Spec => []PageShown
  <1>1. LogsInv => PageShown
    BY PickedShows DEF LogsInv
  <1>. QED BY <1>1, LogsInductive, PTL

\* The groups leave out no log of the page, count them all, and warn of every error
\* they do not tell a result of.
THEOREM GroupsCorrect == Spec => []GroupsTellAll
  <1>1. LogsInv => GroupsTellAll
    BY TypesGroup DEF LogsInv
  <1>. QED BY <1>1, LogsInductive, PTL
=============================================================================
