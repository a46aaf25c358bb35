----------------------------- MODULE LogViewer ------------------------------
(***************************************************************************)
(* The logs the API prints, and the page that shows them.                  *)
(*                                                                         *)
(* printLog appends a row to the file of the day.  A call of the page has  *)
(* the files of some days read one after another, and rows may be printed  *)
(* between two of them.  Before them comes a row that stands for the       *)
(* scrapper's logs, which nothing reads yet, and after each file one more, *)
(* made of its last end of line.  Both are rows without a field, which     *)
(* every filter lets through.                                              *)
(*                                                                         *)
(* Of a field that is cleared or half typed the page makes 'Invalid date', *)
(* which as a string comes after every date.  From it on there is no day;  *)
(* up to it the days never end, and the API goes through them in one turn  *)
(* of its loop: it prints, reads and answers nothing any more.             *)
(*                                                                         *)
(* The page shows those its boxes let through, a page at a time, in a list *)
(* or in groups.  The order of the rows is not known: see Sorted.  A row   *)
(* is known by its place among those the page has.  A group is of one      *)
(* request, or of a date when a row has no request; a row of printLog has  *)
(* one always, since it prints null for none.  The groups of a page that   *)
(* is not there break the component, until it is loaded again.             *)
(***************************************************************************)
EXTENDS Integers, SequencesExt, FiniteSets

CONSTANTS
    MaxDay,        \* days are 1 .. MaxDay
    Kinds,         \* types and origins of the rows that are printed
    Boxes,         \* the types and origins the user hides and shows again
    RowsPerPage,   \* rowsPerPage
    None,
    MaxRows,       \* bound on the rows printed
    MaxCalls,      \* bound on the calls of getLogs under way
    MaxFailures,   \* bound on those that fail
    MaxChoices     \* bound on the dates picked and the calls made since the page was
                   \* loaded

ASSUME ConstantsAssumption ==
    /\ {MaxDay, RowsPerPage} \subseteq Nat \ {0}
    /\ {MaxRows, MaxCalls, MaxFailures, MaxChoices} \subseteq Nat
    /\ None \notin Nat \cup Boxes \cup {"WARNING", "queues", "api", "null", "None"}
    /\ \A k \in Kinds : k.type \in {"INFO", "RESULT", "ERROR", "WARNING"}
    /\ \A k \in Kinds : k.origin \in {"openai", "queues", "api", "null"}

Days == 1 .. MaxDay

\* 'Invalid date', and what a date of the page may be.
NoDate == MaxDay + 1
Dates  == Days \cup {NoDate}

VARIABLES
    today,
    files,      \* the rows of each day's file; no file has none
    printed,    \* how many rows were printed
    stuck,      \* whether the API goes through days without end
    from, to,   \* the dates picked
    calls,      \* calls of getLogs in the order they were made, with the day
                \* find comes to and the rows it has read
    logs,       \* the rows the page has
    hidden,     \* types and origins whose box is not checked
    page,       \* the number of the page
    grouped,    \* whether they are shown in groups
    expanded,   \* the group whose rows are shown, or None
    broken,     \* whether an error has taken the component off the page
    awaited,    \* history: how many rows were printed when the last of the calls was
                \* made, or None if it is not for the dates picked
    fresh,      \* history: the same, of the call whose rows are shown
    narrowed,   \* history: the pages became fewer since the page was picked
    failures, choices

server == <<today, files, printed, stuck>>
dates  == <<from, to>>
shown  == <<logs, hidden, page, grouped, expanded, broken>>
vars   == <<server, dates, calls, shown, awaited, fresh, narrowed, failures, choices>>

-----------------------------------------------------------------------------
(* Rows.                                                                   *)

\* What is not a log: the text in place of the scrapper's logs, and the end of a
\* file.  Its timestamp is no date.
Blank == [id |-> 0, type |-> None, origin |-> None, request |-> None]

Rows == {Blank} \cup [id : 1 .. MaxRows, type : {k.type : k \in Kinds},
                      origin : {k.origin : k \in Kinds}, request : {"null", "None"}]

\* Mutant of Row: no request is printed as the scrapper does.
RowNone(n, k) == [id |-> n, type |-> k.type, origin |-> k.origin, request |-> "None"]

\* The n-th row: none of the API's calls of printLog gives a request.
Row(n, k) == [id |-> n, type |-> k.type, origin |-> k.origin, request |-> "null"]

FileRows(d) == IF files[d] = <<>> THEN <<>> ELSE Append(files[d], Blank)

\* What the sort of getLogs may make of rows.  Its comparator finds no two rows equal,
\* and says of two of one second, and of any row and a Blank, that each comes before
\* the other: of such a comparator the language leaves the order to the engine.  Every
\* log gets a place of its own, and Blank the places that are left.
Sorted(rows) ==
    {[i \in DOMAIN rows |->
          IF i \in Range(place) THEN CHOOSE row \in DOMAIN place : place[row] = i ELSE Blank] :
        place \in Injection(Range(rows) \ {Blank}, DOMAIN rows)}

\* filterLogs: a row is shown unless the box of its type or origin is not checked.
Shows(h, row) == row.type \notin h /\ row.origin \notin h

Kept(l, h) == {i \in DOMAIN l : Shows(h, l[i])}

\* The page of the i-th row: its index among those kept, by the size of a page.
PageOf(l, h, i) == Cardinality({j \in Kept(l, h) : j < i}) \div RowsPerPage + 1

\* The pages there are.
Pages(l, h) == {PageOf(l, h, i) : i \in Kept(l, h)}

\* The rows of page p.
Page(p) == {i \in Kept(logs, hidden) : PageOf(logs, hidden, i) = p}

\* The groups of GroupedLogs.  A row without a request begins the group of its date
\* anew, so that the group is the last of them; of Blank the date is no date.
Key(row) == IF row.request \in {None, "None"} THEN "date" ELSE row.request

Alike(key) == {i \in Page(page) : Key(logs[i]) = key}

Group(key) ==
    IF key = "date" THEN {i \in Alike(key) : \A j \in Alike(key) : j <= i} ELSE Alike(key)

\* getPointerColor, and what a group makes of it.
PointerColor(type) ==
    CASE type = "ERROR"   -> "error"
      [] type = "WARNING" -> "warning"
      [] type = "RESULT"  -> "success"
      [] OTHER            -> "info"

First(group) == CHOOSE i \in group : \A j \in group : i <= j

GroupColor(group) ==
    LET types == {logs[i].type : i \in group}
    IN  CASE "RESULT" \in types -> PointerColor("RESULT")
          [] "RESULT" \notin types /\ "ERROR" \in types -> PointerColor("ERROR")
          [] OTHER -> PointerColor(logs[First(group)].type)

\* What GroupedLogs shows of a group until it is opened: one row, a dot, and how
\* many rows there are.
Header(group) ==
    [row |-> logs[First(group)], dot |-> GroupColor(group), count |-> Cardinality(group)]

\* What SimpleLog shows of a row: a dot.
Dot(i) == PointerColor(logs[i].type)

\* The number of rows the page says it is viewing, of how many.
Viewing == [rows |-> Cardinality(Kept(logs, hidden)), of |-> Len(logs)]

-----------------------------------------------------------------------------
TypeOK ==
    /\ today \in Days
    /\ files \in [Days -> Seq(Rows)]
    /\ printed \in 0 .. MaxRows
    /\ stuck \in BOOLEAN
    /\ {from, to} \subseteq Dates
    /\ calls \in Seq([from : Dates, to : Dates, day : Dates, rows : Seq(Rows)])
    /\ logs \in Seq(Rows)
    /\ hidden \subseteq Boxes \cup {"WARNING", "queues", "api"}
    /\ page \in Nat \ {0}
    /\ grouped \in BOOLEAN /\ broken \in BOOLEAN
    /\ expanded \in {None, "null"}
    /\ {awaited, fresh} \subseteq 0 .. MaxRows \cup {None}
    /\ narrowed \in BOOLEAN
    /\ failures \in 0 .. MaxFailures
    /\ choices \in 0 .. MaxChoices

Call(a, b) == [from |-> a, to |-> b, day |-> a, rows |-> <<Blank>>]

Init ==
    /\ today = 1
    /\ files = [d \in Days |-> <<>>]
    /\ printed = 0
    /\ stuck = FALSE
    /\ from = 1 /\ to = 1
    /\ calls = <<Call(1, 1)>>
    /\ logs = <<>>
    /\ hidden = {"WARNING", "queues", "api"}
    /\ page = 1
    /\ grouped = FALSE
    /\ expanded = None
    /\ broken = FALSE
    /\ awaited = 0
    /\ fresh = None
    /\ narrowed = FALSE
    /\ failures = 0
    /\ choices = 0

-----------------------------------------------------------------------------
(* The API.                                                                *)

PrintLog(k) ==
    /\ ~stuck
    /\ printed < MaxRows
    /\ printed' = printed + 1
    /\ files' = [files EXCEPT ![today] = Append(@, Row(printed + 1, k))]
    /\ UNCHANGED <<today, stuck, dates, calls, shown, awaited, fresh, narrowed, failures,
                   choices>>

NextDay ==
    /\ today < MaxDay
    /\ today' = today + 1
    /\ UNCHANGED <<files, printed, stuck, dates, calls, shown, awaited, fresh, narrowed,
                   failures, choices>>

\* Mutant of Find: the last day is left out.
FindBefore(i) ==
    /\ ~stuck
    /\ calls[i].to \in Days /\ calls[i].day <= calls[i].to
    /\ calls' = [calls EXCEPT
           ![i].rows = IF calls[i].day < calls[i].to THEN @ \o FileRows(calls[i].day) ELSE @,
           ![i].day = @ + 1]
    /\ UNCHANGED <<server, dates, shown, awaited, fresh, narrowed, failures, choices>>

\* LogsService.find, for a range of dates only: it reads the file of the next day.
Find(i) ==
    /\ ~stuck
    /\ calls[i].to \in Days /\ calls[i].day <= calls[i].to
    /\ calls' = [calls EXCEPT ![i].rows = @ \o FileRows(calls[i].day), ![i].day = @ + 1]
    /\ UNCHANGED <<server, dates, shown, awaited, fresh, narrowed, failures, choices>>

\* The same, for a range that ends with no date.
FindForever(i) ==
    /\ ~stuck
    /\ calls[i].to = NoDate
    /\ stuck' = TRUE
    /\ UNCHANGED <<today, files, printed, dates, calls, shown, awaited, fresh, narrowed,
                   failures, choices>>

-----------------------------------------------------------------------------
(* The page.                                                               *)

\* The component is rendered with rows l, boxes h, page p, in groups or not.
Render(l, h, p, g) ==
    /\ logs' = l
    /\ hidden' = h
    /\ page' = p
    /\ grouped' = g
    /\ expanded' = IF g THEN expanded ELSE None
    /\ broken' = (g /\ p \notin Pages(l, h))

Narrow(l, h) ==
    narrowed' = (narrowed \/ Cardinality(Pages(l, h)) < Cardinality(Pages(logs, hidden)))

PickDate(a, b) ==
    /\ choices < MaxChoices
    /\ choices' = choices + 1
    /\ <<a, b>> # dates
    /\ a = from \/ b = to
    /\ from' = a /\ to' = b
    /\ awaited' = None
    /\ fresh' = None
    /\ UNCHANGED <<server, calls, shown, narrowed, failures>>

\* The button of getLogs.
GetLogs ==
    /\ Len(calls) < MaxCalls
    /\ choices < MaxChoices
    /\ choices' = choices + 1
    /\ calls' = Append(calls, Call(from, to))
    /\ awaited' = printed
    /\ fresh' = None
    /\ UNCHANGED <<server, dates, shown, narrowed, failures>>

\* getLogs sorts what comes back and sets it.
Show(i) ==
    /\ calls[i].day > calls[i].to
    /\ \E rows \in Sorted(calls[i].rows) :
           Render(rows, hidden, page, grouped) /\ Narrow(rows, hidden)
    /\ calls' = RemoveAt(calls, i)
    /\ awaited' = IF i = Len(calls) THEN None ELSE awaited
    /\ fresh' = IF i = Len(calls) THEN awaited ELSE None
    /\ UNCHANGED <<server, dates, failures, choices>>

GetLogsFails(i) ==
    /\ failures < MaxFailures
    /\ failures' = failures + 1
    /\ calls' = RemoveAt(calls, i)
    /\ awaited' = IF i = Len(calls) THEN None ELSE awaited
    /\ UNCHANGED <<server, dates, shown, fresh, narrowed, choices>>

\* The boxes.
Toggle(b) ==
    /\ LET h == IF b \in hidden THEN hidden \ {b} ELSE hidden \cup {b}
       IN  Render(logs, h, page, grouped) /\ Narrow(logs, h)
    /\ UNCHANGED <<server, dates, calls, awaited, fresh, failures, choices>>

\* Mutant of PickPage: pages are counted from 0.
PickPageFromZero(p) ==
    /\ p \in Pages(logs, hidden)
    /\ Render(logs, hidden, p + 1, grouped)
    /\ narrowed' = FALSE
    /\ UNCHANGED <<server, dates, calls, awaited, fresh, failures, choices>>

\* Pagination offers the pages there are, and the one before.
PickPage(p) ==
    /\ p \in Pages(logs, hidden) \/ (p = page - 1 /\ p > 0)
    /\ Render(logs, hidden, p, grouped)
    /\ narrowed' = (narrowed /\ p \notin Pages(logs, hidden))
    /\ UNCHANGED <<server, dates, calls, awaited, fresh, failures, choices>>

\* The switch of the simple view.
SwitchView ==
    /\ Render(logs, hidden, page, ~grouped)
    /\ UNCHANGED <<server, dates, calls, awaited, fresh, narrowed, failures, choices>>

\* A group of more rows than one opens and closes.
Expand(key) ==
    /\ grouped
    /\ Cardinality(Group(key)) > 1
    /\ expanded' = IF expanded = key THEN None ELSE key
    /\ UNCHANGED <<server, dates, calls, logs, hidden, page, grouped, broken,
                   awaited, fresh, narrowed, failures, choices>>

\* The page is loaded again.
Reload ==
    /\ choices' = 0
    /\ from' = today /\ to' = today
    /\ calls' = <<Call(today, today)>>
    /\ Render(<<>>, {"WARNING", "queues", "api"}, 1, FALSE)
    /\ awaited' = printed /\ fresh' = None /\ narrowed' = FALSE
    /\ UNCHANGED <<server, failures>>

-----------------------------------------------------------------------------
Api == \/ \E k \in Kinds : PrintLog(k)
       \/ NextDay

User == /\ ~broken
        /\ \/ \E a, b \in Dates : PickDate(a, b)
           \/ GetLogs
           \/ \E b \in Boxes : Toggle(b)
           \/ \E p \in Pages(logs, hidden) \cup {page - 1} : PickPage(p)
           \/ SwitchView
           \/ \E key \in {"null", "date"} : Expand(key)

Answer == \E i \in DOMAIN calls :
              Find(i) \/ FindForever(i) \/ (~broken /\ Show(i)) \/ GetLogsFails(i)

Next == Api \/ User \/ Answer \/ Reload

Spec == Init /\ [][Next]_vars

-----------------------------------------------------------------------------
(* Properties.                                                             *)

\* The rows of the days a to b that were printed up to the n-th are among these, no
\* other day's, and of no file a row without those before it.
Covers(rows, a, b, n) ==
    /\ \A row \in rows : row # Blank => \E d \in a .. b : row \in Range(files[d])
    /\ \A d \in a .. b : \A row \in Range(files[d]) :
           \/ row \in rows
           \/ row.id > n /\ \A later \in rows \cap Range(files[d]) : later.id < row.id

\* The page has the rows of the dates picked that were printed when it asked for
\* them, each once, whatever order the sort puts them in, as long as no date was
\* picked since and no older call was answered after the last; of a file that is read
\* while rows are printed it has the beginning, and of a range without a day nothing
\* (getLogs in log-timeline.tsx, find in logs.service.ts).
RangeShown ==
    fresh # None =>
        /\ Covers(Range(logs), from, to, fresh)
        /\ \A i, j \in DOMAIN logs :
               i # j /\ Blank \notin {logs[i], logs[j]} => logs[i].id # logs[j].id

\* The pages that hold the rows the boxes let through are numbered from 1, follow
\* the order of the rows and are full, but for the last; with those before it full,
\* they hold as many as the page says.  The page picked is one of them, unless there
\* were more when it was: then nothing is shown, or the component breaks (filterLogs
\* and setPage in log-timeline.tsx).
PageShown ==
    LET count == Cardinality(Pages(logs, hidden))
    IN  /\ Pages(logs, hidden) = 1 .. count
        /\ \A i, j \in Kept(logs, hidden) :
               i < j => PageOf(logs, hidden, i) <= PageOf(logs, hidden, j)
        /\ \A p \in 1 .. count :
               Cardinality(Page(p)) =
                   IF p < count THEN RowsPerPage ELSE Viewing.rows - (count - 1) * RowsPerPage
        /\ page > count => narrowed \/ logs = <<>>

\* No log of a page is left out of the groups, which count it.  The dot of a group
\* warns of an error that the list has a dot for, unless it tells of a result
\* (grouped-log.tsx, simple-log.tsx, printLog).
GroupsTellAll ==
    grouped /\ ~broken =>
        \A i \in Page(page) : logs[i] # Blank =>
            LET group == Group(Key(logs[i]))
            IN  /\ i \in group
                /\ Header(group).count =
                       Cardinality({j \in Page(page) : Key(logs[j]) = Key(logs[i])})
                /\ Dot(i) = "error" => Header(group).dot \in {"error", "success"}
=============================================================================
