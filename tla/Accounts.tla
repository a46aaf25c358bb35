------------------------------ MODULE Accounts ------------------------------
(***************************************************************************)
(* Users, their companies, the tokens they log in to, and the products     *)
(* they make with them.                                                    *)
(*                                                                         *)
(* A token carries the company its user had at login, for thirty days;     *)
(* setCompany writes the document of the user only.  A product is made for *)
(* the company of the token, and every later call finds it by that of its  *)
(* own token, but for a SUPERADMIN's, which finds them all: with no        *)
(* company to look for, the filter has a random one.                       *)
(*                                                                         *)
(* The tabs of a browser share one token, which they read for every call,  *)
(* and each keeps for itself the user it shows.                            *)
(*                                                                         *)
(* The search a product begins with is in module Discovery, its flags in   *)
(* PipelineStatus; the prompts it gets by default are left out.            *)
(***************************************************************************)
EXTENDS Integers, FiniteSets

CONSTANTS
    Users,      \* managers
    Admin,      \* a SUPERADMIN, who uses another browser
    Companies,
    Products,
    Tabs,       \* of one browser
    None,
    MaxCalls    \* bound on the calls of setCompany under way

ASSUME ConstantsAssumption ==
    /\ Admin \notin Users
    /\ None \notin Companies \cup Users
    /\ MaxCalls \in Nat

VARIABLES
    account,   \* whether the document of a user is there
    company,   \* its company
    calls,     \* calls of setCompany that have read the user
    stored,    \* localStorage: the token, or None
    shown,     \* the user each tab shows: useAuthStore
    login,     \* the token a login is about to return to a tab
    state,     \* of each product and the call of create that makes it
    owner,     \* its company
    maker,     \* the user of the token it was made with
    moved,     \* history: users whose company a SUPERADMIN replaced, or a call of
               \* setCompany that had begun when the user had none
    wanted,    \* history: the companies each user chose when it had none, or a
               \* SUPERADMIN gave it
    crossed,   \* history: tabs that show a user since before another tab logged
               \* in or out
    early      \* history: users that asked for a token when they had no company

users    == <<account, company, calls, moved, wanted>>
browser  == <<stored, shown, login, crossed, early>>
products == <<state, owner, maker>>
vars     == <<users, browser, products>>

Token == [user : Users, company : Companies \cup {None}]

Call == [user : Users, to : Companies, read : Companies \cup {None}]

TypeOK ==
    /\ account \in [Users -> {"none", "there", "removed"}]
    /\ company \in [Users -> Companies \cup {None}]
    /\ calls \subseteq Call
    /\ stored \in Token \cup {None}
    /\ shown \in [Tabs -> Users \cup {None}]
    /\ login \in [Tabs -> Token \cup {None}]
    /\ state \in [Products -> {"none", "inserted", "searched", "refused", "dropped", "removed"}]
    /\ owner \in [Products -> Companies \cup {None}]
    /\ maker \in [Products -> Users \cup {Admin}]
    /\ {moved, early} \subseteq SUBSET Users
    /\ wanted \in [Users -> SUBSET Companies]
    /\ crossed \subseteq Tabs

Init ==
    /\ account = [u \in Users |-> "none"]
    /\ company = [u \in Users |-> None]
    /\ calls = {}
    /\ stored = None
    /\ shown = [t \in Tabs |-> None]
    /\ login = [t \in Tabs |-> None]
    /\ state = [p \in Products |-> "none"]
    /\ owner = [p \in Products |-> None]
    /\ maker = [p \in Products |-> Admin]
    /\ moved = {}
    /\ wanted = [u \in Users |-> {}]
    /\ early = {}
    /\ crossed = {}

-----------------------------------------------------------------------------
(* Users.                                                                  *)

\* create: the index on the email lets one insertion through.
Register(u) ==
    /\ account[u] = "none"
    /\ account' = [account EXCEPT ![u] = "there"]
    /\ UNCHANGED <<company, calls, moved, wanted, browser, products>>

\* remove: the tokens of the user go on being good.
RemoveUser(u) ==
    /\ account[u] = "there"
    /\ account' = [account EXCEPT ![u] = "removed"]
    /\ UNCHANGED <<company, calls, moved, wanted, browser, products>>

\* Mutant of MayChoose: a user that has a company may choose another.
MayChooseAgain(u) == account[u] = "there"

\* Only a SUPERADMIN gives a company to a user that has one.
MayChoose(u) == account[u] = "there" /\ company[u] = None

\* setCompany of a user reads its document ...
ReadUser(u, c) ==
    /\ MayChoose(u)
    /\ Cardinality(calls) < MaxCalls
    /\ calls' = calls \cup {[user |-> u, to |-> c, read |-> company[u]]}
    /\ wanted' = IF company[u] = None THEN [wanted EXCEPT ![u] = @ \cup {c}] ELSE wanted
    /\ UNCHANGED <<account, company, moved, browser, products>>

\* ... and then writes it, whatever company it has by now.
SetCompany(k) ==
    /\ calls' = calls \ {k}
    /\ IF account[k.user] = "there"
       THEN /\ company' = [company EXCEPT ![k.user] = k.to]
            /\ moved' = IF company[k.user] # k.read THEN moved \cup {k.user} ELSE moved
       ELSE UNCHANGED <<company, moved>>
    /\ UNCHANGED <<account, wanted, browser, products>>

\* A SUPERADMIN's call looks at nothing that could change before it writes.
SetCompanyByAdmin(u, c) ==
    /\ account[u] = "there"
    /\ company' = [company EXCEPT ![u] = c]
    /\ moved' = IF company[u] # None THEN moved \cup {u} ELSE moved
    /\ wanted' = [wanted EXCEPT ![u] = @ \cup {c}]
    /\ UNCHANGED <<account, calls, browser, products>>

-----------------------------------------------------------------------------
(* Tabs.                                                                   *)

\* Mutant of AskLogin: the token has no company.
AskLoginBare(t, u) ==
    /\ shown[t] = None
    /\ login[t] = None
    /\ account[u] = "there"
    /\ login' = [login EXCEPT ![t] = [user |-> u, company |-> None]]
    /\ early' = IF company[u] = None THEN early \cup {u} ELSE early
    /\ UNCHANGED <<stored, shown, crossed, users, products>>

\* login of the API reads the user, and has a password to compare.
AskLogin(t, u) ==
    /\ shown[t] = None
    /\ login[t] = None
    /\ account[u] = "there"
    /\ login' = [login EXCEPT ![t] = [user |-> u, company |-> company[u]]]
    /\ early' = IF company[u] = None THEN early \cup {u} ELSE early
    /\ UNCHANGED <<stored, shown, crossed, users, products>>

LoginFails(t) ==
    /\ login[t] # None
    /\ login' = [login EXCEPT ![t] = None]
    /\ UNCHANGED <<stored, shown, crossed, early, users, products>>

\* What another tab shows is not what localStorage has now.
Cross(t) == crossed' = {s \in Tabs \ {t} : shown[s] # None}

\* Mutant of SetAuth: a token that is stored is kept.
SetAuthOnce(t) ==
    /\ login[t] # None
    /\ stored' = IF stored = None THEN login[t] ELSE stored
    /\ shown' = [shown EXCEPT ![t] = login[t].user]
    /\ login' = [login EXCEPT ![t] = None]
    /\ Cross(t)
    /\ UNCHANGED <<early, users, products>>

SetAuth(t) ==
    /\ login[t] # None
    /\ stored' = login[t]
    /\ shown' = [shown EXCEPT ![t] = login[t].user]
    /\ login' = [login EXCEPT ![t] = None]
    /\ Cross(t)
    /\ UNCHANGED <<early, users, products>>

Logout(t) ==
    /\ shown[t] # None
    /\ stored' = None
    /\ shown' = [shown EXCEPT ![t] = None]
    /\ Cross(t)
    /\ UNCHANGED <<login, early, users, products>>

\* A tab is opened, or loaded again: the store begins with what is in localStorage.
Load(t) ==
    /\ shown' = [shown EXCEPT ![t] = IF stored = None THEN None ELSE stored.user]
    /\ login' = [login EXCEPT ![t] = None]
    /\ crossed' = crossed \ {t}
    /\ UNCHANGED <<stored, early, users, products>>

-----------------------------------------------------------------------------
(* Products.                                                               *)

\* A call from a page, which is there for a tab that shows a user: without a
\* token AuthGuard refuses it.
Calling(t) == shown[t] # None /\ stored # None

\* create inserts the product.
Insert(p, c, u) ==
    /\ state[p] = "none"
    /\ state' = [state EXCEPT ![p] = "inserted"]
    /\ owner' = [owner EXCEPT ![p] = c]
    /\ maker' = [maker EXCEPT ![p] = u]
    /\ UNCHANGED <<users, browser>>

\* Whether findOne finds the product for a token of user u and company c.
Finds(p, u, c) ==
    /\ state[p] # "removed"
    /\ u = Admin \/ (c # None /\ owner[p] = c)

\* create goes on to findProductInMarketplaces, with the same token.
Search(p) ==
    /\ state[p] = "inserted"
    /\ state' = [state EXCEPT ![p] =
                    IF Finds(p, maker[p], owner[p]) THEN "searched" ELSE "refused"]
    /\ UNCHANGED <<owner, maker, users, browser>>

\* The button of the page, for a token of user u and company c.
SearchAgain(p, u, c) ==
    /\ state[p] \in {"refused", "dropped"}
    /\ Finds(p, u, c)
    /\ state' = [state EXCEPT ![p] = "searched"]
    /\ UNCHANGED <<owner, maker, users, browser>>

RemoveProduct(p, u, c) ==
    /\ state[p] # "none"
    /\ Finds(p, u, c)
    /\ state' = [state EXCEPT ![p] = "removed"]
    /\ UNCHANGED <<owner, maker, users, browser>>

\* The API dies, and every call with it.
Crash ==
    /\ \E p \in Products : state[p] = "inserted"
    /\ state' = [p \in Products |-> IF state[p] = "inserted" THEN "dropped" ELSE state[p]]
    /\ calls' = {}
    /\ login' = [t \in Tabs |-> None]
    /\ UNCHANGED <<account, company, moved, wanted>>
    /\ UNCHANGED <<stored, shown, crossed, early, owner, maker>>

-----------------------------------------------------------------------------
Accounts ==
    \/ \E u \in Users : Register(u) \/ RemoveUser(u)
    \/ \E u \in Users, c \in Companies : ReadUser(u, c) \/ SetCompanyByAdmin(u, c)
    \/ \E k \in calls : SetCompany(k)

Browser ==
    \E t \in Tabs : \/ \E u \in Users : AskLogin(t, u)
                    \/ LoginFails(t) \/ SetAuth(t) \/ Logout(t) \/ Load(t)

Pages ==
    \E t \in Tabs, p \in Products :
        /\ Calling(t)
        /\ \/ Insert(p, stored.company, stored.user)
           \/ SearchAgain(p, stored.user, stored.company)
           \/ RemoveProduct(p, stored.user, stored.company)

SuperAdmin ==
    \E p \in Products : Insert(p, None, Admin) \/ SearchAgain(p, Admin, None) \/ RemoveProduct(p, Admin, None)

Next == Accounts \/ Browser \/ Pages \/ SuperAdmin \/ Crash \/ \E p \in Products : Search(p)

Spec == Init /\ [][Next]_vars

-----------------------------------------------------------------------------
(* Properties.                                                             *)

\* What a user made for a company stays the user's: it is out of the sight of
\* its maker's next login only if a SUPERADMIN gave the user another company, or
\* two calls of setCompany began before the user had one (setCompany in
\* users.service.ts, create in products.service.ts).
ProductsKept ==
    \A p \in Products :
        owner[p] # None /\ owner[p] # company[maker[p]] => maker[p] \in moved

\* A tab calls in the name of the user it shows, unless another tab has logged in
\* or out since (auth.store.ts, axiosConfig.ts).
TabsCallAsShown ==
    \A t \in Tabs : shown[t] # None =>
        t \in crossed \/ (stored # None /\ stored.user = shown[t])

\* A product belongs to a company its maker chose when it had none, or was given by a
\* SUPERADMIN, however many calls of setCompany overlap and whatever token the tabs
\* come to share; to no company only if its maker asked for a token before it had one
\* (login in auth.service.ts, setCompany in users.service.ts, create in
\* products.service.ts).
OwnersWanted ==
    \A p \in Products : state[p] # "none" /\ maker[p] # Admin =>
        IF owner[p] = None THEN maker[p] \in early ELSE owner[p] \in wanted[maker[p]]
=============================================================================
