--------------------------- MODULE AccountsProofs ---------------------------
(* Theorems about module Accounts, for any users, companies, products and   *)
(* tabs, and any number of calls of setCompany at once.                     *)
EXTENDS Accounts, TLAPS

LEMMA TypeInit == Init => TypeOK
  BY DEF Init, TypeOK

LEMMA TypeStep == TypeOK /\ [Next]_vars => TypeOK'
  <1>. SUFFICES ASSUME TypeOK, [Next]_vars PROVE TypeOK'
    OBVIOUS
  <1>. USE DEF TypeOK, Token, Call
  <1>1. ASSUME NEW u \in Users, Register(u) \/ RemoveUser(u) PROVE TypeOK'
    BY <1>1 DEF Register, RemoveUser, browser, products
  <1>2. ASSUME NEW u \in Users, NEW c \in Companies, ReadUser(u, c) PROVE TypeOK'
    BY <1>2 DEF ReadUser, browser, products
  <1>3. ASSUME NEW u \in Users, NEW c \in Companies, SetCompanyByAdmin(u, c) PROVE TypeOK'
    BY <1>3 DEF SetCompanyByAdmin, browser, products
  <1>4. ASSUME NEW k \in calls, SetCompany(k) PROVE TypeOK'
    <2>1. k \in Call
      OBVIOUS
    <2>2. company' \in [Users -> Companies \cup {None}] /\ moved' \subseteq Users
      BY <1>4, <2>1 DEF SetCompany
    <2>. QED BY <1>4, <2>2 DEF SetCompany, browser, products
  <1>5. ASSUME NEW t \in Tabs, NEW u \in Users, AskLogin(t, u) PROVE TypeOK'
    BY <1>5 DEF AskLogin, users, products
  <1>6. ASSUME NEW t \in Tabs, LoginFails(t) \/ Logout(t) PROVE TypeOK'
    BY <1>6 DEF LoginFails, Logout, Cross, users, products
  <1>7. ASSUME NEW t \in Tabs, SetAuth(t) PROVE TypeOK'
    BY <1>7 DEF SetAuth, Cross, users, products
  <1>8. ASSUME NEW t \in Tabs, Load(t) PROVE TypeOK'
    BY <1>8 DEF Load, users, products
  <1>9. ASSUME NEW p \in Products, NEW u \in Users \cup {Admin}, NEW c \in Companies \cup {None},
               Insert(p, c, u) \/ SearchAgain(p, u, c) \/ RemoveProduct(p, u, c)
        PROVE TypeOK'
    BY <1>9 DEF Insert, SearchAgain, RemoveProduct, users, browser
  <1>10. ASSUME NEW p \in Products, Search(p) PROVE TypeOK'
    BY <1>10 DEF Search, users, browser
  <1>11. CASE Crash
    BY <1>11 DEF Crash
  <1>12. CASE Pages
    BY <1>9, <1>12 DEF Pages, Calling
  <1>13. CASE SuperAdmin
    BY <1>9, <1>13 DEF SuperAdmin
  <1>14. CASE UNCHANGED vars
    BY <1>14 DEF vars, users, browser, products
  <1>. QED
    BY <1>1, <1>2, <1>3, <1>4, <1>5, <1>6, <1>7, <1>8, <1>10, <1>11, <1>12, <1>13, <1>14
       DEF Next, Accounts, Browser

\* Every reachable state has the declared types.
THEOREM TypeCorrect == Spec => []TypeOK
  BY TypeInit, TypeStep, PTL DEF Spec

-----------------------------------------------------------------------------
(* A company in a token, or of a product, is the user's unless it was moved. *)

Kept(u, c) == c # None /\ u \in Users => c = company[u] \/ u \in moved

KeptInv ==
    /\ \A k \in calls : k.read = None
    /\ stored # None => Kept(stored.user, stored.company)
    /\ \A t \in Tabs : login[t] # None => Kept(login[t].user, login[t].company)
    /\ \A p \in Products : Kept(maker[p], owner[p]) /\ (maker[p] = Admin => owner[p] = None)

LEMMA KeptStep == TypeOK /\ KeptInv /\ [Next]_vars => KeptInv'
  <1>. SUFFICES ASSUME TypeOK, KeptInv, [Next]_vars PROVE KeptInv'
    OBVIOUS
  <1>. USE DEF TypeOK, KeptInv, Kept, Token, Call
  <1>1. ASSUME NEW u \in Users, Register(u) \/ RemoveUser(u) PROVE KeptInv'
    BY <1>1 DEF Register, RemoveUser, browser, products
  <1>2. ASSUME NEW u \in Users, NEW c \in Companies, ReadUser(u, c) PROVE KeptInv'
    BY <1>2 DEF ReadUser, MayChoose, browser, products
  <1>3. ASSUME NEW u \in Users, NEW c \in Companies, SetCompanyByAdmin(u, c) PROVE KeptInv'
    BY <1>3 DEF SetCompanyByAdmin, browser, products
  <1>4. ASSUME NEW k \in calls, SetCompany(k) PROVE KeptInv'
    <2>1. k \in Call /\ k.read = None
      OBVIOUS
    <2>2. \A u \in Users : company'[u] = company[u] \/ company[u] = None \/ u \in moved'
      BY <1>4, <2>1 DEF SetCompany
    <2>3. moved \subseteq moved' /\ calls' \subseteq calls
      BY <1>4 DEF SetCompany
    <2>. QED BY <1>4, <2>2, <2>3 DEF SetCompany, browser, products
  <1>5. ASSUME NEW t \in Tabs, NEW u \in Users, AskLogin(t, u) PROVE KeptInv'
    BY <1>5 DEF AskLogin, users, products
  <1>6. ASSUME NEW t \in Tabs, LoginFails(t) \/ Logout(t) \/ Load(t) PROVE KeptInv'
    BY <1>6 DEF LoginFails, Logout, Load, Cross, users, products
  <1>7. ASSUME NEW t \in Tabs, SetAuth(t) PROVE KeptInv'
    BY <1>7 DEF SetAuth, Cross, users, products
  <1>8. ASSUME NEW p \in Products, NEW u, NEW c, Kept(u, c), u = Admin => c = None,
               Insert(p, c, u)
        PROVE KeptInv'
    BY <1>8 DEF Insert, users, browser
  <1>9. ASSUME NEW p \in Products, NEW u, NEW c,
               Search(p) \/ SearchAgain(p, u, c) \/ RemoveProduct(p, u, c)
        PROVE KeptInv'
    BY <1>9 DEF Search, SearchAgain, RemoveProduct, users, browser
  <1>10. CASE Crash
    BY <1>10 DEF Crash
  <1>11. CASE Pages
    BY <1>8, <1>9, <1>11, ConstantsAssumption DEF Pages, Calling
  <1>12. CASE SuperAdmin
    BY <1>8, <1>9, <1>12 DEF SuperAdmin
  <1>13. CASE UNCHANGED vars
    BY <1>13 DEF vars, users, browser, products
  <1>. QED
    BY <1>1, <1>2, <1>3, <1>4, <1>5, <1>6, <1>7, <1>9, <1>10, <1>11, <1>12, <1>13
       DEF Next, Accounts, Browser

\* A product made for a company is its maker's company's, unless a SUPERADMIN or
\* an overlapping call of setCompany gave the maker another.
THEOREM ProductsKeptCorrect == Spec => []ProductsKept
  <1>1. Init => KeptInv
    BY DEF Init, KeptInv, Kept
  <1>2. TypeOK /\ KeptInv => ProductsKept
    BY ConstantsAssumption DEF TypeOK, KeptInv, Kept, ProductsKept
  <1>. QED BY <1>1, <1>2, KeptStep, TypeCorrect, PTL DEF Spec

-----------------------------------------------------------------------------
(* A tab and the token in localStorage.                                     *)

LEMMA TabStep == TypeOK /\ TabsCallAsShown /\ [Next]_vars => TabsCallAsShown'
  <1>. SUFFICES ASSUME TypeOK, TabsCallAsShown, [Next]_vars PROVE TabsCallAsShown'
    OBVIOUS
  <1>. USE DEF TypeOK, TabsCallAsShown, Token
  <1>1. ASSUME UNCHANGED <<stored, shown, crossed>> PROVE TabsCallAsShown'
    BY <1>1
  <1>2. ASSUME NEW t \in Tabs, SetAuth(t) PROVE TabsCallAsShown'
    BY <1>2, ConstantsAssumption DEF SetAuth, Cross
  <1>3. ASSUME NEW t \in Tabs, Logout(t) PROVE TabsCallAsShown'
    BY <1>3 DEF Logout, Cross
  <1>4. ASSUME NEW t \in Tabs, Load(t) PROVE TabsCallAsShown'
    BY <1>4 DEF Load
  <1>5. CASE Accounts
    BY <1>1, <1>5 DEF Accounts, Register, RemoveUser, ReadUser, SetCompany, SetCompanyByAdmin, browser
  <1>6. ASSUME NEW t \in Tabs, NEW u \in Users, AskLogin(t, u) \/ LoginFails(t)
        PROVE TabsCallAsShown'
    BY <1>1, <1>6 DEF AskLogin, LoginFails
  <1>7. CASE Pages \/ SuperAdmin
    BY <1>1, <1>7 DEF Pages, SuperAdmin, Insert, SearchAgain, RemoveProduct, browser
  <1>8. CASE Crash \/ (\E p \in Products : Search(p)) \/ UNCHANGED vars
    BY <1>1, <1>8 DEF Crash, Search, vars, browser
  <1>9. ASSUME NEW t \in Tabs, LoginFails(t) PROVE TabsCallAsShown'
    BY <1>1, <1>9 DEF LoginFails
  <1>. QED
    BY <1>2, <1>3, <1>4, <1>5, <1>6, <1>7, <1>8, <1>9 DEF Next, Browser

\* A tab calls as the user it shows, unless another tab logged in or out since.
THEOREM TabsCallAsShownCorrect == Spec => []TabsCallAsShown
  <1>1. Init => TabsCallAsShown
    BY DEF Init, TabsCallAsShown
  <1>. QED BY <1>1, TabStep, TypeCorrect, PTL DEF Spec

-----------------------------------------------------------------------------
(* A company in a token, or of a product, was chosen by the user, or given.  *)

Wanted(u, c) == u \in Users => IF c = None THEN u \in early ELSE c \in wanted[u]

WantedInv ==
    /\ \A k \in calls : k.to \in wanted[k.user]
    /\ \A u \in Users : company[u] # None => company[u] \in wanted[u]
    /\ stored # None => Wanted(stored.user, stored.company)
    /\ \A t \in Tabs : login[t] # None => Wanted(login[t].user, login[t].company)
    /\ \A p \in Products : state[p] # "none" => Wanted(maker[p], owner[p])

LEMMA WantedStep == TypeOK /\ WantedInv /\ [Next]_vars => WantedInv'
  <1>. SUFFICES ASSUME TypeOK, WantedInv, [Next]_vars PROVE WantedInv'
    OBVIOUS
  <1>. USE DEF TypeOK, WantedInv, Wanted, Token, Call
  <1>1. ASSUME NEW u \in Users, Register(u) \/ RemoveUser(u) PROVE WantedInv'
    BY <1>1 DEF Register, RemoveUser, browser, products
  <1>2. ASSUME NEW u \in Users, NEW c \in Companies, ReadUser(u, c) PROVE WantedInv'
    <2>1. wanted' = [wanted EXCEPT ![u] = @ \cup {c}]
      BY <1>2 DEF ReadUser, MayChoose
    <2>2. c \in wanted'[u] /\ \A v \in Users : wanted[v] \subseteq wanted'[v]
      BY <2>1
    <2>3. \A k \in calls' : k.to \in wanted'[k.user]
      BY <1>2, <2>2 DEF ReadUser
    <2>. QED BY <1>2, <2>2, <2>3 DEF ReadUser, browser, products
  <1>3. ASSUME NEW u \in Users, NEW c \in Companies, SetCompanyByAdmin(u, c) PROVE WantedInv'
    <2>1. c \in wanted'[u] /\ \A v \in Users : wanted[v] \subseteq wanted'[v]
      BY <1>3 DEF SetCompanyByAdmin
    <2>2. \A v \in Users : company'[v] # None => company'[v] \in wanted'[v]
      BY <1>3, <2>1 DEF SetCompanyByAdmin
    <2>. QED BY <1>3, <2>1, <2>2 DEF SetCompanyByAdmin, browser, products
  <1>4. ASSUME NEW k \in calls, SetCompany(k) PROVE WantedInv'
    <2>1. k \in Call /\ k.to \in wanted[k.user]
      OBVIOUS
    <2>2. \A u \in Users : company'[u] # None => company'[u] \in wanted[u]
      BY <1>4, <2>1 DEF SetCompany
    <2>3. calls' \subseteq calls /\ wanted' = wanted
      BY <1>4 DEF SetCompany
    <2>. QED BY <1>4, <2>2, <2>3 DEF SetCompany, browser, products
  <1>5. ASSUME NEW t \in Tabs, NEW u \in Users, AskLogin(t, u) PROVE WantedInv'
    <2>1. early \subseteq early' /\ Wanted(u, company[u])'
      BY <1>5 DEF AskLogin, users
    <2>. QED BY <1>5, <2>1 DEF AskLogin, users, products
  <1>6. ASSUME NEW t \in Tabs, LoginFails(t) \/ Logout(t) \/ Load(t) PROVE WantedInv'
    BY <1>6 DEF LoginFails, Logout, Load, Cross, users, products
  <1>7. ASSUME NEW t \in Tabs, SetAuth(t) PROVE WantedInv'
    BY <1>7 DEF SetAuth, Cross, users, products
  <1>8. ASSUME NEW p \in Products, NEW u, NEW c, Wanted(u, c), Insert(p, c, u)
        PROVE WantedInv'
    BY <1>8 DEF Insert, users, browser
  <1>9. ASSUME NEW p \in Products, NEW u, NEW c,
               Search(p) \/ SearchAgain(p, u, c) \/ RemoveProduct(p, u, c)
        PROVE WantedInv'
    BY <1>9 DEF Search, SearchAgain, RemoveProduct, users, browser
  <1>10. CASE Crash
    BY <1>10 DEF Crash
  <1>11. CASE Pages
    BY <1>8, <1>9, <1>11 DEF Pages, Calling
  <1>12. CASE SuperAdmin
    BY <1>8, <1>9, <1>12, ConstantsAssumption DEF SuperAdmin
  <1>13. CASE UNCHANGED vars
    BY <1>13 DEF vars, users, browser, products
  <1>. QED
    BY <1>1, <1>2, <1>3, <1>4, <1>5, <1>6, <1>7, <1>9, <1>10, <1>11, <1>12, <1>13
       DEF Next, Accounts, Browser

\* A product is of a company its maker chose or was given; of none only if the
\* maker asked for a token before it had one.
THEOREM OwnersWantedCorrect == Spec => []OwnersWanted
  <1>1. Init => WantedInv
    BY DEF Init, WantedInv
  <1>2. TypeOK /\ WantedInv => OwnersWanted
    BY DEF TypeOK, WantedInv, Wanted, OwnersWanted
  <1>. QED BY <1>1, <1>2, WantedStep, TypeCorrect, PTL DEF Spec
=============================================================================
