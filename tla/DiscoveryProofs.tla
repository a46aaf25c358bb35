--------------------------- MODULE DiscoveryProofs ---------------------------
(***************************************************************************)
(* Theorems about Discovery, for every set of searches, products and       *)
(* replicas, every number of products wanted and of failures.              *)
(***************************************************************************)
EXTENDS Discovery, FiniteSetTheorems, TLAPS

-----------------------------------------------------------------------------
(* Types.                                                                  *)

Statuses == {"absent", "sought", "PENDING", "IN_PROGRESS", "COMPLETED", "ERROR"}

\* A replica inside its callback has a task of the kind its place is about.
PlaceOK(w) ==
    /\ at[w] # "idle" => task[w] \in Requests
    /\ at[w] \in {"searching", "inserting", "requesting"} => task[w] \in Searches
    /\ at[w] \in {"opening", "telling"} => task[w] \in Products

\* The initial state is typed.
LEMMA TypeInit == Init => TypeOK
  BY ConstantsAssumption DEF Init, TypeOK, Queue!Init, Places

\* A replica that goes on with its task, or ends it, is where it should be.
LEMMA PlacesKept ==
    ASSUME TypeOK, NEW w \in Replicas, NEW place \in Places, Goto(w, place),
           \A v \in Replicas : v # w => task'[v] = task[v],
           place # "idle" => task'[w] \in Requests,
           place \in {"searching", "inserting", "requesting"} => task'[w] \in Searches,
           place \in {"opening", "telling"} => task'[w] \in Products
    PROVE  at' \in [Replicas -> Places] /\ \A v \in Replicas : PlaceOK(v)'
  <1>1. /\ at' \in [Replicas -> Places] /\ at'[w] = place
        /\ \A v \in Replicas : v # w => at'[v] = at[v]
    BY DEF TypeOK, Goto
  <1>. QED BY <1>1 DEF PlaceOK, TypeOK

\* A replica that forgets its task.
LEMMA ForgetType ==
    ASSUME TypeOK, NEW w \in Replicas, Forget(w)
    PROVE  /\ at' \in [Replicas -> Places] /\ \A v \in Replicas : PlaceOK(v)'
           /\ task' \in [Replicas -> Requests \cup {None}]
           /\ turn' \in [Replicas -> Nat]
           /\ left' \in [Replicas -> 0 .. Wanted]
           /\ batch' \in [Replicas -> SUBSET Products]
  <1>1. task' \in [Replicas -> Requests \cup {None}] /\ \A v \in Replicas : v # w => task'[v] = task[v]
    BY DEF Forget, TypeOK
  <1>2. /\ turn' \in [Replicas -> Nat] /\ left' \in [Replicas -> 0 .. Wanted]
        /\ batch' \in [Replicas -> SUBSET Products]
    BY ConstantsAssumption DEF Forget, TypeOK
  <1>3. Goto(w, "idle") /\ "idle" \in Places
    BY DEF Forget, Places
  <1>. QED BY <1>1, <1>2, <1>3, PlacesKept

\* Every step keeps the state typed.
LEMMA TypeStep == TypeOK /\ [Next]_vars => TypeOK'
  <1>. SUFFICES ASSUME TypeOK, [Next]_vars PROVE TypeOK'
    OBVIOUS
  <1>. USE DEF TypeOK
  <1>p. (\A w \in Replicas : PlaceOK(w)') <=>
           \A w \in Replicas :
              /\ at'[w] # "idle" => task'[w] \in Requests
              /\ at'[w] \in {"searching", "inserting", "requesting"} => task'[w] \in Searches
              /\ at'[w] \in {"opening", "telling"} => task'[w] \in Products
    BY DEF PlaceOK
  <1>r. Searches \subseteq Requests /\ Products \subseteq Requests
    BY DEF Requests
  <1>1. CASE UNCHANGED vars
    BY <1>1 DEF vars, queue, made, listed, replica, history
  <1>2. ASSUME NEW s \in Searches, Seek(s) \/ Request(s) PROVE TypeOK'
    <2>1. status' \in [Requests -> Statuses] /\ stage' \in [Requests -> {"none", "queued", "done"}]
      BY <1>2, <1>r DEF Seek, Request, Queue!Publish, queue, Statuses
    <2>2. UNCHANGED <<runs, made, listed, replica, history, failures>>
      BY <1>2 DEF Seek, Request, Queue!Publish, queue
    <2>. QED BY <2>1, <2>2 DEF made, listed, replica, history, Statuses
  <1>3. ASSUME NEW h, CheckMatches \/ (h \in Handlers /\ (ReadArray(h) \/ WriteArray(h))) PROVE TypeOK'
    <2>1. /\ matches' \subseteq Products /\ checked' \subseteq Products /\ dropped' \subseteq Products
          /\ held' \in [Handlers -> SUBSET SUBSET Products]
      <3>1. CASE CheckMatches
        BY <3>1 DEF CheckMatches
      <3>2. CASE h \in Handlers /\ ReadArray(h)
        BY <3>2 DEF ReadArray
      <3>3. CASE h \in Handlers /\ WriteArray(h)
        BY <3>3 DEF WriteArray
      <3>. QED BY <1>3, <3>1, <3>2, <3>3
    <2>2. UNCHANGED <<status, queue, made, replica, history, failures>>
      BY <1>3 DEF CheckMatches, ReadArray, WriteArray
    <2>. QED BY <2>1, <2>2 DEF queue, made, replica, history
  <1>4. ASSUME NEW w \in Replicas, NEW r \in Requests, Begin(w, r) PROVE TypeOK'
    <2>1. /\ runs' \in [Requests -> Nat] /\ task' \in [Replicas -> Requests \cup {None}]
          /\ turn' \in [Replicas -> Nat]
      BY <1>4 DEF Begin, Queue!Attempt
    <2>2. task'[w] = r /\ \A v \in Replicas : v # w => task'[v] = task[v]
      BY <1>4 DEF Begin
    <2>3. Goto(w, "beginning")
      BY <1>4 DEF Begin
    <2>4. at' \in [Replicas -> Places] /\ \A v \in Replicas : PlaceOK(v)'
      BY <1>r, <2>2, <2>3, PlacesKept DEF Places
    <2>5. UNCHANGED <<status, stage, made, listed, left, batch, cut, history, failures>>
      BY <1>4 DEF Begin, Queue!Attempt
    <2>. QED BY <1>p, <2>1, <2>4, <2>5 DEF made, listed, history
  <1>5. ASSUME NEW w \in Replicas, NEW n \in 0 .. Wanted, Found(w, n) PROVE TypeOK'
    <2>1. left' \in [Replicas -> 0 .. Wanted]
      BY <1>5 DEF Found
    <2>2. UNCHANGED <<status, stage, runs, made, listed, task, turn, batch, cut, history, failures>>
      BY <1>5 DEF Found, queue
    <2>3. at' \in [Replicas -> Places] /\ \A v \in Replicas : PlaceOK(v)'
      BY <1>5, <1>r, <2>2, PlacesKept DEF Found, Places
    <2>. QED BY <1>p, <2>1, <2>2, <2>3 DEF made, listed, history
  <1>6. ASSUME NEW w \in Replicas, NEW p \in Products, CreateProduct(w, p) PROVE TypeOK'
    <2>1. /\ left' \in [Replicas -> 0 .. Wanted]
          /\ batch' \in [Replicas -> SUBSET Products]
          /\ origin' \in [Products -> Searches \cup {None}]
          /\ nth' \in [Products -> Nat]
      <3>1. left[w] - 1 \in 0 .. Wanted /\ left' = [left EXCEPT ![w] = left[w] - 1]
        BY <1>6, ConstantsAssumption DEF CreateProduct
      <3>2. task[w] \in Searches
        BY <1>6 DEF CreateProduct
      <3>. QED BY <1>6, <3>1, <3>2 DEF CreateProduct, Insert
    <2>2. UNCHANGED <<status, stage, runs, listed, task, turn, cut, history, failures>>
      BY <1>6 DEF CreateProduct, queue
    <2>3. at' \in [Replicas -> Places] /\ \A v \in Replicas : PlaceOK(v)'
      BY <1>6, <1>r, <2>2, PlacesKept DEF CreateProduct, Places
    <2>. QED BY <1>p, <2>1, <2>2, <2>3 DEF listed, history
  <1>7. ASSUME NEW w \in Replicas, CreateRequest(w) PROVE TypeOK'
    <2>1. status' \in [Requests -> Statuses] /\ stage' \in [Requests -> {"none", "queued", "done"}]
      BY <1>7, <1>r DEF CreateRequest, Queue!Publish, Statuses
    <2>2. /\ UNCHANGED <<runs, made, listed, work, cut, history, failures>>
          /\ at[w] = "requesting" /\ Goto(w, "inserting")
      BY <1>7 DEF CreateRequest, Queue!Publish
    <2>3. at' \in [Replicas -> Places] /\ \A v \in Replicas : PlaceOK(v)'
      BY <2>2, <1>r, PlacesKept DEF Places, work
    <2>. QED BY <1>p, <2>1, <2>2, <2>3 DEF made, listed, work, history, Statuses
  <1>8. ASSUME NEW w \in Replicas, CreateRequestFails(w) \/ StartFails(w) \/ Fail(w) PROVE TypeOK'
    <2>1. status' \in [Requests -> Statuses] /\ failures' \in Nat
      BY <1>8, <1>r DEF CreateRequestFails, StartFails, Fail, Failure, Statuses
    <2>2. Inserting(w) => Execution(w) \in Searches \X Nat
      BY DEF Inserting, Execution
    <2>3. early' \subseteq Products /\ unread' \subseteq Products /\ broken' \subseteq Searches \X Nat
      BY <1>8, <2>2 DEF CreateRequestFails, StartFails, Fail, Inserting
    <2>4. UNCHANGED <<stage, runs, made, listed, work, cut>> /\ at[w] # "idle"
      BY <1>8 DEF CreateRequestFails, StartFails, Fail, queue
    <2>5. PICK place \in {"failing", "acking"} : Goto(w, place)
      BY <1>8 DEF CreateRequestFails, StartFails, Fail
    <2>6. at' \in [Replicas -> Places] /\ \A v \in Replicas : PlaceOK(v)'
      BY <2>4, <2>5, <1>r, PlacesKept DEF Places, work
    <2>. QED BY <1>p, <2>1, <2>3, <2>4, <2>6 DEF made, listed, work, Statuses
  <1>9. ASSUME NEW w \in Replicas, NEW next \in {"completing", "telling"},
               Push(w) \/ GiveUp(w) \/ Look(w) \/ Tell(w), Goto(w, next)
        PROVE  TypeOK'
    <2>1. matches' \subseteq Products /\ checked' \subseteq Products
      BY <1>9 DEF Push, GiveUp, Look, Tell, listed
    <2>2. early' \subseteq Products /\ unread' \subseteq Products
      BY <1>9 DEF Push, GiveUp, Look, Tell, history
    <2>3. UNCHANGED <<status, stage, runs, made, held, dropped, work, cut, broken, failures>>
      BY <1>9 DEF Push, GiveUp, Look, Tell, queue, listed, history
    <2>4. at' \in [Replicas -> Places] /\ \A v \in Replicas : PlaceOK(v)'
      <3>1. at[w] # "idle" /\ (next = "telling" => task[w] \in Products)
        BY <1>9 DEF Push, GiveUp, Look, Tell, Goto
      <3>. QED BY <1>9, <2>3, <3>1, PlacesKept DEF Places, work
    <2>. QED BY <1>p, <2>1, <2>2, <2>3, <2>4 DEF made, work
  <1>10. ASSUME NEW w \in Replicas, Push(w) \/ GiveUp(w) \/ Look(w) \/ Tell(w) PROVE TypeOK'
    <2>1. PICK next \in {"completing", "telling"} : Goto(w, next)
      BY <1>10 DEF Push, GiveUp, Look, Tell
    <2>. QED BY <1>9, <1>10, <2>1
  <1>11. ASSUME NEW w \in Replicas, Start(w) PROVE TypeOK'
    <2>1. status' \in [Requests -> Statuses]
      BY <1>11 DEF Start, Statuses
    <2>2. UNCHANGED <<stage, runs, made, listed, work, cut, history, failures>> /\ at[w] = "beginning"
      BY <1>11 DEF Start, queue
    <2>3. PICK place \in {"searching", "opening"} :
            Goto(w, place) /\ (IF place = "searching" THEN task[w] \in Searches ELSE task[w] \in Products)
      BY <1>11 DEF Start, Requests
    <2>4. at' \in [Replicas -> Places] /\ \A v \in Replicas : PlaceOK(v)'
      BY <2>2, <2>3, <1>r, PlacesKept DEF Places, work
    <2>. QED BY <1>p, <2>1, <2>2, <2>4 DEF made, listed, work, history, Statuses
  <1>12. ASSUME NEW w \in Replicas, Complete(w) \/ Error(w) PROVE TypeOK'
    <2>1. PICK s \in {"COMPLETED", "ERROR"} : Finish(w, s) /\ at[w] \in {"completing", "failing"}
      BY <1>12 DEF Complete, Error
    <2>2. status' \in [Requests -> Statuses]
      BY <2>1 DEF Finish, Statuses
    <2>3. UNCHANGED <<stage, runs, made, listed, work, cut, history, failures>>
      BY <2>1 DEF Finish, queue
    <2>4. at' \in [Replicas -> Places] /\ \A v \in Replicas : PlaceOK(v)'
      BY <2>1, <2>3, <1>r, PlacesKept DEF Places, Finish, work
    <2>. QED BY <1>p, <2>2, <2>3, <2>4 DEF made, listed, work, history, Statuses
  <1>13. ASSUME NEW w \in Replicas, Ack(w) \/ AckFails(w) \/ Crash(w) PROVE TypeOK'
    <2>1. Forget(w) /\ UNCHANGED <<status, runs, made, listed, early, unread>>
      BY <1>13 DEF Ack, AckFails, Crash, Queue!Finish, queue, history
    <2>2. stage' \in [Requests -> {"none", "queued", "done"}]
      BY <1>13 DEF Ack, AckFails, Crash, Queue!Finish, queue
    <2>3. Inserting(w) => Execution(w) \in Searches \X Nat
      BY DEF Inserting, Execution
    <2>4. cut' \subseteq Replicas /\ failures' \in Nat /\ broken' \subseteq Searches \X Nat
      BY <1>13, <2>3 DEF Ack, AckFails, Crash, Failure, history
    <2>. QED BY <1>p, <2>1, <2>2, <2>4, ForgetType DEF made, listed
  <1>14. ASSUME NEW w \in Replicas, Cut(w) PROVE TypeOK'
    <2>1. cut' \subseteq Replicas /\ failures' \in Nat
      BY <1>14 DEF Cut, Failure
    <2>. QED BY <1>14, <2>1 DEF Cut, queue, made, listed, work, history
  <1>. QED
    BY <1>1, <1>2, <1>3, <1>4, <1>5, <1>6, <1>7, <1>8, <1>10, <1>11, <1>12, <1>13, <1>14
       DEF Next, Callback, Search, ReadProduct

\* Every reachable state has the declared types.
THEOREM TypeCorrect == Spec => []TypeOK
  BY TypeInit, TypeStep, PTL DEF Spec

-----------------------------------------------------------------------------
(* What is listed will be read.                                            *)

\* All a replica has inserted has a request published, the last one excepted
\* while its request is being made; what it will push is only that, and what the
\* handlers will write was pushed.
RequestedInv ==
    /\ \A p \in matches : stage[p] # "none"
    /\ \A h \in Handlers : \A a \in held[h] : \A p \in a : stage[p] # "none"
    /\ \A w \in Replicas :
          /\ at[w] \in {"idle", "beginning", "searching"} => batch[w] = {}
          /\ at[w] = "inserting" => \A p \in batch[w] : stage[p] # "none"
          /\ at[w] = "requesting" =>
                \A p, q \in batch[w] : stage[p] = "none" /\ stage[q] = "none" => p = q

\* Published is published, whatever happens.
LEMMA StageStays ==
    ASSUME TypeOK, [Next]_vars
    PROVE  \A r \in Requests : stage[r] # "none" => stage'[r] # "none"
  <1>. USE DEF TypeOK
  <1>1. CASE UNCHANGED stage
    BY <1>1
  <1>2. ASSUME NEW r \in Requests, Queue!Publish(r) \/ Queue!Finish(r)
        PROVE  \A q \in Requests : stage[q] # "none" => stage'[q] # "none"
    BY <1>2 DEF Queue!Publish, Queue!Finish
  <1>3. UNCHANGED stage \/ \E r \in Requests : Queue!Publish(r) \/ Queue!Finish(r)
    <2>1. CASE UNCHANGED vars
      BY <2>1 DEF vars, queue
    <2>2. ASSUME NEW s \in Searches, Seek(s) \/ Request(s)
          PROVE  UNCHANGED stage \/ \E r \in Requests : Queue!Publish(r)
      BY <2>2 DEF Seek, Request, queue, Requests
    <2>3. ASSUME NEW h, CheckMatches \/ ReadArray(h) \/ WriteArray(h) PROVE UNCHANGED stage
      BY <2>3 DEF CheckMatches, ReadArray, WriteArray, queue
    <2>4. ASSUME NEW w \in Replicas, CreateRequest(w) PROVE \E r \in Requests : Queue!Publish(r)
      BY <2>4 DEF CreateRequest, Requests
    <2>5. ASSUME NEW w \in Replicas, Ack(w) PROVE \E r \in Requests : Queue!Finish(r)
      BY <2>5 DEF Ack
    <2>6. ASSUME NEW w \in Replicas, NEW x, \/ Begin(w, x) \/ Start(w) \/ StartFails(w) \/ Found(w, x)
                                            \/ CreateProduct(w, x) \/ Push(w) \/ ReadProduct(w)
          PROVE  UNCHANGED stage
      BY <2>6 DEF Begin, Queue!Attempt, Start, StartFails, Found, CreateProduct, Push, ReadProduct,
                  GiveUp, Look, Tell, queue
    <2>7. ASSUME NEW w \in Replicas, \/ Complete(w) \/ Error(w) \/ AckFails(w) \/ Crash(w)
                                     \/ Cut(w) \/ CreateRequestFails(w) \/ Fail(w)
          PROVE  UNCHANGED stage
      BY <2>7 DEF Complete, Error, Finish, AckFails, Crash, Cut, CreateRequestFails, Fail, queue
    <2>. QED BY <2>1, <2>2, <2>3, <2>4, <2>5, <2>6, <2>7 DEF Next, Callback, Search
  <1>. QED BY <1>1, <1>2, <1>3

\* Nothing is published at first.
LEMMA RequestedInit == Init => RequestedInv
  BY DEF Init, RequestedInv

\* A step that inserts nothing and pushes nothing.
LEMMA RequestedQuiet ==
    ASSUME TypeOK, RequestedInv, [Next]_vars, UNCHANGED <<matches, held>>,
           \A w \in Replicas :
              \/ batch'[w] = {}
              \/ /\ batch'[w] = batch[w]
                 /\ \/ at'[w] = at[w]
                    \/ at'[w] \notin {"idle", "beginning", "searching", "inserting", "requesting"}
    PROVE  RequestedInv'
  <1>1. \A p \in matches' : stage'[p] # "none"
    BY StageStays DEF RequestedInv, TypeOK, Requests
  <1>2. \A h \in Handlers : \A a \in held'[h] : \A p \in a : stage'[p] # "none"
    BY StageStays DEF RequestedInv, TypeOK, Requests
  <1>3. ASSUME NEW w \in Replicas
        PROVE  /\ at'[w] \in {"idle", "beginning", "searching"} => batch'[w] = {}
               /\ at'[w] = "inserting" => \A p \in batch'[w] : stage'[p] # "none"
               /\ at'[w] = "requesting" =>
                     \A p, q \in batch'[w] : stage'[p] = "none" /\ stage'[q] = "none" => p = q
    BY StageStays DEF RequestedInv, TypeOK, Requests
  <1>. QED BY <1>1, <1>2, <1>3 DEF RequestedInv

\* Every step keeps it.
LEMMA RequestedStep == TypeOK /\ RequestedInv /\ [Next]_vars => RequestedInv'
  <1>. SUFFICES ASSUME TypeOK, RequestedInv, [Next]_vars PROVE RequestedInv'
    OBVIOUS
  <1>. USE DEF TypeOK
  <1>g. ASSUME NEW w \in Replicas, NEW place, Goto(w, place)
        PROVE  at'[w] = place /\ \A v \in Replicas : v # w => at'[v] = at[v]
    BY <1>g DEF Goto
  <1>1. CASE UNCHANGED vars
    BY <1>1, RequestedQuiet DEF vars, listed, replica
  <1>2. ASSUME NEW s, Seek(s) \/ Request(s) \/ CheckMatches PROVE RequestedInv'
    BY <1>2, RequestedQuiet DEF Seek, Request, CheckMatches, listed, replica
  <1>3. ASSUME NEW w \in Replicas, NEW r \in Requests, Begin(w, r) PROVE RequestedInv'
    <2>1. at[w] = "idle" /\ UNCHANGED <<matches, held, batch>>
      BY <1>3 DEF Begin, listed
    <2>2. batch'[w] = {}
      BY <2>1 DEF RequestedInv
    <2>3. \A v \in Replicas : v # w => at'[v] = at[v]
      BY <1>3, <1>g DEF Begin
    <2>. QED BY <2>1, <2>2, <2>3, RequestedQuiet
  <1>4. ASSUME NEW w \in Replicas, NEW n \in 0 .. Wanted, Found(w, n) \/ Start(w) \/ StartFails(w)
        PROVE  RequestedInv'
    <2>1. at[w] \in {"beginning", "searching"} /\ UNCHANGED <<matches, held, batch>>
      BY <1>4 DEF Found, Start, StartFails, listed, work
    <2>2. batch'[w] = {}
      BY <2>1 DEF RequestedInv
    <2>3. \A v \in Replicas : v # w => at'[v] = at[v]
      BY <1>4, <1>g DEF Found, Start, StartFails
    <2>. QED BY <2>1, <2>2, <2>3, RequestedQuiet
  <1>5. ASSUME NEW w \in Replicas, NEW p \in Products, CreateProduct(w, p) PROVE RequestedInv'
    <2>1. /\ at[w] = "inserting" /\ at'[w] = "requesting" /\ UNCHANGED <<matches, held, stage>>
          /\ batch'[w] = batch[w] \cup {p}
          /\ \A v \in Replicas : v # w => at'[v] = at[v] /\ batch'[v] = batch[v]
      BY <1>5, <1>g DEF CreateProduct, queue, listed
    <2>2. \A q \in batch[w] : stage[q] # "none"
      BY <2>1 DEF RequestedInv
    <2>3. \A q, z \in batch'[w] : stage'[q] = "none" /\ stage'[z] = "none" => q = z
      BY <2>1, <2>2
    <2>. QED BY <2>1, <2>3 DEF RequestedInv
  <1>6. ASSUME NEW w \in Replicas, CreateRequest(w) PROVE RequestedInv'
    <2>1. PICK p \in batch[w] : /\ at[w] = "requesting" /\ Queue!Publish(p) /\ Goto(w, "inserting")
                                /\ UNCHANGED <<matches, held, batch>>
      BY <1>6 DEF CreateRequest, listed, work
    <2>2. p \in Requests /\ stage[p] = "none" /\ stage'[p] = "queued"
      BY <2>1 DEF Queue!Publish, Requests
    <2>3. \A q \in batch[w] : stage'[q] # "none"
      <3>1. \A q \in batch[w] : q \in Requests /\ (stage[q] = "none" => q = p)
        BY <2>1, <2>2 DEF RequestedInv, Requests
      <3>. QED BY <2>2, <3>1, StageStays
    <2>4. \A q \in matches' : stage'[q] # "none"
      BY <2>1, StageStays DEF RequestedInv, Requests
    <2>5. \A h \in Handlers : \A a \in held'[h] : \A q \in a : stage'[q] # "none"
      BY <2>1, StageStays DEF RequestedInv, Requests
    <2>6. ASSUME NEW v \in Replicas, v # w
          PROVE  /\ at'[v] \in {"idle", "beginning", "searching"} => batch'[v] = {}
                 /\ at'[v] = "inserting" => \A q \in batch'[v] : stage'[q] # "none"
                 /\ at'[v] = "requesting" =>
                       \A q, z \in batch'[v] : stage'[q] = "none" /\ stage'[z] = "none" => q = z
      BY <2>1, <2>6, <1>g, StageStays DEF RequestedInv, Requests
    <2>. QED BY <1>g, <2>1, <2>3, <2>4, <2>5, <2>6 DEF RequestedInv
  <1>7. ASSUME NEW w \in Replicas, Push(w) PROVE RequestedInv'
    <2>1. /\ at[w] = "inserting" /\ at'[w] = "completing" /\ matches' = matches \cup batch[w]
          /\ UNCHANGED <<stage, held, batch>>
          /\ \A v \in Replicas : v # w => at'[v] = at[v]
      BY <1>7, <1>g DEF Push, queue, work
    <2>. QED BY <2>1 DEF RequestedInv
  <1>8. ASSUME NEW w \in Replicas,
               \/ GiveUp(w) \/ Look(w) \/ Tell(w) \/ Fail(w)
               \/ CreateRequestFails(w) \/ Complete(w) \/ Error(w)
        PROVE  RequestedInv'
    <2>1. UNCHANGED <<matches, held, batch>>
      BY <1>8 DEF GiveUp, Look, Tell, Fail, CreateRequestFails, Complete, Error, Finish, listed, work
    <2>2. PICK place \in {"completing", "telling", "failing", "acking"} : Goto(w, place)
      BY <1>8 DEF GiveUp, Look, Tell, Fail, CreateRequestFails, Complete, Error, Finish
    <2>. QED BY <1>g, <2>1, <2>2, RequestedQuiet
  <1>9. ASSUME NEW w \in Replicas, Ack(w) \/ AckFails(w) \/ Crash(w) PROVE RequestedInv'
    <2>1. Forget(w) /\ UNCHANGED <<matches, held>>
      BY <1>9 DEF Ack, AckFails, Crash, listed
    <2>2. batch'[w] = {} /\ \A v \in Replicas : v # w => at'[v] = at[v] /\ batch'[v] = batch[v]
      BY <2>1 DEF Forget, Goto
    <2>. QED BY <2>1, <2>2, RequestedQuiet
  <1>10. ASSUME NEW w \in Replicas, Cut(w) PROVE RequestedInv'
    BY <1>10, RequestedQuiet DEF Cut, listed, work
  <1>11. ASSUME NEW h \in Handlers, ReadArray(h) \/ WriteArray(h) PROVE RequestedInv'
    <2>1. UNCHANGED <<stage, at, batch>>
      BY <1>11 DEF ReadArray, WriteArray, queue, replica
    <2>2. \A p \in matches' : stage[p] # "none"
      BY <1>11 DEF ReadArray, WriteArray, RequestedInv
    <2>3. \A g \in Handlers : \A a \in held'[g] : \A p \in a : stage[p] # "none"
      BY <1>11 DEF ReadArray, WriteArray, RequestedInv
    <2>. QED BY <2>1, <2>2, <2>3 DEF RequestedInv
  <1>. QED
    BY <1>1, <1>2, <1>3, <1>4, <1>5, <1>6, <1>7, <1>8, <1>9, <1>10, <1>11, ConstantsAssumption
       DEF Next, Callback, Search, ReadProduct

\* Whatever fails in the loop that inserts the products, nothing is listed that
\* nobody will read.
THEOREM ListedRequestedCorrect == Spec => []ListedRequested
  <1>1. RequestedInv => ListedRequested
    BY DEF RequestedInv, ListedRequested
  <1>. QED BY <1>1, RequestedInit, RequestedStep, TypeCorrect, PTL DEF Spec

-----------------------------------------------------------------------------
(* What is inserted is listed, but for failures and older arrays.          *)

\* Where a product that was inserted may be.
Placed(p) ==
    \/ <<origin[p], nth[p]>> \in broken
    \/ p \in dropped
    \/ p \in matches
    \/ \E w \in Replicas : Inserting(w) /\ p \in batch[w]

\* What a replica that is inserting holds was inserted in the execution it is at.
OrphanInv ==
    /\ \A p \in Products : origin[p] # None => Placed(p)
    /\ \A w \in Replicas : Inserting(w) =>
          \A p \in batch[w] : <<origin[p], nth[p]>> = Execution(w)

\* Nothing is inserted at first.
LEMMA OrphanInit == Init => OrphanInv
  BY DEF Init, OrphanInv, Inserting

\* A step that inserts nothing: nothing is lost from sight unless a replica stops
\* inserting, and then its execution is broken or what it held is listed.
LEMMA OrphanQuiet ==
    ASSUME OrphanInv, UNCHANGED <<origin, nth>>, broken \subseteq broken', dropped \subseteq dropped',
           matches \subseteq matches' \cup dropped',
           \A w \in Replicas :
              \/ Inserting(w) /\ Inserting(w)' /\ UNCHANGED <<batch[w], task[w], turn[w]>>
              \/ ~Inserting(w) /\ (Inserting(w)' => batch'[w] = {})
              \/ Inserting(w) /\ ~Inserting(w)' /\ (Execution(w) \in broken' \/ batch[w] \subseteq matches')
    PROVE  OrphanInv'
  <1>1. ASSUME NEW p \in Products, origin'[p] # None PROVE Placed(p)'
    <2>1. origin[p] # None /\ Placed(p)
      BY <1>1 DEF OrphanInv
    <2>2. CASE ~ \E w \in Replicas : Inserting(w) /\ p \in batch[w]
      BY <2>1, <2>2 DEF Placed
    <2>3. ASSUME NEW w \in Replicas, Inserting(w), p \in batch[w] PROVE Placed(p)'
      <3>1. <<origin[p], nth[p]>> = Execution(w)
        BY <2>3 DEF OrphanInv
      <3>2. CASE Inserting(w)'
        BY <2>3, <3>2 DEF Placed
      <3>3. CASE ~Inserting(w)'
        BY <2>3, <3>1, <3>3 DEF Placed
      <3>. QED BY <3>2, <3>3
    <2>. QED BY <2>2, <2>3
  <1>2. ASSUME NEW w \in Replicas, Inserting(w)', NEW p \in batch'[w]
        PROVE  <<origin'[p], nth'[p]>> = Execution(w)'
    <2>1. Inserting(w) /\ UNCHANGED <<batch[w], task[w], turn[w]>>
      BY <1>2
    <2>2. <<origin[p], nth[p]>> = Execution(w)
      BY <1>2, <2>1 DEF OrphanInv
    <2>. QED BY <2>1, <2>2 DEF Execution
  <1>. QED BY <1>1, <1>2 DEF OrphanInv

\* Every step keeps it.
LEMMA OrphanStep == TypeOK /\ OrphanInv /\ RequestedInv /\ [Next]_vars => OrphanInv'
  <1>. SUFFICES ASSUME TypeOK, OrphanInv, RequestedInv, [Next]_vars PROVE OrphanInv'
    OBVIOUS
  <1>. USE DEF TypeOK
  <1>g. ASSUME NEW w \in Replicas, NEW place, Goto(w, place)
        PROVE  at'[w] = place /\ \A v \in Replicas : v # w => at'[v] = at[v]
    BY <1>g DEF Goto
  <1>q. ASSUME NEW w \in Replicas, UNCHANGED <<origin, nth>>, broken \subseteq broken',
               dropped \subseteq dropped', matches \subseteq matches',
               \A v \in Replicas : v # w =>
                   at'[v] = at[v] /\ batch'[v] = batch[v] /\ task'[v] = task[v] /\ turn'[v] = turn[v],
               \/ Inserting(w) /\ Inserting(w)' /\ UNCHANGED <<batch[w], task[w], turn[w]>>
               \/ ~Inserting(w) /\ (Inserting(w)' => batch'[w] = {})
               \/ Inserting(w) /\ ~Inserting(w)' /\ (Execution(w) \in broken' \/ batch[w] \subseteq matches')
        PROVE  OrphanInv'
    <2>1. \A v \in Replicas : v # w => (Inserting(v)' <=> Inserting(v))
      BY <1>q DEF Inserting
    <2>. QED BY <1>q, <2>1, OrphanQuiet
  <1>1. ASSUME UNCHANGED <<made, replica, broken>>, dropped \subseteq dropped',
               matches \subseteq matches' \cup dropped'
        PROVE  OrphanInv'
    <2>1. \A w \in Replicas : Inserting(w)' <=> Inserting(w)
      BY <1>1 DEF Inserting, replica
    <2>. QED BY <1>1, <2>1, OrphanQuiet DEF made, replica
  <1>2. CASE UNCHANGED vars
    BY <1>1, <1>2 DEF vars, listed, history
  <1>3. ASSUME NEW s, Seek(s) \/ Request(s) \/ CheckMatches PROVE OrphanInv'
    BY <1>1, <1>3 DEF Seek, Request, CheckMatches, listed, history
  <1>4. ASSUME NEW h \in Handlers, ReadArray(h) \/ WriteArray(h) PROVE OrphanInv'
    BY <1>1, <1>4 DEF ReadArray, WriteArray, history
  <1>5. ASSUME NEW w \in Replicas, NEW r \in Requests, Begin(w, r) PROVE OrphanInv'
    <2>1. UNCHANGED <<made, listed, batch, broken>> /\ at[w] = "idle" /\ at'[w] = "beginning"
      BY <1>5, <1>g DEF Begin, history
    <2>2. \A v \in Replicas : v # w => at'[v] = at[v] /\ task'[v] = task[v] /\ turn'[v] = turn[v]
      BY <1>5, <1>g DEF Begin
    <2>3. ~Inserting(w) /\ ~Inserting(w)'
      BY <2>1 DEF Inserting
    <2>. QED BY <1>q, <2>1, <2>2, <2>3 DEF made, listed
  <1>6. ASSUME NEW w \in Replicas, NEW n \in 0 .. Wanted, Found(w, n) PROVE OrphanInv'
    <2>1. UNCHANGED <<made, listed, batch, task, turn, broken>> /\ at[w] = "searching"
      BY <1>6 DEF Found, history
    <2>2. batch'[w] = {} /\ ~Inserting(w)
      BY <2>1 DEF RequestedInv, Inserting
    <2>3. \A v \in Replicas : v # w => at'[v] = at[v]
      BY <1>6, <1>g DEF Found
    <2>. QED BY <1>q, <2>1, <2>2, <2>3 DEF made, listed
  <1>7. ASSUME NEW w \in Replicas, NEW p \in Products, CreateProduct(w, p) PROVE OrphanInv'
    <2>1. /\ at[w] = "inserting" /\ at'[w] = "requesting" /\ batch'[w] = batch[w] \cup {p}
          /\ \A v \in Replicas : v # w => at'[v] = at[v] /\ batch'[v] = batch[v]
          /\ UNCHANGED <<matches, dropped, broken, task, turn>>
      BY <1>7, <1>g DEF CreateProduct, listed, history
    <2>2. /\ origin[p] = None /\ origin'[p] = task[w] /\ nth'[p] = turn[w]
          /\ \A q \in Products : q # p => origin'[q] = origin[q] /\ nth'[q] = nth[q]
      BY <1>7 DEF CreateProduct, Insert
    <2>3. \A v \in Replicas : (Inserting(v)' <=> Inserting(v)) /\ Execution(v)' = Execution(v)
      BY <2>1 DEF Inserting, Execution
    <2>4. ASSUME NEW q \in Products, origin'[q] # None PROVE Placed(q)'
      <3>1. CASE q = p
        BY <2>1, <2>3, <3>1 DEF Placed, Inserting
      <3>2. CASE q # p
        <4>1. Placed(q)
          BY <2>2, <2>4, <3>2 DEF OrphanInv
        <4>2. \A v \in Replicas : q \in batch[v] => q \in batch'[v]
          BY <2>1
        <4>. QED BY <2>1, <2>2, <2>3, <3>2, <4>1, <4>2 DEF Placed
      <3>. QED BY <3>1, <3>2
    <2>5. ASSUME NEW v \in Replicas, Inserting(v)', NEW q \in batch'[v]
          PROVE  <<origin'[q], nth'[q]>> = Execution(v)'
      <3>1. CASE v = w /\ q = p
        BY <2>2, <2>3, <3>1 DEF Execution
      <3>2. CASE ~(v = w /\ q = p)
        <4>1. q \in batch[v] /\ q \in Products /\ Inserting(v)
          BY <2>1, <2>3, <2>5, <3>2
        <4>2. <<origin[q], nth[q]>> = Execution(v)
          BY <4>1 DEF OrphanInv
        <4>3. origin[q] = task[v] /\ task[v] # None
          BY <4>1, <4>2, ConstantsAssumption DEF Execution, Inserting, Requests
        <4>4. q # p
          BY <2>2, <4>3
        <4>. QED BY <2>2, <2>3, <4>1, <4>2, <4>4
      <3>. QED BY <3>1, <3>2
    <2>. QED BY <2>4, <2>5 DEF OrphanInv
  <1>8. ASSUME NEW w \in Replicas, CreateRequest(w) PROVE OrphanInv'
    <2>1. UNCHANGED <<made, listed, work, broken>> /\ at[w] = "requesting" /\ at'[w] = "inserting"
      BY <1>8, <1>g DEF CreateRequest, history
    <2>2. Inserting(w) /\ Inserting(w)' /\ \A v \in Replicas : v # w => at'[v] = at[v]
      BY <1>8, <1>g, <2>1 DEF CreateRequest, Inserting
    <2>. QED BY <1>q, <2>1, <2>2 DEF made, listed, work
  <1>9. ASSUME NEW w \in Replicas, CreateRequestFails(w) \/ Fail(w) PROVE OrphanInv'
    <2>1. UNCHANGED <<made, listed, work>> /\ broken \subseteq broken' /\ at'[w] = "failing"
      BY <1>9, <1>g DEF CreateRequestFails, Fail
    <2>2. ~Inserting(w)' /\ (Inserting(w) => Execution(w) \in broken')
      BY <1>9, <2>1 DEF CreateRequestFails, Fail, Inserting
    <2>3. \A v \in Replicas : v # w => at'[v] = at[v]
      BY <1>9, <1>g DEF CreateRequestFails, Fail
    <2>. QED BY <1>q, <2>1, <2>2, <2>3 DEF made, listed, work
  <1>10. ASSUME NEW w \in Replicas, Push(w) PROVE OrphanInv'
    <2>1. /\ UNCHANGED <<made, dropped, work, broken>> /\ at[w] = "inserting" /\ at'[w] = "completing"
          /\ matches' = matches \cup batch[w]
      BY <1>10, <1>g DEF Push, history
    <2>2. Inserting(w) /\ ~Inserting(w)' /\ batch[w] \subseteq matches'
      BY <2>1 DEF Inserting
    <2>3. \A v \in Replicas : v # w => at'[v] = at[v]
      BY <1>10, <1>g DEF Push
    <2>. QED BY <1>q, <2>1, <2>2, <2>3 DEF made, work
  <1>11. ASSUME NEW w \in Replicas,
                \/ Start(w) \/ StartFails(w) \/ GiveUp(w) \/ Look(w) \/ Tell(w) \/ Complete(w) \/ Error(w)
         PROVE  OrphanInv'
    <2>1. UNCHANGED <<made, matches, dropped, work, broken>>
      BY <1>11 DEF Start, StartFails, GiveUp, Look, Tell, Complete, Error, Finish, listed, history
    <2>2. PICK place \in {"searching", "opening", "telling", "completing", "acking"} :
              Goto(w, place) /\ at[w] \in {"beginning", "opening", "telling", "completing", "failing"}
      BY <1>11 DEF Start, StartFails, GiveUp, Look, Tell, Complete, Error, Finish
    <2>3. ~Inserting(w) /\ ~Inserting(w)' /\ \A v \in Replicas : v # w => at'[v] = at[v]
      BY <1>g, <2>2 DEF Inserting
    <2>. QED BY <1>q, <2>1, <2>3 DEF made, work
  <1>12. ASSUME NEW w \in Replicas, Ack(w) \/ AckFails(w) \/ Crash(w) PROVE OrphanInv'
    <2>1. Forget(w) /\ UNCHANGED <<made, listed>> /\ broken \subseteq broken'
      BY <1>12 DEF Ack, AckFails, Crash, history
    <2>2. /\ at'[w] = "idle"
          /\ \A v \in Replicas : v # w => at'[v] = at[v] /\ batch'[v] = batch[v]
                                          /\ task'[v] = task[v] /\ turn'[v] = turn[v]
      BY <2>1, <1>g DEF Forget
    <2>3. ~Inserting(w)' /\ (Inserting(w) => Execution(w) \in broken')
      BY <1>12, <2>2 DEF Ack, AckFails, Crash, Inserting
    <2>. QED BY <1>q, <2>1, <2>2, <2>3 DEF made, listed
  <1>13. ASSUME NEW w \in Replicas, Cut(w) PROVE OrphanInv'
    <2>1. UNCHANGED <<made, listed, at, work, history>>
      BY <1>13 DEF Cut
    <2>2. \A v \in Replicas : Inserting(v)' <=> Inserting(v)
      BY <2>1 DEF Inserting
    <2>. QED BY <2>1, <2>2, OrphanQuiet DEF made, listed, work, history
  <1>. QED
    BY <1>2, <1>3, <1>4, <1>5, <1>6, <1>7, <1>8, <1>9, <1>10, <1>11, <1>12, <1>13
       DEF Next, Callback, Search, ReadProduct

\* A product that was inserted and is not listed belongs to the very execution
\* that is still inserting it, or to one that itself raised or died before its
\* push, or a handler wrote an older array over it.
THEOREM OrphansCorrect == Spec => []OrphansFromFailures
  <1>1. OrphanInv => OrphansFromFailures
    BY DEF OrphanInv, Placed, OrphansFromFailures
  <1>. QED BY <1>1, OrphanInit, OrphanStep, RequestedInit, RequestedStep, TypeCorrect, PTL DEF Spec

-----------------------------------------------------------------------------
(* What a request is done for.                                             *)

\* The ends a product's request can come to.
Ends == checked \cup unread \cup early

\* A replica that is through with a product has brought it to one of them, and
\* acknowledges no other.
EndInv ==
    /\ \A p \in Products : stage[p] = "done" => p \in Ends
    /\ \A w \in Replicas :
           at[w] \in {"completing", "failing", "acking"} /\ task[w] \in Products => task[w] \in Ends

\* Every step keeps it.
LEMMA EndStep == TypeOK /\ EndInv /\ [Next]_vars => EndInv'
  <1>. SUFFICES ASSUME TypeOK, EndInv, [Next]_vars PROVE EndInv'
    OBVIOUS
  <1>. USE DEF TypeOK
  <1>g. ASSUME NEW w \in Replicas, NEW place, Goto(w, place)
        PROVE  at'[w] = place /\ \A v \in Replicas : v # w => at'[v] = at[v]
    BY <1>g DEF Goto
  <1>d. \A r \in Searches : r \notin Products
    BY ConstantsAssumption
  <1>q. ASSUME Ends \subseteq Ends', \A p \in Products : stage'[p] = "done" => stage[p] = "done",
               \A w \in Replicas :
                  \/ task'[w] = task[w] /\ at'[w] = at[w]
                  \/ at'[w] \notin {"completing", "failing", "acking"}
                  \/ task'[w] \notin Products
                  \/ task'[w] \in Ends'
        PROVE  EndInv'
    BY <1>q DEF EndInv
  <1>1. CASE UNCHANGED vars
    BY <1>1 DEF vars, queue, listed, replica, history, EndInv, Ends
  <1>2. ASSUME NEW s, Seek(s) \/ CheckMatches \/ ReadArray(s) \/ WriteArray(s) PROVE EndInv'
    BY <1>2, <1>q DEF Seek, CheckMatches, ReadArray, WriteArray, queue, listed, replica, history, Ends
  <1>3. ASSUME NEW s \in Searches, Request(s) PROVE EndInv'
    <2>1. UNCHANGED <<checked, replica, history>> /\ Queue!Publish(s)
      BY <1>3 DEF Request, listed
    <2>2. \A p \in Products : stage'[p] = stage[p]
      BY <2>1, <1>d DEF Queue!Publish, Requests
    <2>. QED BY <2>1, <2>2, <1>q DEF replica, history, Ends
  <1>4. ASSUME NEW w \in Replicas, NEW r \in Requests, Begin(w, r) PROVE EndInv'
    <2>1. Goto(w, "beginning")
      BY <1>4 DEF Begin
    <2>2. /\ \A v \in Replicas : v # w => task'[v] = task[v]
          /\ UNCHANGED <<stage, checked, history>>
      BY <1>4 DEF Begin, Queue!Attempt, listed
    <2>. QED BY <1>g, <1>q, <2>1, <2>2 DEF history, Ends
  <1>5. ASSUME NEW w \in Replicas, NEW n, \/ Start(w) \/ Found(w, n) \/ CreateProduct(w, n)
        PROVE  EndInv'
    <2>1. PICK place \in {"searching", "opening", "inserting", "requesting"} : Goto(w, place)
      BY <1>5 DEF Start, Found, CreateProduct
    <2>2. UNCHANGED <<stage, checked, task, history>>
      BY <1>5 DEF Start, Found, CreateProduct, queue, listed, work
    <2>. QED BY <1>g, <1>q, <2>1, <2>2 DEF history, Ends
  <1>6. ASSUME NEW w \in Replicas, CreateRequest(w) PROVE EndInv'
    <2>1. PICK p \in batch[w] : Queue!Publish(p) /\ Goto(w, "inserting")
                                /\ UNCHANGED <<checked, task, history>>
      BY <1>6 DEF CreateRequest, listed, work
    <2>2. \A q \in Products : stage'[q] = "done" => stage[q] = "done"
      BY <2>1 DEF Queue!Publish, Requests
    <2>. QED BY <1>g, <1>q, <2>1, <2>2 DEF history, Ends
  <1>7. ASSUME NEW w \in Replicas, CreateRequestFails(w) \/ Push(w) PROVE EndInv'
    <2>1. /\ UNCHANGED <<stage, checked, task, early, unread>> /\ task[w] \in Searches
          /\ \A v \in Replicas : v # w => at'[v] = at[v]
      BY <1>7, <1>g DEF CreateRequestFails, Push, queue, listed, work, history
    <2>. QED BY <1>d, <1>q, <2>1 DEF Ends
  <1>8. ASSUME NEW w \in Replicas, GiveUp(w) \/ Look(w) \/ Tell(w) PROVE EndInv'
    <2>1. /\ UNCHANGED <<stage, task>> /\ Ends \subseteq Ends'
          /\ \A v \in Replicas : v # w => at'[v] = at[v]
      BY <1>8, <1>g DEF GiveUp, Look, Tell, queue, listed, work, history, Ends
    <2>2. at'[w] = "telling" \/ task'[w] \in Ends'
      BY <1>8, <1>g DEF GiveUp, Look, Tell, listed, work, history, Ends
    <2>. QED BY <1>q, <2>1, <2>2
  <1>9. ASSUME NEW w \in Replicas, Fail(w) \/ StartFails(w) PROVE EndInv'
    <2>1. /\ UNCHANGED <<stage, task, checked, early>> /\ Ends \subseteq Ends'
          /\ \A v \in Replicas : v # w => at'[v] = at[v]
      BY <1>9, <1>g DEF Fail, StartFails, queue, listed, work, Ends
    <2>2. task'[w] \in Products => task'[w] \in Ends'
      BY <1>9, <2>1 DEF Fail, StartFails, Ends, EndInv
    <2>. QED BY <1>q, <2>1, <2>2
  <1>10. ASSUME NEW w \in Replicas, Complete(w) \/ Error(w) PROVE EndInv'
    <2>1. /\ at[w] \in {"completing", "failing"} /\ UNCHANGED <<stage, task, checked, history>>
          /\ \A v \in Replicas : v # w => at'[v] = at[v]
      BY <1>10, <1>g DEF Complete, Error, Finish, queue, listed, work
    <2>2. task'[w] \in Products => task'[w] \in Ends'
      BY <2>1 DEF EndInv, Ends, history
    <2>. QED BY <1>q, <2>1, <2>2 DEF Ends, history
  <1>11. ASSUME NEW w \in Replicas, Ack(w) PROVE EndInv'
    <2>1. /\ at[w] = "acking" /\ Queue!Finish(task[w]) /\ Forget(w)
          /\ UNCHANGED <<checked, history>>
      BY <1>11 DEF Ack, listed
    <2>2. \A p \in Products : stage'[p] = "done" => stage[p] = "done" \/ p = task[w]
      BY <2>1 DEF Queue!Finish, Requests
    <2>3. task[w] \in Products => task[w] \in Ends
      BY <2>1 DEF EndInv
    <2>4. at'[w] = "idle" /\ \A v \in Replicas : v # w => at'[v] = at[v] /\ task'[v] = task[v]
      BY <2>1, <1>g DEF Forget
    <2>5. Ends' = Ends
      BY <2>1 DEF Ends, history
    <2>. QED BY <2>2, <2>3, <2>4, <2>5 DEF EndInv
  <1>12. ASSUME NEW w \in Replicas, AckFails(w) \/ Crash(w) PROVE EndInv'
    <2>1. Forget(w) /\ UNCHANGED <<stage, checked, early, unread>>
      BY <1>12 DEF AckFails, Crash, queue, listed, history
    <2>2. at'[w] = "idle" /\ \A v \in Replicas : v # w => at'[v] = at[v] /\ task'[v] = task[v]
      BY <2>1, <1>g DEF Forget
    <2>. QED BY <1>q, <2>1, <2>2 DEF Ends
  <1>13. ASSUME NEW w \in Replicas, Cut(w) PROVE EndInv'
    BY <1>13, <1>q DEF Cut, queue, listed, work, history, Ends
  <1>. QED
    BY <1>1, <1>2, <1>3, <1>4, <1>5, <1>6, <1>7, <1>8, <1>9, <1>10, <1>11, <1>12, <1>13
       DEF Next, Callback, Search, ReadProduct

\* A match whose request is done was sent to be checked, or the execution of its
\* request failed, or it was not listed when its page was read.
THEOREM UncheckedCorrect == Spec => []UncheckedWasEarly
  <1>1. Init => EndInv
    BY DEF Init, Queue!Init, EndInv, Requests
  <1>2. TypeOK /\ EndInv => UncheckedWasEarly
    BY DEF TypeOK, EndInv, Ends, UncheckedWasEarly
  <1>. QED BY <1>1, <1>2, EndStep, TypeCorrect, PTL DEF Spec

-----------------------------------------------------------------------------
(* One replica.                                                            *)

\* Where one replica does everything, it looks for a product among the matches
\* only when it has pushed all it will push of the search that inserted it; what
\* is written back over the matches was among them before.
LookInv(w) ==
    /\ at[w] \in {"beginning", "opening", "telling"} =>
          batch[w] = {} /\ (task[w] \in Products => origin[task[w]] # None)
    /\ early \cap (matches \cup batch[w]) \subseteq dropped
    /\ \A h \in Handlers : \A a \in held[h] : a \subseteq matches \cup dropped
    /\ \A p \in early : origin[p] # None
    /\ \A p \in Products : p \in batch[w] \/ stage[p] # "none" => origin[p] # None

\* Every step keeps it.
LEMMA LookStep ==
    ASSUME NEW w, Replicas = {w}, TypeOK, RequestedInv, LookInv(w), [Next]_vars
    PROVE  LookInv(w)'
  <1>. USE DEF TypeOK
  <1>g. ASSUME NEW place, Goto(w, place) PROVE at'[w] = place
    BY <1>g DEF Goto
  <1>d. \A r \in Searches : r \notin Products
    BY ConstantsAssumption
  <1>1. CASE UNCHANGED vars
    BY <1>1 DEF vars, queue, made, listed, replica, history, LookInv
  <1>2. ASSUME NEW s, Seek(s) \/ CheckMatches PROVE LookInv(w)'
    BY <1>2 DEF Seek, CheckMatches, queue, made, listed, replica, history, LookInv
  <1>3. ASSUME NEW s \in Searches, Request(s) PROVE LookInv(w)'
    <2>1. UNCHANGED <<made, listed, replica, history>> /\ Queue!Publish(s)
      BY <1>3 DEF Request
    <2>2. \A p \in Products : stage'[p] = stage[p]
      BY <2>1, <1>d DEF Queue!Publish, Requests
    <2>. QED BY <2>1, <2>2 DEF made, listed, replica, history, LookInv
  <1>4. ASSUME NEW r \in Requests, Begin(w, r) PROVE LookInv(w)'
    <2>1. at[w] = "idle" /\ UNCHANGED <<stage, origin, listed, batch, history>>
      BY <1>4 DEF Begin, Queue!Attempt, made
    <2>2. batch'[w] = {}
      BY <2>1 DEF RequestedInv
    <2>3. task'[w] = r /\ (r \in Products => stage[r] # "none")
      BY <1>4 DEF Begin, Queue!Attempt
    <2>. QED BY <2>1, <2>2, <2>3 DEF listed, history, LookInv
  <1>5. ASSUME NEW p \in Products, CreateProduct(w, p) PROVE LookInv(w)'
    <2>1. /\ at'[w] = "requesting" /\ batch'[w] = batch[w] \cup {p}
          /\ origin[p] = None /\ origin'[p] \in Searches
          /\ \A q \in Products : q # p => origin'[q] = origin[q]
          /\ UNCHANGED <<stage, listed, history>>
      BY <1>5, <1>g DEF CreateProduct, Insert, queue
    <2>2. p \notin early /\ origin'[p] # None
      BY <2>1, ConstantsAssumption DEF LookInv, Requests
    <2>. QED BY <2>1, <2>2 DEF listed, history, LookInv
  <1>6. ASSUME CreateRequest(w) PROVE LookInv(w)'
    <2>1. PICK p \in batch[w] : Queue!Publish(p) /\ Goto(w, "inserting")
                                /\ UNCHANGED <<origin, listed, batch, history>>
      BY <1>6 DEF CreateRequest, made, work
    <2>2. \A q \in Products : stage'[q] # "none" => stage[q] # "none" \/ q = p
      BY <2>1 DEF Queue!Publish, Requests
    <2>. QED BY <1>g, <2>1, <2>2 DEF listed, history, LookInv
  <1>7. ASSUME Push(w) PROVE LookInv(w)'
    <2>1. /\ at'[w] = "completing" /\ matches' = matches \cup batch[w]
          /\ UNCHANGED <<stage, origin, held, dropped, batch, history>>
      BY <1>7, <1>g DEF Push, queue, made, work
    <2>. QED BY <2>1 DEF history, LookInv
  <1>8. ASSUME Look(w) PROVE LookInv(w)'
    <2>1. /\ at[w] = "opening" /\ at'[w] \in {"telling", "completing"}
          /\ early' = early \cup ({task[w]} \ matches)
          /\ UNCHANGED <<stage, origin, listed, batch, task>>
      BY <1>8, <1>g DEF Look, queue, made, work
    <2>2. batch[w] = {} /\ task[w] \in Products /\ origin[task[w]] # None
      BY <2>1 DEF LookInv
    <2>3. early' \cap (matches \cup batch[w]) \subseteq dropped
      BY <2>1, <2>2 DEF LookInv
    <2>. QED BY <2>1, <2>2, <2>3 DEF listed, LookInv
  <1>9. ASSUME NEW n, \/ Start(w) \/ StartFails(w) \/ Found(w, n) \/ GiveUp(w) \/ Tell(w) \/ Fail(w)
                      \/ CreateRequestFails(w) \/ Complete(w) \/ Error(w)
        PROVE  LookInv(w)'
    <2>1. UNCHANGED <<stage, origin, matches, held, dropped, batch, early, task>>
      BY <1>9 DEF Start, StartFails, Found, GiveUp, Tell, Fail, CreateRequestFails, Complete, Error,
                  Finish, queue, made, listed, work, history
    <2>2. /\ at'[w] \in {"searching", "opening", "inserting", "completing", "failing", "acking"}
          /\ at'[w] = "opening" => at[w] = "beginning"
      BY <1>9, <1>g DEF Start, StartFails, Found, GiveUp, Tell, Fail, CreateRequestFails, Complete,
                        Error, Finish
    <2>. QED BY <2>1, <2>2 DEF LookInv
  <1>10. ASSUME Ack(w) \/ AckFails(w) \/ Crash(w) PROVE LookInv(w)'
    <2>1. Forget(w) /\ UNCHANGED <<origin, listed, early>>
      BY <1>10 DEF Ack, AckFails, Crash, made, history
    <2>2. at'[w] = "idle" /\ batch'[w] = {}
      BY <2>1, <1>g DEF Forget
    <2>3. \A p \in Products : stage'[p] # "none" => stage[p] # "none"
      BY <1>10 DEF Ack, AckFails, Crash, Queue!Finish, queue, Requests
    <2>. QED BY <2>1, <2>2, <2>3 DEF listed, LookInv
  <1>11. ASSUME Cut(w) PROVE LookInv(w)'
    BY <1>11 DEF Cut, queue, made, listed, work, history, LookInv
  <1>12. ASSUME NEW h \in Handlers, ReadArray(h) PROVE LookInv(w)'
    <2>1. held' = [held EXCEPT ![h] = {matches}]
          /\ UNCHANGED <<stage, origin, matches, dropped, replica, early>>
      BY <1>12 DEF ReadArray, queue, made, history
    <2>. QED BY <2>1 DEF replica, LookInv
  <1>13. ASSUME NEW h \in Handlers, WriteArray(h) PROVE LookInv(w)'
    <2>1. PICK a \in held[h] : /\ matches' = a /\ dropped' = dropped \cup (matches \ a)
                               /\ held' = [held EXCEPT ![h] = {}]
                               /\ UNCHANGED <<stage, origin, replica, early>>
      BY <1>13 DEF WriteArray, queue, made, history
    <2>2. a \subseteq matches \cup dropped /\ matches \cup dropped = a \cup dropped'
      BY <2>1 DEF LookInv
    <2>3. early \cap (matches' \cup batch[w]) \subseteq dropped'
      BY <2>1, <2>2 DEF LookInv
    <2>4. \A g \in Handlers : \A b \in held'[g] : b \subseteq matches' \cup dropped'
      BY <2>1, <2>2 DEF LookInv
    <2>. QED BY <2>1, <2>3, <2>4 DEF replica, LookInv
  <1>. QED
    BY <1>1, <1>2, <1>3, <1>4, <1>5, <1>6, <1>7, <1>8, <1>9, <1>10, <1>11, <1>12, <1>13
       DEF Next, Callback, Search, ReadProduct

\* A single replica, whatever fails, misses no match that was not written over:
\* only two of them let the page of a product be read before the product is
\* listed, and only the handlers' older arrays take it off the matches again.
THEOREM OneReplicaReadsListed ==
    ASSUME NEW w, Replicas = {w}
    PROVE  Spec => [](matches \cap early \subseteq dropped)
  <1>1. Init => LookInv(w)
    BY DEF Init, Queue!Init, LookInv, Requests
  <1>2. TypeOK /\ RequestedInv /\ LookInv(w) /\ [Next]_vars => LookInv(w)'
    BY LookStep
  <1>3. LookInv(w) => matches \cap early \subseteq dropped
    BY DEF LookInv
  <1>. QED BY <1>1, <1>2, <1>3, RequestedInit, RequestedStep, TypeCorrect, PTL DEF Spec

-----------------------------------------------------------------------------
(* How much a search inserts.                                              *)

\* How many products a replica may still insert in the execution it is at.
Budget(w) ==
    IF at[w] \in {"beginning", "searching"} THEN Wanted
    ELSE IF Inserting(w) THEN left[w] ELSE 0

\* One element for each product the replicas that execute s may still insert.
Slots(s) == {e \in Replicas \X (1 .. Wanted) : task[e[1]] = s /\ e[2] <= Budget(e[1])}

\* Inserted or still to be inserted, it is what was wanted each time.
BoundInv ==
    \A s \in Searches : Cardinality(InsertedBy(s)) + Cardinality(Slots(s)) <= Wanted * runs[s]

\* Budgets are numbers, before and after a step.
LEMMA BudgetType ==
    /\ TypeOK => \A w \in Replicas : Budget(w) \in 0 .. Wanted
    /\ TypeOK' => \A w \in Replicas : Budget(w)' \in 0 .. Wanted
  BY ConstantsAssumption DEF TypeOK, Budget, Inserting

\* Products and slots can be counted, before and after a step.
LEMMA BoundCounted ==
    ASSUME NEW s
    PROVE  /\ IsFiniteSet(InsertedBy(s)) /\ Cardinality(InsertedBy(s)) \in Nat
           /\ IsFiniteSet(Slots(s)) /\ Cardinality(Slots(s)) \in Nat
           /\ IsFiniteSet(InsertedBy(s)') /\ Cardinality(InsertedBy(s)') \in Nat
           /\ IsFiniteSet(Slots(s)') /\ Cardinality(Slots(s)') \in Nat
  <1>1. IsFiniteSet(1 .. Wanted)
    BY ConstantsAssumption, FS_Interval
  <1>2. IsFiniteSet(Replicas \X (1 .. Wanted))
    BY <1>1, ConstantsAssumption, FS_Product
  <1>3. /\ InsertedBy(s) \subseteq Products /\ InsertedBy(s)' \subseteq Products
        /\ Slots(s) \subseteq Replicas \X (1 .. Wanted) /\ Slots(s)' \subseteq Replicas \X (1 .. Wanted)
    BY DEF InsertedBy, Slots
  <1>. QED BY <1>2, <1>3, ConstantsAssumption, FS_Subset, FS_CardinalityType

\* Wanted times a number of executions is a number.
LEMMA BoundNat ==
    ASSUME NEW n \in Nat
    PROVE  Wanted * n \in Nat /\ Wanted * (n + 1) = Wanted * n + Wanted
  BY ConstantsAssumption

\* A step that inserts nothing and begins nothing.
LEMMA BoundQuiet ==
    ASSUME TypeOK, TypeOK', BoundInv, UNCHANGED <<origin, runs>>,
           \A w \in Replicas : \/ task'[w] = task[w] /\ Budget(w)' <= Budget(w)
                               \/ Budget(w)' = 0
    PROVE  BoundInv'
  <1>. SUFFICES ASSUME NEW s \in Searches
                PROVE  Cardinality(InsertedBy(s)') + Cardinality(Slots(s)') <= Wanted * runs'[s]
    BY DEF BoundInv
  <1>1. Slots(s)' \subseteq Slots(s)
    <2>. SUFFICES ASSUME NEW w \in Replicas, NEW i \in 1 .. Wanted, task'[w] = s, i <= Budget(w)'
                  PROVE  task[w] = s /\ i <= Budget(w)
      BY DEF Slots
    <2>. QED BY BudgetType
  <1>2. InsertedBy(s)' = InsertedBy(s)
    BY DEF InsertedBy
  <1>3. Cardinality(Slots(s)') <= Cardinality(Slots(s))
    BY <1>1, BoundCounted, FS_Subset
  <1>4. Wanted * runs[s] \in Nat
    BY BoundNat DEF TypeOK, Requests
  <1>. QED BY <1>2, <1>3, <1>4, BoundCounted DEF BoundInv

\* An execution begins: it may insert as many products as wanted.
LEMMA BoundBegin ==
    ASSUME TypeOK, TypeOK', BoundInv, NEW w \in Replicas, NEW r \in Requests, Begin(w, r)
    PROVE  BoundInv'
  <1>. SUFFICES ASSUME NEW s \in Searches
                PROVE  Cardinality(InsertedBy(s)') + Cardinality(Slots(s)') <= Wanted * runs'[s]
    BY DEF BoundInv
  <1>1. /\ at[w] = "idle" /\ task'[w] = r /\ runs' = [runs EXCEPT ![r] = @ + 1]
        /\ UNCHANGED <<origin, left>>
        /\ \A v \in Replicas : v # w => task'[v] = task[v] /\ at'[v] = at[v]
    BY DEF Begin, Queue!Attempt, made, Goto, TypeOK
  <1>2. InsertedBy(s)' = InsertedBy(s)
    BY <1>1 DEF InsertedBy
  <1>3. \A v \in Replicas : v # w => Budget(v)' = Budget(v)
    BY <1>1 DEF Budget, Inserting
  <1>4. runs[s] \in Nat /\ Wanted * runs[s] \in Nat /\ Wanted * (runs[s] + 1) = Wanted * runs[s] + Wanted
    BY BoundNat DEF TypeOK, Requests
  <1>5. CASE r # s
    <2>1. Slots(s)' \subseteq Slots(s)
      BY <1>1, <1>3, <1>5 DEF Slots
    <2>2. Cardinality(Slots(s)') <= Cardinality(Slots(s))
      BY <2>1, BoundCounted, FS_Subset
    <2>3. runs'[s] = runs[s]
      BY <1>1, <1>5 DEF TypeOK
    <2>. QED BY <1>2, <1>4, <2>2, <2>3, BoundCounted DEF BoundInv
  <1>6. CASE r = s
    <2>1. Slots(s)' \subseteq Slots(s) \cup ({w} \X (1 .. Wanted))
      BY <1>1, <1>3 DEF Slots
    <2>2. IsFiniteSet({w} \X (1 .. Wanted)) /\ Cardinality({w} \X (1 .. Wanted)) = Wanted
      <3>1. IsFiniteSet(1 .. Wanted) /\ Cardinality(1 .. Wanted) = Wanted
        BY ConstantsAssumption, FS_Interval
      <3>2. IsFiniteSet({w}) /\ Cardinality({w}) = 1
        BY FS_Singleton
      <3>. DEFINE S == {w}  T == 1 .. Wanted
      <3>. HIDE DEF S, T
      <3>3. IsFiniteSet(S \X T) /\ Cardinality(S \X T) = Cardinality(S) * Cardinality(T)
        BY <3>1, <3>2, FS_Product DEF S, T
      <3>4. Cardinality(S) = 1 /\ Cardinality(T) = Wanted
        BY <3>1, <3>2 DEF S, T
      <3>5. IsFiniteSet(S \X T) /\ Cardinality(S \X T) = Wanted
        BY <3>3, <3>4, ConstantsAssumption
      <3>. QED BY <3>5 DEF S, T
    <2>. DEFINE A == Slots(s)  B == {w} \X (1 .. Wanted)
    <2>. HIDE DEF A, B
    <2>3. IsFiniteSet(A) /\ IsFiniteSet(B) /\ Cardinality(B) = Wanted
      BY <2>2, BoundCounted DEF A, B
    <2>4. /\ IsFiniteSet(A \cup B)
          /\ Cardinality(A \cup B) = Cardinality(A) + Cardinality(B) - Cardinality(A \cap B)
      BY <2>3, FS_Union
    <2>5. Cardinality(A \cap B) \in Nat /\ Cardinality(A) \in Nat
      BY <2>3, FS_Intersection, FS_CardinalityType
    <2>6. Cardinality(Slots(s)') <= Cardinality(A \cup B)
      BY <2>1, <2>4, FS_Subset DEF A, B
    <2>7. Cardinality(A) = Cardinality(Slots(s))
      BY DEF A
    <2>8. Cardinality(Slots(s)') <= Cardinality(Slots(s)) + Wanted
      BY <2>3, <2>4, <2>5, <2>6, <2>7, BoundCounted, ConstantsAssumption
    <2>9. runs'[s] = runs[s] + 1
      BY <1>1, <1>6 DEF TypeOK
    <2>. QED BY <1>2, <1>4, <2>8, <2>9, BoundCounted, ConstantsAssumption DEF BoundInv
  <1>. QED BY <1>5, <1>6

\* A product is inserted: one slot less.
LEMMA BoundCreate ==
    ASSUME TypeOK, TypeOK', BoundInv, NEW w \in Replicas, NEW p \in Products, CreateProduct(w, p)
    PROVE  BoundInv'
  <1>. SUFFICES ASSUME NEW s \in Searches
                PROVE  Cardinality(InsertedBy(s)') + Cardinality(Slots(s)') <= Wanted * runs'[s]
    BY DEF BoundInv
  <1>1. /\ at[w] = "inserting" /\ at'[w] = "requesting" /\ left[w] > 0 /\ left'[w] = left[w] - 1
        /\ origin[p] = None /\ origin' = [origin EXCEPT ![p] = task[w]]
        /\ UNCHANGED <<runs, task>>
        /\ \A v \in Replicas : v # w => left'[v] = left[v] /\ at'[v] = at[v]
    BY DEF CreateProduct, Insert, queue, Goto, TypeOK
  <1>2. /\ Budget(w) = left[w] /\ Budget(w)' = left[w] - 1 /\ left[w] \in 1 .. Wanted
        /\ \A v \in Replicas : v # w => Budget(v)' = Budget(v)
    BY <1>1, ConstantsAssumption DEF Budget, Inserting, TypeOK
  <1>3. Wanted * runs[s] \in Nat /\ None # s
    BY BoundNat, ConstantsAssumption DEF TypeOK, Requests
  <1>4. CASE task[w] # s
    <2>1. InsertedBy(s)' = InsertedBy(s)
      BY <1>1, <1>3, <1>4 DEF InsertedBy, TypeOK
    <2>2. Slots(s)' = Slots(s)
      BY <1>1, <1>2, <1>4 DEF Slots
    <2>. QED BY <1>1, <2>1, <2>2 DEF BoundInv
  <1>5. CASE task[w] = s
    <2>1. InsertedBy(s)' = InsertedBy(s) \cup {p} /\ p \notin InsertedBy(s)
      BY <1>1, <1>3, <1>5 DEF InsertedBy, TypeOK
    <2>2. <<w, left[w]>> \in Slots(s)
      BY <1>2, <1>5 DEF Slots
    <2>3. Slots(s)' = Slots(s) \ {<<w, left[w]>>}
      <3>1. ASSUME NEW v \in Replicas, NEW i \in 1 .. Wanted
            PROVE  task'[v] = s /\ i <= Budget(v)'
                      <=> task[v] = s /\ i <= Budget(v) /\ <<v, i>> # <<w, left[w]>>
        BY <1>1, <1>2, BudgetType
      <3>. QED BY <3>1 DEF Slots
    <2>4. Cardinality(InsertedBy(s)') = Cardinality(InsertedBy(s)) + 1
      BY <2>1, BoundCounted, FS_AddElement
    <2>5. Cardinality(Slots(s)') = Cardinality(Slots(s)) - 1
      BY <2>2, <2>3, BoundCounted, FS_RemoveElement
    <2>. QED BY <1>1, <1>3, <2>4, <2>5, BoundCounted DEF BoundInv
  <1>. QED BY <1>4, <1>5

\* Every step keeps it.
LEMMA BoundStep == TypeOK /\ TypeOK' /\ BoundInv /\ [Next]_vars => BoundInv'
  <1>. SUFFICES ASSUME TypeOK, TypeOK', BoundInv, [Next]_vars PROVE BoundInv'
    OBVIOUS
  <1>g. ASSUME NEW w \in Replicas, NEW place, Goto(w, place)
        PROVE  at'[w] = place /\ \A v \in Replicas : v # w => at'[v] = at[v]
    BY <1>g DEF Goto, TypeOK
  <1>b. /\ \A v \in Replicas : Budget(v) \in 0 .. Wanted /\ Budget(v)' \in 0 .. Wanted
        /\ \A v \in Replicas : Budget(v) >= 0 /\ Budget(v) <= Budget(v)
    BY BudgetType, ConstantsAssumption
  <1>1. ASSUME UNCHANGED <<at, task, left, origin, runs>> PROVE BoundInv'
    <2>1. \A v \in Replicas : Budget(v)' = Budget(v)
      BY <1>1 DEF Budget, Inserting
    <2>. QED BY <1>1, <1>b, <2>1, BoundQuiet
  <1>2. CASE UNCHANGED vars
    BY <1>1, <1>2 DEF vars, queue, made, replica
  <1>3. ASSUME NEW s, \/ Seek(s) \/ Request(s) \/ CheckMatches \/ ReadArray(s) \/ WriteArray(s)
        PROVE  BoundInv'
    BY <1>1, <1>3 DEF Seek, Request, CheckMatches, ReadArray, WriteArray, Queue!Publish, queue, made,
                      replica
  <1>4. ASSUME NEW w \in Replicas, NEW n \in 0 .. Wanted, Found(w, n) PROVE BoundInv'
    <2>1. /\ at[w] = "searching" /\ at'[w] = "inserting" /\ left'[w] = n
          /\ UNCHANGED <<origin, runs, task>>
          /\ \A v \in Replicas : v # w => at'[v] = at[v] /\ left'[v] = left[v]
      BY <1>4, <1>g DEF Found, queue, made, TypeOK
    <2>2. Budget(w)' <= Budget(w)
      BY <2>1, ConstantsAssumption DEF Budget, Inserting
    <2>3. \A v \in Replicas : v # w => Budget(v)' = Budget(v)
      BY <2>1 DEF Budget, Inserting
    <2>. QED BY <1>b, <2>1, <2>2, <2>3, BoundQuiet
  <1>5. ASSUME NEW w \in Replicas, CreateRequest(w) PROVE BoundInv'
    <2>1. at[w] = "requesting" /\ Goto(w, "inserting") /\ UNCHANGED <<origin, runs, task, left>>
      BY <1>5 DEF CreateRequest, Queue!Publish, made, work
    <2>2. \A v \in Replicas : Budget(v)' = Budget(v)
      BY <2>1, <1>g DEF Budget, Inserting
    <2>. QED BY <1>b, <2>1, <2>2, BoundQuiet
  <1>6. ASSUME NEW w \in Replicas,
               \/ StartFails(w) \/ CreateRequestFails(w) \/ Push(w) \/ GiveUp(w) \/ Look(w)
               \/ Tell(w) \/ Fail(w) \/ Complete(w) \/ Error(w)
        PROVE  BoundInv'
    <2>1. UNCHANGED <<origin, runs, task, left>>
      BY <1>6 DEF StartFails, CreateRequestFails, Push, GiveUp, Look, Tell, Fail, Complete, Error,
                  Finish, queue, made, work
    <2>2. /\ at'[w] \notin {"beginning", "searching", "inserting", "requesting"}
          /\ \A v \in Replicas : v # w => at'[v] = at[v]
      BY <1>6, <1>g DEF StartFails, CreateRequestFails, Push, GiveUp, Look, Tell, Fail, Complete,
                        Error, Finish
    <2>3. Budget(w)' = 0 /\ \A v \in Replicas : v # w => Budget(v)' = Budget(v)
      BY <2>1, <2>2 DEF Budget, Inserting
    <2>. QED BY <1>b, <2>1, <2>3, BoundQuiet
  <1>7. ASSUME NEW w \in Replicas, Ack(w) \/ AckFails(w) \/ Crash(w) PROVE BoundInv'
    <2>1. Forget(w) /\ UNCHANGED <<origin, runs>>
      BY <1>7 DEF Ack, AckFails, Crash, Queue!Finish, queue, made
    <2>2. /\ at'[w] = "idle"
          /\ \A v \in Replicas : v # w => at'[v] = at[v] /\ task'[v] = task[v] /\ left'[v] = left[v]
      BY <2>1, <1>g DEF Forget
    <2>3. Budget(w)' = 0 /\ \A v \in Replicas : v # w => Budget(v)' = Budget(v)
      BY <2>2 DEF Budget, Inserting
    <2>. QED BY <1>b, <2>1, <2>2, <2>3, BoundQuiet
  <1>8. ASSUME NEW w \in Replicas, Cut(w) PROVE BoundInv'
    BY <1>1, <1>8 DEF Cut, queue, made, work
  <1>9. ASSUME NEW w \in Replicas, Start(w) PROVE BoundInv'
    <2>1. UNCHANGED <<origin, runs, task, left>> /\ at[w] = "beginning"
      BY <1>9 DEF Start, queue, made, work
    <2>2. PICK place \in {"searching", "opening"} : Goto(w, place)
      BY <1>9 DEF Start
    <2>3. at'[w] = place /\ \A v \in Replicas : v # w => at'[v] = at[v]
      BY <1>g, <2>2
    <2>4. /\ Budget(w)' = Budget(w) \/ Budget(w)' = 0
          /\ \A v \in Replicas : v # w => Budget(v)' = Budget(v)
      BY <2>1, <2>3 DEF Budget, Inserting
    <2>. QED BY <1>b, <2>1, <2>4, BoundQuiet
  <1>. QED
    BY <1>2, <1>3, <1>4, <1>5, <1>6, <1>7, <1>8, <1>9, BoundBegin, BoundCreate
       DEF Next, Callback, Search, ReadProduct

\* A search inserts no more products than wanted each time it is executed, for
\* any number of replicas that execute it at once.
THEOREM InsertedBoundCorrect == Spec => []InsertedBound
  <1>1. Init => BoundInv
    <2>. SUFFICES ASSUME Init, NEW s \in Searches
                  PROVE  Cardinality(InsertedBy(s)) + Cardinality(Slots(s)) <= Wanted * runs[s]
      BY DEF BoundInv
    <2>1. InsertedBy(s) = {}
      BY ConstantsAssumption DEF Init, InsertedBy, Requests
    <2>2. Slots(s) = {}
      BY ConstantsAssumption DEF Init, Slots, Requests
    <2>3. Cardinality(InsertedBy(s)) = 0 /\ Cardinality(Slots(s)) = 0
      BY <2>1, <2>2, FS_EmptySet
    <2>4. runs[s] = 0
      BY DEF Init, Queue!Init, Requests
    <2>. QED BY <2>3, <2>4, ConstantsAssumption
  <1>2. TypeOK /\ BoundInv => InsertedBound
    <2>. SUFFICES ASSUME TypeOK, BoundInv, NEW s \in Searches
                  PROVE  Cardinality(InsertedBy(s)) <= Wanted * runs[s]
      BY DEF InsertedBound
    <2>1. Wanted * runs[s] \in Nat
      BY BoundNat DEF TypeOK, Requests
    <2>. QED BY <2>1, BoundCounted DEF BoundInv
  <1>. QED BY <1>1, <1>2, BoundStep, TypeCorrect, PTL DEF Spec
=============================================================================
