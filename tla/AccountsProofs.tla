--------------------------- MODULE AccountsProofs ----------------------------
(***************************************************************************)
(* Proofs about Accounts for every number of people, restaurants, slugs,   *)
(* appointments and workers.                                               *)
(*                                                                         *)
(* The argument.  What a request found out earlier stays true: restaurants *)
(* keep slug and owner, appointments keep restaurant and user, and roles   *)
(* are for good.  So what a request holds is still right when it writes    *)
(* (Request), and with the unique constraints the properties follow.       *)
(***************************************************************************)
EXTENDS Accounts, TLAPS

Rows == {r \in Restaurants : restaurant[r] # NoRow}
Appointed == {a \in Appointments : appointment[a] # NoAppointment}

Label == {"idle", "register", "slug", "insert", "theme", "update", "save", "saveInsert",
          "delete", "appoint", "user", "appointment", "remove", "removal", "upsert",
          "themeSave"}

\* The labels behind RestaurantAccess.
Admitted == Label \ {"idle", "register", "slug", "insert", "theme"}

LocalsOK ==
    /\ pc \in [Workers -> Label]
    /\ actor \in [Workers -> Claim \union {Nil}]
    /\ target \in [Workers -> Restaurants \union {Nil}]
    /\ held = [w \in Workers |-> held[w]]

\* What worker w knows where it is in its request.
Request(w) ==
    /\ pc[w] = "register" => held[w] \in Claim
    /\ pc[w] \in {"slug", "insert"} => actor[w] \in Owners /\ held[w] \in Slug
    /\ pc[w] = "theme" => target[w] \in Rows
    /\ pc[w] \in Admitted =>
          /\ actor[w] \in Owners
          /\ target[w] \in Rows
          /\ restaurant[target[w]].owner = actor[w].user
    /\ pc[w] \in {"save", "saveInsert"} =>
          /\ held[w] \in Row
          /\ held[w].slug = restaurant[target[w]].slug
          /\ held[w].owner = restaurant[target[w]].owner
    /\ pc[w] = "user" => held[w] \in Emails
    /\ pc[w] = "appointment" => held[w] \in Emails /\ users[held[w]] = "STAFF"
    /\ pc[w] = "removal" =>
          held[w] \in Appointed /\ appointment[held[w]].restaurant = target[w]

\* Roles are right, for deleted restaurants and removed staff too.
RolesRight ==
    /\ \A c \in claims : users[c.user] = c.role
    /\ \A a \in Appointed : users[appointment[a].user] = "STAFF"
    /\ \A r \in Rows : users[restaurant[r].owner] = "OWNER"

SlugsDistinct == \A r, s \in Rows : restaurant[r].slug = restaurant[s].slug => r = s

IInv ==
    /\ TypeOK
    /\ LocalsOK
    /\ \A w \in Workers : Request(w)
    /\ RolesRight
    /\ SlugsDistinct
    /\ created \subseteq Rows \intersect themed

-----------------------------------------------------------------------------
\* The empty database and idle workers satisfy the invariant.
LEMMA InitIInv == Init => IInv
  BY DEF Init, IInv, TypeOK, LocalsOK, Request, RolesRight, SlugsDistinct, Rows, Appointed,
     Label, Admitted, Claim

\* What the steps of a worker do to the tables.
LEMMA StepTables ==
    ASSUME IInv, NEW w \in Workers, Step(w)
    PROVE  /\ \/ users' = users
              \/ /\ pc[w] = "register"
                 /\ users[held[w].user] = "none"
                 /\ users' = [users EXCEPT ![held[w].user] = held[w].role]
              \/ /\ pc[w] = "user"
                 /\ users[held[w]] = "none"
                 /\ users' = [users EXCEPT ![held[w]] = "STAFF"]
           /\ \/ restaurant' = restaurant
              \/ /\ pc[w] = "insert"
                 /\ SlugIsFree(held[w])
                 /\ \E r \in Restaurants \ Rows : restaurant' = [restaurant EXCEPT ![r] =
                        [state |-> "live", slug |-> held[w], owner |-> actor[w].user]]
              \/ /\ pc[w] \in {"save", "saveInsert"}
                 /\ restaurant' = [restaurant EXCEPT ![target[w]] = held[w]]
              \/ /\ pc[w] = "delete"
                 /\ restaurant' = [restaurant EXCEPT ![target[w]].state = "deleted"]
           /\ \/ appointment' = appointment
              \/ /\ pc[w] = "appointment"
                 /\ \E a \in Appointments \ Appointed : appointment' = [appointment EXCEPT ![a] =
                        [state |-> "held", restaurant |-> target[w], user |-> held[w]]]
              \/ /\ pc[w] = "removal"
                 /\ appointment' = [appointment EXCEPT ![held[w]].state = "removed"]
           /\ claims' = claims
<1> USE DEF tables, answers, Rows, Appointed
<1>1. CASE RegisterCheck(w) \/ RegisterInsert(w)
  BY <1>1 DEF RegisterCheck, RegisterInsert
<1>2. CASE CreateStart(w) \/ CreateSlug(w) \/ CreateInsert(w) \/ CreateTheme(w) \/ Access(w)
  BY <1>2 DEF CreateStart, CreateSlug, CreateInsert, CreateTheme, Access
<1>3. CASE UpdateFind(w) \/ SaveUpdate(w) \/ SaveInsert(w) \/ SoftDelete(w)
  BY <1>3 DEF UpdateFind, SaveUpdate, SaveInsert, SoftDelete
<1>4. CASE AppointFind(w) \/ AppointUser(w) \/ AppointInsert(w)
  BY <1>4 DEF AppointFind, AppointUser, AppointInsert
<1>5. CASE RemoveFind(w) \/ RemoveDelete(w) \/ ThemeFind(w) \/ ThemeSave(w) \/ Fail(w)
  BY <1>5 DEF RemoveFind, RemoveDelete, ThemeFind, ThemeSave, Fail
<1>6. QED
  BY <1>1, <1>2, <1>3, <1>4, <1>5 DEF Step

\* Roles are for good.
LEMMA StepUsers ==
    ASSUME IInv, NEW w \in Workers, Step(w)
    PROVE  /\ users' \in [Emails -> Roles \union {"none"}]
           /\ \A e \in Emails : users[e] # "none" => users'[e] = users[e]
<1>1. users \in [Emails -> Roles \union {"none"}] /\ Request(w)
  BY DEF IInv, TypeOK
<1>2. pc[w] = "register" => held[w].user \in Emails /\ held[w].role \in Roles
  BY <1>1 DEF Request, Claim
<1>3. pc[w] = "user" => held[w] \in Emails
  BY <1>1 DEF Request
<1>4. CASE users' = users
  BY <1>1, <1>4
<1>5. CASE /\ pc[w] = "register"
           /\ users[held[w].user] = "none"
           /\ users' = [users EXCEPT ![held[w].user] = held[w].role]
  BY <1>1, <1>2, <1>5
<1>6. CASE /\ pc[w] = "user"
           /\ users[held[w]] = "none"
           /\ users' = [users EXCEPT ![held[w]] = "STAFF"]
  BY <1>1, <1>3, <1>6 DEF Roles
<1>7. QED
  BY <1>4, <1>5, <1>6, StepTables

\* Restaurants keep their slugs, which stay distinct, and their owners, who are
\* OWNERs.
LEMMA StepRestaurants ==
    ASSUME IInv, NEW w \in Workers, Step(w)
    PROVE  /\ restaurant' \in [Restaurants -> Row \union {NoRow}]
           /\ \A r \in Rows : /\ r \in Rows'
                              /\ restaurant'[r].slug = restaurant[r].slug
                              /\ restaurant'[r].owner = restaurant[r].owner
           /\ \A r \in Restaurants : r \in Rows' => users[restaurant'[r].owner] = "OWNER"
           /\ SlugsDistinct'
<1>1. /\ restaurant \in [Restaurants -> Row \union {NoRow}]
      /\ Request(w) /\ RolesRight /\ SlugsDistinct /\ claims \subseteq Claim
      /\ NoRow \notin Row
  BY DEF IInv, TypeOK, NoRow, Row
<1>2. CASE restaurant' = restaurant
  BY <1>1, <1>2 DEF Rows, RolesRight, SlugsDistinct
<1>3. CASE /\ pc[w] = "insert"
           /\ SlugIsFree(held[w])
           /\ \E r \in Restaurants \ Rows : restaurant' = [restaurant EXCEPT ![r] =
                  [state |-> "live", slug |-> held[w], owner |-> actor[w].user]]
  <2>1. PICK r \in Restaurants \ Rows : restaurant' = [restaurant EXCEPT ![r] =
                  [state |-> "live", slug |-> held[w], owner |-> actor[w].user]]
    BY <1>3
  <2>2. /\ held[w] \in Slug
        /\ actor[w].user \in Emails
        /\ users[actor[w].user] = "OWNER"
    BY <1>1, <1>3 DEF Request, Owners, RolesRight, Claim
  <2>3. [state |-> "live", slug |-> held[w], owner |-> actor[w].user] \in Row
    BY <2>2 DEF Row
  <2>4. Rows' = Rows \union {r} /\ \A s \in Rows : restaurant'[s] = restaurant[s]
    BY <1>1, <2>1, <2>3 DEF Rows
  <2>5. restaurant'[r].slug = held[w] /\ restaurant'[r].owner = actor[w].user
    BY <1>1, <2>1
  <2>6. \A s \in Rows : restaurant[s].slug # held[w]
    BY <1>3 DEF SlugIsFree, Rows
  <2>7. QED
    BY <1>1, <2>1, <2>2, <2>3, <2>4, <2>5, <2>6 DEF RolesRight, SlugsDistinct
<1>4. CASE /\ pc[w] \in {"save", "saveInsert"}
           /\ restaurant' = [restaurant EXCEPT ![target[w]] = held[w]]
  <2>1. /\ target[w] \in Rows
        /\ held[w] \in Row
        /\ held[w].slug = restaurant[target[w]].slug
        /\ held[w].owner = restaurant[target[w]].owner
    BY <1>1, <1>4 DEF Request, Admitted, Label
  <2>2. Rows' = Rows
    BY <1>1, <1>4, <2>1 DEF Rows
  <2>3. \A r \in Rows : /\ restaurant'[r].slug = restaurant[r].slug
                        /\ restaurant'[r].owner = restaurant[r].owner
    BY <1>1, <1>4, <2>1 DEF Rows
  <2>4. restaurant' \in [Restaurants -> Row \union {NoRow}]
    BY <1>1, <1>4, <2>1
  <2>5. QED
    BY <1>1, <2>2, <2>3, <2>4 DEF RolesRight, SlugsDistinct
<1>5. CASE /\ pc[w] = "delete"
           /\ restaurant' = [restaurant EXCEPT ![target[w]].state = "deleted"]
  <2>1. target[w] \in Rows
    BY <1>1, <1>5 DEF Request, Admitted, Label
  <2>2. restaurant[target[w]] \in Row
    BY <1>1, <2>1 DEF Rows
  <2>3. [restaurant[target[w]] EXCEPT !.state = "deleted"] \in Row
    BY <2>2 DEF Row
  <2>4. Rows' = Rows
    BY <1>1, <1>5, <2>1, <2>3 DEF Rows
  <2>5. \A r \in Rows : /\ restaurant'[r].slug = restaurant[r].slug
                        /\ restaurant'[r].owner = restaurant[r].owner
    BY <1>1, <1>5, <2>1, <2>2 DEF Rows, Row
  <2>6. restaurant' \in [Restaurants -> Row \union {NoRow}]
    BY <1>1, <1>5, <2>1, <2>3
  <2>7. QED
    BY <1>1, <2>4, <2>5, <2>6 DEF RolesRight, SlugsDistinct
<1>6. QED
  BY <1>2, <1>3, <1>4, <1>5, StepTables

\* Appointments keep their restaurant and their user, who is STAFF.
LEMMA StepAppointments ==
    ASSUME IInv, NEW w \in Workers, Step(w)
    PROVE  /\ appointment' \in [Appointments -> Appointment \union {NoAppointment}]
           /\ \A a \in Appointed : /\ a \in Appointed'
                                   /\ appointment'[a].restaurant = appointment[a].restaurant
                                   /\ appointment'[a].user = appointment[a].user
           /\ \A a \in Appointments : a \in Appointed' => users[appointment'[a].user] = "STAFF"
<1>1. /\ appointment \in [Appointments -> Appointment \union {NoAppointment}]
      /\ Request(w) /\ RolesRight
      /\ NoAppointment \notin Appointment
  BY DEF IInv, TypeOK, NoAppointment, Appointment
<1>2. CASE appointment' = appointment
  BY <1>1, <1>2 DEF Appointed, RolesRight
<1>3. CASE /\ pc[w] = "appointment"
           /\ \E a \in Appointments \ Appointed : appointment' = [appointment EXCEPT ![a] =
                  [state |-> "held", restaurant |-> target[w], user |-> held[w]]]
  <2>1. PICK a \in Appointments \ Appointed : appointment' = [appointment EXCEPT ![a] =
                  [state |-> "held", restaurant |-> target[w], user |-> held[w]]]
    BY <1>3
  <2>2. held[w] \in Emails /\ users[held[w]] = "STAFF" /\ target[w] \in Restaurants
    BY <1>1, <1>3 DEF Request, Admitted, Label, Rows
  <2>3. [state |-> "held", restaurant |-> target[w], user |-> held[w]] \in Appointment
    BY <2>2 DEF Appointment
  <2>4. QED
    BY <1>1, <2>1, <2>2, <2>3 DEF Appointed, RolesRight
<1>4. CASE /\ pc[w] = "removal"
           /\ appointment' = [appointment EXCEPT ![held[w]].state = "removed"]
  <2>1. held[w] \in Appointed
    BY <1>1, <1>4 DEF Request
  <2>2. appointment[held[w]] \in Appointment
    BY <1>1, <2>1 DEF Appointed
  <2>3. [appointment[held[w]] EXCEPT !.state = "removed"] \in Appointment
    BY <2>2 DEF Appointment
  <2>4. \A a \in Appointed : /\ appointment'[a].restaurant = appointment[a].restaurant
                             /\ appointment'[a].user = appointment[a].user
    BY <1>1, <1>4, <2>1, <2>2 DEF Appointed, Appointment
  <2>5. Appointed' = Appointed
    BY <1>1, <1>4, <2>1, <2>3 DEF Appointed
  <2>6. QED
    BY <1>1, <1>4, <2>1, <2>3, <2>4, <2>5 DEF RolesRight
<1>5. QED
  BY <1>2, <1>3, <1>4, StepTables

-----------------------------------------------------------------------------
(* The locals of the requests.                                             *)

\* A step of a worker leaves the locals of the others alone.
LEMMA OwnLocals ==
    ASSUME IInv, NEW w \in Workers, Step(w)
    PROVE  /\ pc' \in [Workers -> Label]
           /\ actor' \in [Workers -> Claim \union {Nil}]
           /\ target' \in [Workers -> Restaurants \union {Nil}]
           /\ held' = [v \in Workers |-> held'[v]]
           /\ \A v \in Workers \ {w} : /\ pc'[v] = pc[v]
                                       /\ actor'[v] = actor[v]
                                       /\ target'[v] = target[v]
                                       /\ held'[v] = held[v]
<1>1. LocalsOK /\ claims \subseteq Claim
  BY DEF IInv, TypeOK
<1>2. ASSUME Access(w)
      PROVE  \E label \in Label, claim \in Claim :
                /\ pc' = [pc EXCEPT ![w] = label]
                /\ actor' = [actor EXCEPT ![w] = claim]
                /\ \E r \in Restaurants : target' = [target EXCEPT ![w] = r]
                /\ held' = [held EXCEPT ![w] = Nil]
  <2>1. PICK claim \in Owners, r \in Live,
             label \in {"update", "delete", "appoint", "remove", "upsert"} :
                Start(w, label, claim, r, Nil)
    BY <1>2 DEF Access
  <2>2. claim \in Claim /\ r \in Restaurants /\ label \in Label
    BY <1>1 DEF Owners, Live, Label
  <2>3. QED
    BY <2>1, <2>2 DEF Start
<1>3. \E label \in Label, claim \in Claim \union {Nil}, r \in Restaurants \union {Nil} :
         \E data \in {held'[w]} :
          /\ pc' = [pc EXCEPT ![w] = label]
          /\ actor' = [actor EXCEPT ![w] = claim]
          /\ target' = [target EXCEPT ![w] = r]
          /\ held' = [held EXCEPT ![w] = data]
  <2> USE <1>1 DEF LocalsOK, Start, Goto, Done, Label, Live, Owners
  <2>1. CASE RegisterCheck(w)
    BY <2>1 DEF RegisterCheck
  <2>2. CASE RegisterInsert(w)
    BY <2>2 DEF RegisterInsert
  <2>3. CASE CreateStart(w)
    BY <2>3 DEF CreateStart
  <2>4. CASE CreateSlug(w)
    BY <2>4 DEF CreateSlug
  <2>5. CASE CreateInsert(w)
    BY <2>5 DEF CreateInsert
  <2>6. CASE CreateTheme(w)
    BY <2>6 DEF CreateTheme
  <2>7. CASE Access(w)
    BY <1>2, <2>7
  <2>8. CASE UpdateFind(w) \/ SaveUpdate(w) \/ SaveInsert(w) \/ SoftDelete(w)
    BY <2>8 DEF UpdateFind, SaveUpdate, SaveInsert, SoftDelete
  <2>9. CASE AppointFind(w) \/ AppointUser(w) \/ AppointInsert(w)
    BY <2>9 DEF AppointFind, AppointUser, AppointInsert
  <2>10. CASE RemoveFind(w) \/ RemoveDelete(w)
    BY <2>10 DEF RemoveFind, RemoveDelete
  <2>11. CASE ThemeFind(w) \/ ThemeSave(w) \/ Fail(w)
    BY <2>11 DEF ThemeFind, ThemeSave, Fail
  <2>12. QED
    BY <2>1, <2>2, <2>3, <2>4, <2>5, <2>6, <2>7, <2>8, <2>9, <2>10, <2>11 DEF Step
<1>4. QED
  BY <1>1, <1>3 DEF LocalsOK

\* What another request knows stays true.
LEMMA OthersKnow ==
    ASSUME IInv, NEW w \in Workers, Step(w), NEW v \in Workers \ {w}
    PROVE  Request(v)'
<1>1. Request(v) /\ Owners' = Owners
  BY StepTables DEF IInv, Owners
<1>2. /\ pc'[v] = pc[v]
      /\ actor'[v] = actor[v]
      /\ target'[v] = target[v]
      /\ held'[v] = held[v]
  BY OwnLocals
<1>3. \A r \in Rows : /\ r \in Rows'
                      /\ restaurant'[r].slug = restaurant[r].slug
                      /\ restaurant'[r].owner = restaurant[r].owner
  BY StepRestaurants
<1>4. \A e \in Emails : users[e] = "STAFF" => users'[e] = "STAFF"
  BY StepUsers
<1>5. \A a \in Appointed : /\ a \in Appointed'
                           /\ appointment'[a].restaurant = appointment[a].restaurant
  BY StepAppointments
<1>6. pc[v] \in {"save", "saveInsert"} => pc[v] \in Admitted
  BY DEF Admitted, Label
<1>7. QED
  BY <1>1, <1>2, <1>3, <1>4, <1>5, <1>6 DEF Request

\* A worker knows, after its step, what it has just found out.
LEMMA SelfKnows ==
    ASSUME IInv, NEW w \in Workers, Step(w)
    PROVE  Request(w)'
<1>1. /\ Request(w) /\ LocalsOK /\ claims \subseteq Claim
      /\ restaurant \in [Restaurants -> Row \union {NoRow}]
      /\ NoRow \notin Row
  BY DEF IInv, TypeOK, NoRow, Row
<1>2. Owners' = Owners
  BY StepTables DEF Owners
<1>3. CASE Done(w)
  BY <1>1, <1>3 DEF Done, LocalsOK, Request, Admitted
<1>4. CASE RegisterCheck(w)
  BY <1>1, <1>4 DEF RegisterCheck, Start, LocalsOK, Request, Admitted, Claim
<1>5. CASE CreateStart(w)
  BY <1>1, <1>2, <1>5 DEF CreateStart, Start, LocalsOK, Request, Admitted, Slug
<1>6. CASE CreateSlug(w)
  <2>1. actor[w] \in Owners /\ held[w] \in Slug
    BY <1>1, <1>6 DEF CreateSlug, Request
  <2>2. <<held[w][1], held[w][2] + 1>> \in Slug
    BY <2>1 DEF Slug
  <2>3. QED
    BY <1>1, <1>2, <1>6, <2>1, <2>2 DEF CreateSlug, Goto, LocalsOK, Request, Admitted
<1>7. CASE CreateInsert(w)
  BY <1>1, <1>3, <1>7 DEF CreateInsert, LocalsOK, Request, Admitted, Rows, NoRow
<1>8. CASE Access(w)
  <2>1. PICK claim \in Owners, r \in Live,
             label \in {"update", "delete", "appoint", "remove", "upsert"} :
            /\ restaurant[r].owner = claim.user
            /\ Start(w, label, claim, r, Nil)
            /\ UNCHANGED restaurant
    BY <1>8 DEF Access, tables
  <2>2. r \in Rows
    BY DEF Live, Rows, NoRow
  <2>3. QED
    BY <1>1, <1>2, <2>1, <2>2 DEF Start, LocalsOK, Request, Rows
<1>9. CASE UpdateFind(w)
  <2>1. /\ target[w] \in Rows /\ actor[w] \in Owners
        /\ restaurant[target[w]].owner = actor[w].user
    BY <1>1, <1>9 DEF UpdateFind, Request, Admitted, Label
  <2>2. restaurant[target[w]] \in Row
    BY <1>1, <2>1 DEF Rows
  <2>3. QED
    BY <1>1, <1>2, <1>3, <1>9, <2>1, <2>2 DEF UpdateFind, Goto, LocalsOK, Request, Rows, tables
<1>10. CASE SaveUpdate(w)
  BY <1>1, <1>2, <1>3, <1>10 DEF SaveUpdate, Goto, LocalsOK, Request, Admitted, Label, Rows
<1>11. CASE AppointFind(w)
  BY <1>1, <1>2, <1>3, <1>11 DEF AppointFind, Goto, LocalsOK, Request, Admitted, Label, Rows, tables
<1>12. CASE AppointUser(w)
  BY <1>1, <1>2, <1>3, <1>12 DEF AppointUser, Goto, LocalsOK, Request, Admitted, Label, Rows, IInv,
     TypeOK
<1>13. CASE RemoveFind(w)
  BY <1>1, <1>2, <1>3, <1>13 DEF RemoveFind, Goto, LocalsOK, Request, Admitted, Label, Rows, tables,
     Held, Appointed, NoAppointment
<1>14. CASE ThemeFind(w)
  BY <1>1, <1>2, <1>14 DEF ThemeFind, Goto, LocalsOK, Request, Admitted, Label, Rows, tables
<1>15. QED
  BY <1>3, <1>4, <1>5, <1>6, <1>7, <1>8, <1>9, <1>10, <1>11, <1>12, <1>13, <1>14 DEF Step,
     RegisterInsert, CreateTheme, SaveInsert, SoftDelete, AppointInsert, RemoveDelete, ThemeSave, Fail

-----------------------------------------------------------------------------
(* The invariant, and what follows from it.                                *)

\* A login keeps the invariant: the claims it issues are true.
LEMMA LoginIInv ==
    ASSUME IInv, Login
    PROVE  IInv'
<1>1. PICK e \in Emails : /\ users[e] # "none"
                          /\ claims' = claims \union {[user |-> e, role |-> users[e]]}
  BY DEF Login
<1>2. UNCHANGED <<tables, created, pc, actor, target, held>>
  BY DEF Login
<1>3. users[e] \in Roles
  BY <1>1 DEF IInv, TypeOK
<1>4. claims' \subseteq Claim /\ \A c \in claims' : users[c.user] = c.role
  BY <1>1, <1>3 DEF IInv, TypeOK, RolesRight, Claim
<1>5. Owners \subseteq Owners' /\ Rows' = Rows /\ Appointed' = Appointed
  BY <1>1, <1>2 DEF Owners, Rows, Appointed, tables
<1>6. TypeOK' /\ LocalsOK'
  BY <1>2, <1>4 DEF IInv, TypeOK, LocalsOK, tables
<1>7. \A w \in Workers : Request(w)'
  BY <1>2, <1>5 DEF IInv, Request, tables
<1>8. RolesRight' /\ SlugsDistinct'
  BY <1>2, <1>4, <1>5 DEF IInv, RolesRight, SlugsDistinct, tables
<1>9. QED
  BY <1>2, <1>5, <1>6, <1>7, <1>8 DEF IInv, tables

\* Only a creation that has made its theme is told of.
LEMMA StepCreated ==
    ASSUME IInv, NEW w \in Workers, Step(w)
    PROVE  themed' \subseteq Restaurants /\ created' \subseteq Rows' \intersect themed'
<1>1. /\ Rows \subseteq Rows' /\ created \subseteq Rows \intersect themed
      /\ themed \subseteq Restaurants /\ Request(w)
  BY StepRestaurants DEF IInv, TypeOK
<1>2. CASE CreateTheme(w)
  BY <1>1, <1>2 DEF CreateTheme, Request, Rows
<1>3. CASE ThemeSave(w)
  <2>1. target[w] \in Rows
    BY <1>1, <1>3 DEF ThemeSave, Request, Admitted, Label
  <2>2. QED
    BY <1>1, <1>3, <2>1 DEF ThemeSave, Rows, answers
<1>4. CASE ~CreateTheme(w) /\ ~ThemeSave(w)
  <2>1. UNCHANGED <<themed, created>>
    BY <1>4 DEF Step, RegisterCheck, RegisterInsert, CreateStart, CreateSlug, CreateInsert, Access,
       UpdateFind, SaveUpdate, SaveInsert, SoftDelete, AppointFind, AppointUser, AppointInsert,
       RemoveFind, RemoveDelete, ThemeFind, Fail, tables, answers
  <2>2. QED
    BY <1>1, <2>1
<1>5. QED
  BY <1>2, <1>3, <1>4

\* So does a step of a worker.
LEMMA WorkerIInv ==
    ASSUME IInv, NEW w \in Workers, Step(w)
    PROVE  IInv'
<1>1. claims' = claims
  BY StepTables
<1>2. LocalsOK'
  BY OwnLocals DEF LocalsOK
<1>3. created' \subseteq Restaurants
  BY StepCreated DEF Rows
<1>4. TypeOK'
  BY <1>1, <1>3, StepUsers, StepRestaurants, StepAppointments, StepCreated, OwnLocals DEF IInv, TypeOK
<1>5. \A v \in Workers : Request(v)'
  BY OthersKnow, SelfKnows
<1>6. \A e \in Emails : users[e] # "none" => users'[e] = users[e]
  BY StepUsers
<1>7. RolesRight'
  <2>1. \A c \in claims : c.user \in Emails /\ c.role \in Roles
    BY DEF IInv, TypeOK, Claim
  <2>2. \A c \in claims' : users'[c.user] = c.role
    BY <1>1, <1>6, <2>1 DEF IInv, RolesRight, Roles
  <2>3. \A a \in Appointed' : appointment'[a].user \in Emails
    BY <1>4 DEF TypeOK, Appointed, Appointment
  <2>4. \A r \in Rows' : restaurant'[r].owner \in Emails
    BY <1>4 DEF TypeOK, Rows, Row
  <2>5. \A a \in Appointed' : users'[appointment'[a].user] = "STAFF"
    BY <1>6, <2>3, StepAppointments DEF Appointed
  <2>6. \A r \in Rows' : users'[restaurant'[r].owner] = "OWNER"
    BY <1>6, <2>4, StepRestaurants DEF Rows
  <2>7. QED
    BY <2>2, <2>5, <2>6 DEF RolesRight
<1>8. QED
  BY <1>2, <1>4, <1>5, <1>7, StepRestaurants, StepCreated DEF IInv

\* IInv holds in every reachable state.
LEMMA Invariance == Spec => []IInv
<1>1. IInv /\ UNCHANGED vars => IInv'
  BY DEF IInv, vars, TypeOK, LocalsOK, Request, RolesRight, SlugsDistinct, Rows, Appointed, Owners
<1>2. IInv /\ [Next]_vars => IInv'
  BY <1>1, LoginIInv, WorkerIInv DEF Next
<1>3. QED
  BY <1>2, InitIInv, PTL DEF Spec

\* Roles in tokens are those of their users, staff are STAFF and owners OWNER.
THEOREM RolesAreRight == Spec => [](TypeOK /\ AuthorityIsCurrent)
<1>1. IInv => TypeOK /\ AuthorityIsCurrent
  BY DEF IInv, RolesRight, AuthorityIsCurrent, Held, Appointed, NoAppointment, Live, Rows, NoRow
<1>2. QED
  BY <1>1, Invariance, PTL

\* A restaurant its owner was told of has a theme and a slug of its own.
THEOREM CreatedAreWhole == Spec => []CreatedIsWhole
<1>1. ASSUME IInv
      PROVE  CreatedIsWhole
  <2>1. \A r \in Rows : restaurant[r].slug \in Slug
    BY <1>1 DEF IInv, TypeOK, Rows, Row
  <2>2. \A r \in Restaurants \ Rows : restaurant[r].slug = Nil
    BY DEF Rows, NoRow
  <2>3. QED
    BY <1>1, <2>1, <2>2, AccountsAssumption DEF IInv, CreatedIsWhole, SlugsDistinct, Slug
<1>2. QED
  BY <1>1, Invariance, PTL

\* Appointments change only in requests of the owner of their restaurant.
THEOREM OwnersChangeStaff == Spec => StaffChangesByOwner
<1>1. ASSUME IInv, Next, NEW a \in Appointments, appointment'[a] # appointment[a]
      PROVE  \E w \in Workers :
                /\ pc'[w] # pc[w]
                /\ actor[w].user = restaurant[appointment'[a].restaurant].owner
  <2>1. PICK w \in Workers : Step(w)
    BY <1>1 DEF Next, Login, tables
  <2>2. CASE AppointInsert(w)
    <3>1. appointment'[a].restaurant = target[w] /\ pc[w] = "appointment"
      BY <1>1, <2>2 DEF AppointInsert, IInv, TypeOK
    <3>2. pc'[w] # pc[w]
      BY <1>1, <2>2, <3>1 DEF AppointInsert, Done, IInv, LocalsOK
    <3>3. QED
      BY <1>1, <3>1, <3>2 DEF IInv, Request, Admitted, Label
  <2>3. CASE RemoveDelete(w)
    <3>1. a = held[w] /\ pc[w] = "removal"
      BY <1>1, <2>3 DEF RemoveDelete, IInv, TypeOK
    <3>2. pc'[w] # pc[w]
      BY <1>1, <2>3, <3>1 DEF RemoveDelete, Done, IInv, LocalsOK
    <3>3. appointment'[a].restaurant = target[w]
      BY <1>1, <2>1, <3>1, StepAppointments DEF IInv, Request
    <3>4. QED
      BY <1>1, <3>1, <3>2, <3>3 DEF IInv, Request, Admitted, Label
  <2>4. CASE ~AppointInsert(w) /\ ~RemoveDelete(w)
    BY <1>1, <2>1, <2>4 DEF Step, RegisterCheck, RegisterInsert, CreateStart, CreateSlug, CreateInsert,
       CreateTheme, Access, UpdateFind, SaveUpdate, SaveInsert, SoftDelete, AppointFind, AppointUser,
       RemoveFind, ThemeFind, ThemeSave, Fail, tables
  <2>5. QED
    BY <2>2, <2>3, <2>4
<1>2. ASSUME IInv, [Next]_vars
      PROVE  [\A a \in Appointments : appointment'[a] # appointment[a] =>
                \E w \in Workers :
                    /\ pc'[w] # pc[w]
                    /\ actor[w].user = restaurant[appointment'[a].restaurant].owner]_vars
  BY <1>1, <1>2
<1>3. QED
  BY <1>2, Invariance, PTL DEF Spec, StaffChangesByOwner
=============================================================================
