------------------------------ MODULE Accounts -------------------------------
(***************************************************************************)
(* Users, their restaurants, the staff and the themes of these, and the    *)
(* tokens that requests carry (internal/auth, internal/restaurant,         *)
(* internal/staff, internal/theme and the middleware in front of them).    *)
(*                                                                         *)
(* A worker serves one request after the other, and a statement is one     *)
(* atomic step.  An email stands for its user, a theme for its existence.  *)
(* Users are never deleted, restaurants only softly.                       *)
(***************************************************************************)
EXTENDS Naturals

CONSTANTS
    Emails,            \* emails people register or are appointed with
    Restaurants,       \* identities of restaurant rows
    Bases,             \* slugs owners ask for, or that names are turned into
    Appointments,      \* identities of restaurant_staff rows
    Workers,           \* workers serving requests
    Nil

ASSUME AccountsAssumption ==
    /\ Nil \notin Emails \union Restaurants \union Appointments
    /\ Nil \notin Bases \X Nat

VARIABLES
    users,             \* the users table: email -> role
    claims,            \* the claims of the JWTs issued
    restaurant,        \* the restaurants table: id -> row
    themed,            \* the restaurants that have a row in themes
    appointment,       \* the restaurant_staff table: id -> row
    created,           \* the restaurants whose creation was answered with them
    pc,                \* where each worker is in its request
    actor,             \* the claims its request carries
    target,            \* the restaurant its request is about
    held               \* what it read, or is about to write

tables == <<users, restaurant, themed, appointment>>
answers == <<claims, created>>
vars == <<users, claims, restaurant, themed, appointment, created, pc, actor, target, held>>

Roles == {"OWNER", "STAFF"}
Claim == [user : Emails, role : Roles]

\* A slug is a base followed by -N; 0 stands for no suffix.
Slug == Bases \X Nat
Row == [state : {"live", "deleted"}, slug : Slug, owner : Emails]
NoRow == [state |-> "none", slug |-> Nil, owner |-> Nil]
Live == {r \in Restaurants : restaurant[r].state = "live"}

Appointment == [state : {"held", "removed"}, restaurant : Restaurants, user : Emails]
NoAppointment == [state |-> "none", restaurant |-> Nil, user |-> Nil]
Held == {a \in Appointments : appointment[a].state = "held"}

Start(w, label, claim, r, data) ==
    /\ pc[w] = "idle"
    /\ pc' = [pc EXCEPT ![w] = label]
    /\ actor' = [actor EXCEPT ![w] = claim]
    /\ target' = [target EXCEPT ![w] = r]
    /\ held' = [held EXCEPT ![w] = data]

Goto(w, label, data) ==
    /\ pc' = [pc EXCEPT ![w] = label]
    /\ held' = [held EXCEPT ![w] = data]
    /\ UNCHANGED <<actor, target>>

Done(w) ==
    /\ pc' = [pc EXCEPT ![w] = "idle"]
    /\ actor' = [actor EXCEPT ![w] = Nil]
    /\ target' = [target EXCEPT ![w] = Nil]
    /\ held' = [held EXCEPT ![w] = Nil]

Init ==
    /\ users = [e \in Emails |-> "none"]
    /\ claims = {}
    /\ restaurant = [r \in Restaurants |-> NoRow]
    /\ themed = {}
    /\ appointment = [a \in Appointments |-> NoAppointment]
    /\ created = {}
    /\ pc = [w \in Workers |-> "idle"]
    /\ actor = [w \in Workers |-> Nil]
    /\ target = [w \in Workers |-> Nil]
    /\ held = [w \in Workers |-> Nil]

-----------------------------------------------------------------------------
(* Registration and login: auth/service.go.                                *)

RegisterCheck(w) ==
    /\ \E e \in Emails, role \in Roles :
          /\ users[e] = "none"
          /\ Start(w, "register", Nil, Nil, [user |-> e, role |-> role])
    /\ UNCHANGED <<tables, answers>>

\* Mutant of RegisterInsert: a second registration replaces the first.
RegisterInsertReplacing(w) ==
    /\ pc[w] = "register"
    /\ users' = [users EXCEPT ![held[w].user] = held[w].role]
    /\ Done(w)
    /\ UNCHANGED <<restaurant, themed, appointment, answers>>

\* UNIQUE (email) refuses the second of two registrations.
RegisterInsert(w) ==
    /\ pc[w] = "register"
    /\ users' = IF users[held[w].user] = "none"
                THEN [users EXCEPT ![held[w].user] = held[w].role]
                ELSE users
    /\ Done(w)
    /\ UNCHANGED <<restaurant, themed, appointment, answers>>

Login ==
    /\ \E e \in Emails :
          /\ users[e] # "none"
          /\ claims' = claims \union {[user |-> e, role |-> users[e]]}
    /\ UNCHANGED <<tables, created, pc, actor, target, held>>

-----------------------------------------------------------------------------
(* Restaurants: restaurant/service.go.                                     *)

\* RequireRole("OWNER"), which believes the token.
Owners == {claim \in claims : claim.role = "OWNER"}

CreateStart(w) ==
    /\ \E claim \in Owners, base \in Bases : Start(w, "slug", claim, Nil, <<base, 0>>)
    /\ UNCHANGED <<tables, answers>>

\* The loop looks for the slug among the restaurants that are not deleted.
CreateSlug(w) ==
    /\ pc[w] = "slug"
    /\ IF \E r \in Live : restaurant[r].slug = held[w]
       THEN Goto(w, "slug", <<held[w][1], held[w][2] + 1>>)
       ELSE Goto(w, "insert", held[w])
    /\ UNCHANGED <<tables, answers>>

\* Mutant of SlugIsFree: the constraint is partial, as the search for slugs is.
SlugIsFreeAmongLive(slug) == \A r \in Live : restaurant[r].slug # slug

\* UNIQUE (slug) is over all rows, those of deleted restaurants included.
SlugIsFree(slug) == \A r \in Restaurants : restaurant[r].slug # slug

CreateInsert(w) ==
    /\ pc[w] = "insert"
    /\ \/ /\ ~SlugIsFree(held[w])
          /\ Done(w)
          /\ UNCHANGED restaurant
       \/ /\ SlugIsFree(held[w])
          /\ \E r \in Restaurants :
                /\ restaurant[r] = NoRow
                /\ restaurant' = [restaurant EXCEPT ![r] =
                        [state |-> "live", slug |-> held[w], owner |-> actor[w].user]]
                /\ pc' = [pc EXCEPT ![w] = "theme"]
                /\ target' = [target EXCEPT ![w] = r]
                /\ held' = [held EXCEPT ![w] = Nil]
                /\ UNCHANGED actor
    /\ UNCHANGED <<users, themed, appointment, answers>>

\* The default theme, which an upsert may have anticipated.
CreateTheme(w) ==
    /\ pc[w] = "theme"
    /\ themed' = themed \union {target[w]}
    /\ created' = IF target[w] \in themed THEN created ELSE created \union {target[w]}
    /\ Done(w)
    /\ UNCHANGED <<users, claims, restaurant, appointment>>

\* RestaurantAccess and RequireRole in front of the requests below.
Access(w) ==
    /\ \E claim \in Owners, r \in Live,
          label \in {"update", "delete", "appoint", "remove", "upsert"} :
          /\ restaurant[r].owner = claim.user
          /\ Start(w, label, claim, r, Nil)
    /\ UNCHANGED <<tables, answers>>

UpdateFind(w) ==
    /\ pc[w] = "update"
    /\ IF target[w] \in Live THEN Goto(w, "save", restaurant[target[w]]) ELSE Done(w)
    /\ UNCHANGED <<tables, answers>>

\* gorm's Save: an UPDATE, and an INSERT if the row was deleted meanwhile.
SaveUpdate(w) ==
    /\ pc[w] = "save"
    /\ IF target[w] \in Live
       THEN restaurant' = [restaurant EXCEPT ![target[w]] = held[w]] /\ Done(w)
       ELSE Goto(w, "saveInsert", held[w]) /\ UNCHANGED restaurant
    /\ UNCHANGED <<users, themed, appointment, answers>>

SaveInsert(w) ==
    /\ pc[w] = "saveInsert"
    /\ restaurant' = [restaurant EXCEPT ![target[w]] = held[w]]
    /\ Done(w)
    /\ UNCHANGED <<users, themed, appointment, answers>>

SoftDelete(w) ==
    /\ pc[w] = "delete"
    /\ restaurant' = [restaurant EXCEPT ![target[w]].state = "deleted"]
    /\ Done(w)
    /\ UNCHANGED <<users, themed, appointment, answers>>

-----------------------------------------------------------------------------
(* Staff and themes: staff/service.go, theme/service.go.                   *)

AppointFind(w) ==
    /\ pc[w] = "appoint"
    /\ \E e \in Emails :
          \/ users[e] = "OWNER" /\ Done(w)
          \/ users[e] = "STAFF" /\ Goto(w, "appointment", e)
          \/ users[e] = "none" /\ Goto(w, "user", e)
    /\ UNCHANGED <<tables, answers>>

AppointUser(w) ==
    /\ pc[w] = "user"
    /\ IF users[held[w]] = "none"
       THEN users' = [users EXCEPT ![held[w]] = "STAFF"] /\ Goto(w, "appointment", held[w])
       ELSE Done(w) /\ UNCHANGED users
    /\ UNCHANGED <<restaurant, themed, appointment, answers>>

\* UNIQUE (restaurant_id, user_id) refuses the second of two appointments.
AppointInsert(w) ==
    /\ pc[w] = "appointment"
    /\ LET row == [state |-> "held", restaurant |-> target[w], user |-> held[w]]
       IN  \/ /\ \E a \in Held : appointment[a] = row
              /\ UNCHANGED appointment
           \/ /\ \A a \in Held : appointment[a] # row
              /\ \E a \in Appointments :
                    /\ appointment[a] = NoAppointment
                    /\ appointment' = [appointment EXCEPT ![a] = row]
    /\ Done(w)
    /\ UNCHANGED <<users, restaurant, themed, answers>>

\* Mutant of RemoveFind: an appointment of any restaurant is removed.
RemoveFindAnywhere(w) ==
    /\ pc[w] = "remove"
    /\ \E a \in Appointments : IF a \in Held THEN Goto(w, "removal", a) ELSE Done(w)
    /\ UNCHANGED <<tables, answers>>

RemoveFind(w) ==
    /\ pc[w] = "remove"
    /\ \E a \in Appointments :
          IF a \in Held /\ appointment[a].restaurant = target[w]
          THEN Goto(w, "removal", a)
          ELSE Done(w)
    /\ UNCHANGED <<tables, answers>>

RemoveDelete(w) ==
    /\ pc[w] = "removal"
    /\ appointment' = [appointment EXCEPT ![held[w]].state = "removed"]
    /\ Done(w)
    /\ UNCHANGED <<users, restaurant, themed, answers>>

ThemeFind(w) ==
    /\ pc[w] = "upsert"
    /\ Goto(w, "themeSave", Nil)
    /\ UNCHANGED <<tables, answers>>

\* The row that was found is updated; a new one is refused if there is one now.
ThemeSave(w) ==
    /\ pc[w] = "themeSave"
    /\ themed' = themed \union {target[w]}
    /\ Done(w)
    /\ UNCHANGED <<users, restaurant, appointment, answers>>

\* A statement fails, or it was applied and its answer is lost.
Fail(w) ==
    /\ pc[w] # "idle"
    /\ Done(w)
    /\ UNCHANGED <<tables, answers>>

Step(w) ==
    \/ RegisterCheck(w) \/ RegisterInsert(w)
    \/ CreateStart(w) \/ CreateSlug(w) \/ CreateInsert(w) \/ CreateTheme(w)
    \/ Access(w)
    \/ UpdateFind(w) \/ SaveUpdate(w) \/ SaveInsert(w) \/ SoftDelete(w)
    \/ AppointFind(w) \/ AppointUser(w) \/ AppointInsert(w) \/ RemoveFind(w) \/ RemoveDelete(w)
    \/ ThemeFind(w) \/ ThemeSave(w)
    \/ Fail(w)

Next == Login \/ \E w \in Workers : Step(w)

Spec == Init /\ [][Next]_vars

-----------------------------------------------------------------------------
(* Properties.                                                             *)

\* Every variable has its type; a restaurant has its slug and owner for good.
TypeOK ==
    /\ users \in [Emails -> Roles \union {"none"}]
    /\ claims \subseteq Claim
    /\ restaurant \in [Restaurants -> Row \union {NoRow}]
    /\ themed \subseteq Restaurants
    /\ appointment \in [Appointments -> Appointment \union {NoAppointment}]
    /\ created \subseteq Restaurants
    /\ actor \in [Workers -> Claim \union {Nil}]
    /\ target \in [Workers -> Restaurants \union {Nil}]

\* What the middleware believes is true: tokens are never revoked and the role
\* in them is not looked up again, yet it is the role of their user, staff are
\* STAFF and owners OWNER, whichever registrations and appointments race for one
\* email.
AuthorityIsCurrent ==
    /\ \A c \in claims : users[c.user] = c.role
    /\ \A a \in Held : users[appointment[a].user] = "STAFF"
    /\ \A r \in Live : users[restaurant[r].owner] = "OWNER"

\* A restaurant that its owner was told of has a theme, and a slug that no
\* other restaurant has, whichever creations and upserts race.
CreatedIsWhole ==
    \A r \in created :
        /\ r \in themed
        /\ \A s \in Restaurants \ {r} : restaurant[s].slug # restaurant[r].slug

\* Only the owner of a restaurant changes its staff (RestaurantAccess tests the
\* restaurant in the path, Remove that the appointment is one of it).
StaffChangesByOwner ==
    [][\A a \in Appointments : appointment'[a] # appointment[a] =>
        \E w \in Workers :
            /\ pc'[w] # pc[w]
            /\ actor[w].user = restaurant[appointment'[a].restaurant].owner]_vars
=============================================================================
