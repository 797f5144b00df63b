------------------------------ MODULE Accounts ------------------------------
(***************************************************************************)
(* The user accounts of all organizations: registration, Google sign-in    *)
(* and profile (backend/api/auth.py), invitation and administration        *)
(* (backend/api/admin.py). Each handler reads what it decides on in awaits *)
(* of their own and writes when get_db commits; between those steps other  *)
(* requests run. No constraint of the table makes emails or Google         *)
(* accounts unique, and none keeps an administrator: the handlers must.    *)
(***************************************************************************)
EXTENDS Naturals, Sequences, FiniteSets

CONSTANTS
    Emails,
    GoogleEmail,    \* the email of the one Google account there is
    MaxUsers,       \* max_users of the organizations' tier
    Requests,       \* bound: requests in flight at once
    MaxAccounts,    \* bound: accounts, by how requests overlap
    None

Clients == {"serial", "any"}

ASSUME AccountsAssumption ==
    /\ GoogleEmail \in Emails
    /\ MaxUsers \in Nat \ {0}
    /\ IsFiniteSet(Requests)
    /\ MaxAccounts \in [Clients -> Nat]

VARIABLES
    rows,       \* the committed accounts, in the order of their insertion
    req,        \* the requests in flight
    client,     \* "serial" or "any": whether requests overlap
    cloud       \* cloud_mode: a request without credentials is refused

vars == <<rows, req, client, cloud>>

Roles == {"owner", "admin", "member"}
Admins == {"owner", "admin"}

\* An organization goes by the account it was made for.
Account == [org : Nat, email : Emails, role : Roles, active : BOOLEAN, google : BOOLEAN]

\* Where a request is, and what it knows there: whom it acts for, the account
\* or the email it is about, with the rows as it read them.
Steps == {"idle", "register", "authenticated", "target", "counted", "invite",
          "profile", "google", "googleNew"}
Request == [step : Steps, me : Nat, mine : Account \cup {None},
            target : Nat, was : Account \cup {None}, email : Emails \cup {None}]

Idle == [step |-> "idle", me |-> 0, mine |-> None, target |-> 0, was |-> None,
         email |-> None]

TypeOK ==
    /\ rows \in Seq(Account)
    /\ \A u \in DOMAIN rows : rows[u].org \in DOMAIN rows
    /\ req \in [Requests -> Request]
    /\ \A r \in Requests : {req[r].me, req[r].target} \subseteq {0} \cup DOMAIN rows
    /\ client \in Clients
    /\ cloud \in BOOLEAN

Init ==
    /\ rows = <<>>
    /\ req = [r \in Requests |-> Idle]
    /\ client \in Clients
    /\ cloud \in BOOLEAN

Members(org) == {u \in DOMAIN rows : rows[u].org = org}

Begins(r) ==
    /\ req[r] = Idle
    /\ client = "serial" => \A q \in Requests \ {r} : req[q] = Idle

\* The request goes on to its next await.
Await(r, next) ==
    /\ req' = [req EXCEPT ![r] = next]
    /\ UNCHANGED <<rows, client, cloud>>

\* Its commit, which ends it.
Commit(r, table) ==
    /\ rows' = table
    /\ req' = [req EXCEPT ![r] = Idle]
    /\ UNCHANGED <<client, cloud>>

Insert(r, account) ==
    /\ Len(rows) < MaxAccounts[client]
    /\ Commit(r, Append(rows, account))

\* A new organization with its owner.
InsertOwner(r, google) ==
    Insert(r, [org |-> Len(rows) + 1, email |-> req[r].email, role |-> "owner",
               active |-> TRUE, google |-> google])

\* A rejection, an error, a lost connection or a crash: get_db rolls back.
Fail(r) ==
    /\ req[r] # Idle
    /\ Await(r, Idle)

\* Variant: only accounts in use count.
FreeIfInactive(e) == \A u \in DOMAIN rows : rows[u].email = e => ~rows[u].active

\* The query for accounts with the email finds none.
Free(e) == \A u \in DOMAIN rows : rows[u].email # e

(***************************************************************************)
(* register                                                                *)
(***************************************************************************)
CheckRegister(r) ==
    /\ Begins(r)
    /\ \E e \in Emails : Free(e) /\ Await(r, [Idle EXCEPT !.step = "register", !.email = e])

CommitRegister(r) ==
    /\ req[r].step = "register"
    /\ InsertOwner(r, FALSE)

(***************************************************************************)
(* google_callback, after Google has said who it is. An account of that    *)
(* Google account is signed in, which changes nothing here.                *)
(***************************************************************************)
FindGoogle(r) ==
    /\ Begins(r)
    /\ \A u \in DOMAIN rows : ~rows[u].google
    /\ Await(r, [Idle EXCEPT !.step = "google", !.email = GoogleEmail])

\* An account that has the email is not linked to the Google account.
CheckGoogle(r) ==
    /\ req[r].step = "google"
    /\ Free(GoogleEmail)
    /\ Await(r, [req[r] EXCEPT !.step = "googleNew"])

CommitGoogle(r) ==
    /\ req[r].step = "googleNew"
    /\ InsertOwner(r, TRUE)

(***************************************************************************)
(* get_current_user. The account a token or an API key was issued to must  *)
(* be active; a request without either acts, outside the cloud, for the    *)
(* first account the database returns, in no particular order.             *)
(***************************************************************************)
Authenticate(r) ==
    /\ Begins(r)
    /\ \E u \in DOMAIN rows :
          /\ rows[u].active \/ ~cloud
          /\ Await(r, [Idle EXCEPT !.step = "authenticated", !.me = u, !.mine = rows[u]])

(***************************************************************************)
(* update_profile                                                          *)
(***************************************************************************)
CheckProfile(r) ==
    /\ req[r].step = "authenticated"
    /\ \E e \in Emails :
          /\ \A u \in (DOMAIN rows) \ {req[r].me} : rows[u].email # e
          /\ Await(r, [req[r] EXCEPT !.step = "profile", !.email = e])

\* The ORM writes the attributes that are not what it read.
Written(old, new, now) == IF new = old THEN now ELSE new

CommitProfile(r) ==
    LET me == req[r].me IN
    /\ req[r].step = "profile"
    /\ Commit(r, [rows EXCEPT ![me].email = Written(req[r].mine.email, req[r].email, @)])

(***************************************************************************)
(* update_user                                                             *)
(***************************************************************************)
\* Variant: the query does not look at the organization.
InReachAnywhere(r, u) == u \in DOMAIN rows

InReach(r, u) == u \in Members(req[r].mine.org)

\* The session returns its own copy of a row it has read before.
ReadTarget(r) ==
    /\ req[r].step = "authenticated"
    /\ req[r].mine.role \in Admins
    /\ \E u \in DOMAIN rows :
          /\ InReach(r, u)
          /\ Await(r, [req[r] EXCEPT !.step = "target", !.target = u,
                                     !.was = IF u = req[r].me THEN req[r].mine ELSE rows[u]])

\* Variant: users may deactivate themselves.
MaySetUnlessRole(r, role, active) ==
    /\ role # req[r].was.role =>
          /\ req[r].target # req[r].me
          /\ role \in Admins => req[r].mine.role = "owner"

\* A value that is not given is left as it was read.
MaySet(r, role, active) ==
    /\ role # req[r].was.role =>
          /\ req[r].target # req[r].me
          /\ role \in Admins => req[r].mine.role = "owner"
    /\ active # req[r].was.active => req[r].target # req[r].me

CommitUpdate(r) ==
    LET t == req[r].target
        was == req[r].was
    IN  /\ req[r].step = "target"
        /\ \E role \in Roles, active \in BOOLEAN :
              /\ MaySet(r, role, active)
              /\ Commit(r, [rows EXCEPT ![t].role = Written(was.role, role, @),
                                        ![t].active = Written(was.active, active, @)])

(***************************************************************************)
(* invite_user                                                             *)
(***************************************************************************)
\* Variant: the limit is compared with "more than".
BelowLimitOrAt(org) == Cardinality(Members(org)) <= MaxUsers

\* Deactivated members count.
BelowLimit(org) == Cardinality(Members(org)) < MaxUsers

CountUsers(r) ==
    /\ req[r].step = "authenticated"
    /\ req[r].mine.role \in Admins
    /\ BelowLimit(req[r].mine.org)
    /\ Await(r, [req[r] EXCEPT !.step = "counted"])

CheckInvite(r) ==
    /\ req[r].step = "counted"
    /\ \E e \in Emails : Free(e) /\ Await(r, [req[r] EXCEPT !.step = "invite", !.email = e])

CommitInvite(r) ==
    /\ req[r].step = "invite"
    /\ \E role \in Roles :
          Insert(r, [org |-> req[r].mine.org, email |-> req[r].email, role |-> role,
                     active |-> TRUE, google |-> FALSE])

(***************************************************************************)
(* Specification                                                           *)
(***************************************************************************)
Next ==
    \E r \in Requests :
        \/ CheckRegister(r) \/ CommitRegister(r)
        \/ FindGoogle(r) \/ CheckGoogle(r) \/ CommitGoogle(r)
        \/ Authenticate(r)
        \/ CheckProfile(r) \/ CommitProfile(r)
        \/ ReadTarget(r) \/ CommitUpdate(r)
        \/ CountUsers(r) \/ CheckInvite(r) \/ CommitInvite(r)
        \/ Fail(r)

Spec == Init /\ [][Next]_vars

(***************************************************************************)
(* Properties                                                              *)
(***************************************************************************)

\* When requests do not overlap, a sign-in finds one account at most, by email
\* and by Google account: every handler that looks one up raises on two.
AccountsDistinct ==
    client = "serial" =>
        \A u, v \in DOMAIN rows :
            rows[u].email = rows[v].email \/ (rows[u].google /\ rows[v].google) => u = v

\* When requests do not overlap and carry credentials, no sequence of demotions
\* and deactivations, by whomever, leaves an organization without an active
\* owner or admin, whom it takes to undo them.
AdministratorRemains ==
    client = "serial" /\ cloud =>
        \A u \in DOMAIN rows :
            \E v \in Members(rows[u].org) : rows[v].active /\ rows[v].role \in Admins

\* When requests do not overlap, invitations never bring an organization above
\* the users of its tier, whoever was deactivated or failed in between.
LimitKept ==
    client = "serial" =>
        \A u \in DOMAIN rows : Cardinality(Members(rows[u].org)) <= MaxUsers

\* The account that r is about to change is one that r may.
MayChange(r, u) ==
    \/ req[r].me = u
    \/ req[r].mine.role \in Admins /\ req[r].mine.org = rows[u].org

\* However requests overlap, an account is changed only by itself or by an owner
\* or admin of its organization, made an owner or admin only by an owner, and
\* never moved to another organization or deleted.
ChangesAuthorized ==
    [][\A u \in DOMAIN rows :
          /\ u \in DOMAIN rows' /\ rows'[u].org = rows[u].org
          /\ rows'[u] # rows[u] =>
                \E r \in Requests :
                    /\ req'[r] # req[r] /\ MayChange(r, u)
                    /\ rows'[u].role \in Admins \ {rows[u].role} => req[r].mine.role = "owner"]_vars
=============================================================================
