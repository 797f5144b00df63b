---------------------------- MODULE AccountsProofs ----------------------------
(***************************************************************************)
(* The accounts keep to what is promised of them, for any emails, tier and *)
(* number of requests in flight.                                           *)
(***************************************************************************)
EXTENDS Accounts, FiniteSetTheorems, TLAPS

(***************************************************************************)
(* What a request knows, and what it does.                                 *)
(***************************************************************************)

\* The steps of a request that acts for an account, and those that have an email.
Acting == {"authenticated", "target", "counted", "invite", "profile"}
Naming == {"register", "invite", "profile", "google", "googleNew"}

\* A request that is where next says, over the accounts of the table: it is about
\* accounts that exist, of one organization.
Sound(next, table) ==
    /\ next \in Request
    /\ {next.me, next.target} \subseteq {0} \cup DOMAIN table
    /\ next.step \in Acting =>
          /\ next.me \in DOMAIN table /\ next.mine \in Account
          /\ next.mine.org = table[next.me].org
    /\ next.step = "target" =>
          /\ next.target \in DOMAIN table /\ next.was \in Account
          /\ next.mine.org = table[next.target].org
          /\ next.mine.role \in Admins
    /\ next.step \in Naming => next.email \in Emails

IsTable(table) ==
    /\ table \in Seq(Account)
    /\ \A u \in DOMAIN table : table[u].org \in DOMAIN table

Knowing ==
    /\ IsTable(rows)
    /\ req \in [Requests -> Request]
    /\ \A r \in Requests : Sound(req[r], rows)
    /\ client \in Clients /\ cloud \in BOOLEAN

LEMMA KnowingTyped == Knowing => TypeOK
  BY DEF Knowing, IsTable, Sound, TypeOK

LEMMA IdleSound ==
    ASSUME NEW table
    PROVE  Sound(Idle, table) /\ Idle.step = "idle"
  BY DEF Sound, Idle, Request, Steps, Acting, Naming

\* Accounts stay where they are, in their organizations.
Grows(old, new) ==
    /\ DOMAIN old \subseteq DOMAIN new
    /\ \A u \in DOMAIN old : new[u].org = old[u].org

LEMMA SoundKept ==
    ASSUME NEW old, NEW new, Grows(old, new), NEW next, Sound(next, old)
    PROVE  Sound(next, new)
  BY DEF Grows, Sound

LEMMA TableIndices ==
    ASSUME NEW table \in Seq(Account)
    PROVE  /\ Len(table) \in Nat /\ DOMAIN table = 1 .. Len(table)
           /\ \A u \in DOMAIN table : u \in Nat /\ table[u] \in Account
  OBVIOUS

\* What a request that goes on knows next.
LEMMA Awaited ==
    ASSUME Knowing, NEW r \in Requests, NEW next, Await(r, next), Sound(next, rows)
    PROVE  Knowing'
  BY DEF Knowing, Await, Sound

\* What a request leaves that ends with a commit.
LEMMA Committed ==
    ASSUME Knowing, NEW r \in Requests, NEW table, Commit(r, table),
           IsTable(table), Grows(rows, table)
    PROVE  Knowing'
  <1>1. rows' = table /\ req' = [req EXCEPT ![r] = Idle] /\ UNCHANGED <<client, cloud>>
    BY DEF Commit
  <1>2. \A q \in Requests : Sound(req'[q], table)
    BY <1>1, IdleSound, SoundKept DEF Knowing
  <1>3. req' \in [Requests -> Request]
    BY <1>1, IdleSound DEF Knowing, Sound
  <1> QED
    BY <1>1, <1>2, <1>3 DEF Knowing

LEMMA Appended ==
    ASSUME NEW table, IsTable(table), NEW account \in Account,
           account.org \in (DOMAIN table) \cup {Len(table) + 1}
    PROVE  /\ IsTable(Append(table, account)) /\ Grows(table, Append(table, account))
           /\ DOMAIN Append(table, account) = (DOMAIN table) \cup {Len(table) + 1}
           /\ Append(table, account)[Len(table) + 1] = account
           /\ \A u \in DOMAIN table : Append(table, account)[u] = table[u]
           /\ Len(table) + 1 \notin DOMAIN table
  <1> DEFINE new == Append(table, account)
  <1>1. /\ table \in Seq(Account) /\ Len(table) \in Nat /\ DOMAIN table = 1 .. Len(table)
        /\ \A u \in DOMAIN table : u \in Nat
    BY TableIndices DEF IsTable
  <1>2. /\ new \in Seq(Account) /\ DOMAIN new = 1 .. Len(table) + 1
        /\ new[Len(table) + 1] = account
        /\ \A u \in 1 .. Len(table) : new[u] = table[u]
    BY <1>1
  <1>3. DOMAIN new = (DOMAIN table) \cup {Len(table) + 1} /\ Len(table) + 1 \notin DOMAIN table
    BY <1>1, <1>2
  <1>4. \A u \in DOMAIN table : new[u] = table[u]
    BY <1>1, <1>2
  <1> HIDE DEF new
  <1>5. IsTable(new) /\ Grows(table, new)
    BY <1>2, <1>3, <1>4 DEF IsTable, Grows
  <1> QED
    BY <1>2, <1>3, <1>4, <1>5 DEF new

LEMMA Changed ==
    ASSUME NEW table, IsTable(table), NEW u \in DOMAIN table, NEW account \in Account,
           account.org = table[u].org
    PROVE  /\ IsTable([table EXCEPT ![u] = account])
           /\ Grows(table, [table EXCEPT ![u] = account])
  <1> DEFINE new == [table EXCEPT ![u] = account]
  <1>1. table \in Seq(Account) /\ Len(table) \in Nat /\ DOMAIN table = 1 .. Len(table)
    BY TableIndices DEF IsTable
  <1>2. new \in Seq(Account) /\ DOMAIN new = DOMAIN table
    BY <1>1
  <1>3. \A v \in DOMAIN table : new[v] = IF v = u THEN account ELSE table[v]
    OBVIOUS
  <1> HIDE DEF new
  <1>4. IsTable(new) /\ Grows(table, new)
    BY <1>2, <1>3 DEF IsTable, Grows
  <1> QED
    BY <1>4 DEF new

(***************************************************************************)
(* Type correctness.                                                       *)
(***************************************************************************)

\* A request goes on, inserts an account or changes one.
Waits(r) ==
    \/ CheckRegister(r) \/ FindGoogle(r) \/ CheckGoogle(r) \/ Authenticate(r)
    \/ CheckProfile(r) \/ ReadTarget(r) \/ CountUsers(r) \/ CheckInvite(r) \/ Fail(r)

Inserts(r) == CommitRegister(r) \/ CommitGoogle(r) \/ CommitInvite(r)

Changes(r) == CommitProfile(r) \/ CommitUpdate(r)

LEMMA NextCases ==
    ASSUME Next
    PROVE  \E r \in Requests : Waits(r) \/ Inserts(r) \/ Changes(r)
  BY DEF Next, Waits, Inserts, Changes

LEMMA WaitsSound ==
    ASSUME Knowing, NEW r \in Requests, Waits(r)
    PROVE  \E next : Await(r, next) /\ Sound(next, rows)
  <1> USE DEF Acting, Naming
  <1>0. /\ Sound(req[r], rows) /\ req[r] \in Request
        /\ \A u \in DOMAIN rows : u \in Nat /\ rows[u] \in Account
    BY TableIndices DEF Knowing, IsTable, Sound
  <1>1. CASE Fail(r)
    BY <1>1, IdleSound DEF Fail
  <1>2. CASE CheckRegister(r)
    <2>1. PICK e \in Emails : Await(r, [Idle EXCEPT !.step = "register", !.email = e])
      BY <1>2 DEF CheckRegister
    <2>2. Sound([Idle EXCEPT !.step = "register", !.email = e], rows)
      BY DEF Sound, Idle, Request, Steps
    <2> QED
      BY <2>1, <2>2
  <1>3. CASE FindGoogle(r)
    <2>1. Await(r, [Idle EXCEPT !.step = "google", !.email = GoogleEmail])
      BY <1>3 DEF FindGoogle
    <2>2. Sound([Idle EXCEPT !.step = "google", !.email = GoogleEmail], rows)
      BY AccountsAssumption DEF Sound, Idle, Request, Steps
    <2> QED
      BY <2>1, <2>2
  <1>4. CASE CheckGoogle(r)
    <2>1. Await(r, [req[r] EXCEPT !.step = "googleNew"]) /\ req[r].step = "google"
      BY <1>4 DEF CheckGoogle
    <2>2. Sound([req[r] EXCEPT !.step = "googleNew"], rows)
      BY <1>0, <2>1 DEF Sound, Request, Steps
    <2> QED
      BY <2>1, <2>2
  <1>5. CASE Authenticate(r)
    <2>1. PICK u \in DOMAIN rows :
             Await(r, [Idle EXCEPT !.step = "authenticated", !.me = u, !.mine = rows[u]])
      BY <1>5 DEF Authenticate
    <2>2. Sound([Idle EXCEPT !.step = "authenticated", !.me = u, !.mine = rows[u]], rows)
      BY <1>0 DEF Sound, Idle, Request, Steps
    <2> QED
      BY <2>1, <2>2
  <1>6. CASE CheckProfile(r)
    <2>1. PICK e \in Emails : Await(r, [req[r] EXCEPT !.step = "profile", !.email = e])
      BY <1>6 DEF CheckProfile
    <2>2. req[r].step = "authenticated"
      BY <1>6 DEF CheckProfile
    <2>3. Sound([req[r] EXCEPT !.step = "profile", !.email = e], rows)
      BY <1>0, <2>2 DEF Sound, Request, Steps
    <2> QED
      BY <2>1, <2>3
  <1>7. CASE ReadTarget(r)
    <2>1. PICK u \in DOMAIN rows :
             /\ InReach(r, u)
             /\ Await(r, [req[r] EXCEPT !.step = "target", !.target = u,
                                        !.was = IF u = req[r].me THEN req[r].mine ELSE rows[u]])
      BY <1>7 DEF ReadTarget
    <2>2. PICK was \in Account : was = IF u = req[r].me THEN req[r].mine ELSE rows[u]
      BY <1>0, <1>7 DEF ReadTarget, Sound
    <2>3. Sound([req[r] EXCEPT !.step = "target", !.target = u, !.was = was], rows)
      BY <1>0, <1>7, <2>1 DEF ReadTarget, InReach, Members, Sound, Request, Steps
    <2> QED
      BY <2>1, <2>2, <2>3
  <1>8. CASE CountUsers(r)
    <2>1. Await(r, [req[r] EXCEPT !.step = "counted"]) /\ req[r].step = "authenticated"
      BY <1>8 DEF CountUsers
    <2>2. Sound([req[r] EXCEPT !.step = "counted"], rows)
      BY <1>0, <2>1 DEF Sound, Request, Steps
    <2> QED
      BY <2>1, <2>2
  <1>9. CASE CheckInvite(r)
    <2>1. PICK e \in Emails : Await(r, [req[r] EXCEPT !.step = "invite", !.email = e])
      BY <1>9 DEF CheckInvite
    <2>2. req[r].step = "counted"
      BY <1>9 DEF CheckInvite
    <2>3. Sound([req[r] EXCEPT !.step = "invite", !.email = e], rows)
      BY <1>0, <2>2 DEF Sound, Request, Steps
    <2> QED
      BY <2>1, <2>3
  <1> QED
    BY <1>1, <1>2, <1>3, <1>4, <1>5, <1>6, <1>7, <1>8, <1>9 DEF Waits

\* The account that an insert adds.
Owner(email, google) ==
    [org |-> Len(rows) + 1, email |-> email, role |-> "owner", active |-> TRUE, google |-> google]

LEMMA InsertsAccount ==
    ASSUME Knowing, NEW r \in Requests, Inserts(r)
    PROVE  \E account \in Account :
              /\ Commit(r, Append(rows, account))
              /\ account.email = req[r].email /\ account.active
              /\ \/ /\ CommitInvite(r) /\ ~account.google
                    /\ account.org = req[r].mine.org /\ account.org \in DOMAIN rows
                 \/ /\ CommitRegister(r) \/ CommitGoogle(r)
                    /\ account.org = Len(rows) + 1 /\ account.role = "owner"
                    /\ account.google => CommitGoogle(r)
  <1> USE DEF Acting, Naming
  <1>0. Sound(req[r], rows) /\ Len(rows) + 1 \in Nat /\ DOMAIN rows \subseteq Nat
    BY TableIndices DEF Knowing, IsTable
  <1>1. CASE CommitInvite(r)
    <2>1. /\ req[r].mine.org \in DOMAIN rows /\ req[r].mine.org \in Nat
          /\ req[r].email \in Emails
      BY <1>0, <1>1 DEF CommitInvite, Sound, Knowing, IsTable
    <2>2. PICK role \in Roles :
             Insert(r, [org |-> req[r].mine.org, email |-> req[r].email, role |-> role,
                        active |-> TRUE, google |-> FALSE])
      BY <1>1 DEF CommitInvite
    <2>3. [org |-> req[r].mine.org, email |-> req[r].email, role |-> role,
           active |-> TRUE, google |-> FALSE] \in Account
      BY <2>1 DEF Account
    <2> QED
      BY <1>1, <2>1, <2>2, <2>3 DEF Insert
  <1>2. ASSUME NEW google \in BOOLEAN, InsertOwner(r, google), req[r].email \in Emails,
               CommitRegister(r) \/ CommitGoogle(r), google => CommitGoogle(r)
        PROVE  \E account \in Account :
                  /\ Commit(r, Append(rows, account))
                  /\ account.email = req[r].email /\ account.active
                  /\ account.org = Len(rows) + 1 /\ account.role = "owner"
                  /\ account.google => CommitGoogle(r)
    <2>1. Owner(req[r].email, google) \in Account
      BY <1>0, <1>2 DEF Owner, Account, Roles
    <2>2. Commit(r, Append(rows, Owner(req[r].email, google)))
      BY <1>2 DEF InsertOwner, Insert, Owner
    <2>3. /\ Owner(req[r].email, google).email = req[r].email
          /\ Owner(req[r].email, google).active
          /\ Owner(req[r].email, google).org = Len(rows) + 1
          /\ Owner(req[r].email, google).role = "owner"
          /\ Owner(req[r].email, google).google = google
      BY DEF Owner
    <2> QED
      BY <1>2, <2>1, <2>2, <2>3
  <1>3. CASE CommitRegister(r)
    <2>1. req[r].email \in Emails /\ InsertOwner(r, FALSE)
      BY <1>0, <1>3 DEF CommitRegister, Sound
    <2> QED
      BY <1>2, <1>3, <2>1
  <1>4. CASE CommitGoogle(r)
    <2>1. req[r].email \in Emails /\ InsertOwner(r, TRUE)
      BY <1>0, <1>4 DEF CommitGoogle, Sound
    <2> QED
      BY <1>2, <1>4, <2>1
  <1> QED
    BY <1>1, <1>3, <1>4 DEF Inserts

\* The account as a change of its email, or of its role and activity, leaves it.
Renamed(r, account) ==
    [account EXCEPT !.email = Written(req[r].mine.email, req[r].email, account.email)]

Reassigned(r, account, role, active) ==
    [account EXCEPT !.role = Written(req[r].was.role, role, account.role),
                    !.active = Written(req[r].was.active, active, account.active)]

LEMMA ProfileChanges ==
    ASSUME Knowing, NEW r \in Requests, CommitProfile(r)
    PROVE  /\ req[r].me \in DOMAIN rows
           /\ Renamed(r, rows[req[r].me]) \in Account
           /\ Commit(r, [rows EXCEPT ![req[r].me] = Renamed(r, rows[req[r].me])])
  <1>1. /\ Sound(req[r], rows) /\ req[r].step = "profile"
        /\ \A u \in DOMAIN rows : rows[u] \in Account
    BY TableIndices DEF Knowing, IsTable, CommitProfile
  <1>2. req[r].me \in DOMAIN rows /\ req[r].email \in Emails
    BY <1>1 DEF Sound, Acting, Naming
  <1>3. Renamed(r, rows[req[r].me]) \in Account
    BY <1>1, <1>2 DEF Renamed, Written, Account
  <1> QED
    BY <1>2, <1>3 DEF CommitProfile, Renamed

LEMMA UpdateChanges ==
    ASSUME Knowing, NEW r \in Requests, CommitUpdate(r)
    PROVE  /\ req[r].target \in DOMAIN rows /\ req[r].step = "target"
           /\ \E role \in Roles, active \in BOOLEAN :
                 LET account == Reassigned(r, rows[req[r].target], role, active) IN
                 /\ MaySet(r, role, active)
                 /\ account \in Account
                 /\ Commit(r, [rows EXCEPT ![req[r].target] = account])
  <1>1. /\ Sound(req[r], rows) /\ req[r].step = "target"
        /\ \A u \in DOMAIN rows : rows[u] \in Account
    BY TableIndices DEF Knowing, IsTable, CommitUpdate
  <1>2. PICK t : t = req[r].target
    OBVIOUS
  <1>3. t \in DOMAIN rows /\ rows[t] \in Account
    BY <1>1, <1>2 DEF Sound
  <1>4. PICK role \in Roles, active \in BOOLEAN :
           /\ MaySet(r, role, active)
           /\ Commit(r, [rows EXCEPT ![t].role = Written(req[r].was.role, role, @),
                                     ![t].active = Written(req[r].was.active, active, @)])
    BY <1>2 DEF CommitUpdate
  <1>5. Reassigned(r, rows[t], role, active) \in Account
    BY <1>3 DEF Reassigned, Written, Account
  <1>6. [rows EXCEPT ![t].role = Written(req[r].was.role, role, @),
                     ![t].active = Written(req[r].was.active, active, @)]
        = [rows EXCEPT ![t] = Reassigned(r, rows[t], role, active)]
    BY <1>3 DEF Reassigned
  <1> QED
    BY <1>1, <1>2, <1>3, <1>4, <1>5, <1>6

\* Both leave the organization and the Google account.
LEMMA RenamedKeeps ==
    ASSUME NEW r, NEW account \in Account
    PROVE  /\ Renamed(r, account).org = account.org
           /\ Renamed(r, account).google = account.google
           /\ Renamed(r, account).role = account.role
           /\ Renamed(r, account).active = account.active
           /\ Renamed(r, account).email = Written(req[r].mine.email, req[r].email, account.email)
  BY DEF Renamed, Account

LEMMA ReassignedKeeps ==
    ASSUME NEW r, NEW account \in Account, NEW role \in Roles, NEW active \in BOOLEAN
    PROVE  /\ Reassigned(r, account, role, active).org = account.org
           /\ Reassigned(r, account, role, active).google = account.google
           /\ Reassigned(r, account, role, active).email = account.email
           /\ Reassigned(r, account, role, active).role
                 = Written(req[r].was.role, role, account.role)
           /\ Reassigned(r, account, role, active).active
                 = Written(req[r].was.active, active, account.active)
  BY DEF Reassigned, Account

LEMMA KnowingStep ==
    ASSUME Knowing, [Next]_vars
    PROVE  Knowing' /\ Grows(rows, rows')
  <1>0. IsTable(rows) /\ \A u \in DOMAIN rows : rows[u] \in Account
    BY TableIndices DEF Knowing, IsTable
  <1>1. CASE UNCHANGED vars
    BY <1>1 DEF vars, Knowing, Grows
  <1>2. ASSUME NEW r \in Requests, Waits(r)
        PROVE  Knowing' /\ Grows(rows, rows')
    <2>1. Knowing'
      BY <1>2, WaitsSound, Awaited
    <2>2. rows' = rows
      BY <1>2, WaitsSound DEF Await
    <2> QED
      BY <2>1, <2>2 DEF Grows
  <1>3. ASSUME NEW r \in Requests, NEW table, Commit(r, table), IsTable(table), Grows(rows, table)
        PROVE  Knowing' /\ Grows(rows, rows')
    BY <1>3, Committed DEF Commit
  <1>4. ASSUME NEW r \in Requests, Inserts(r)
        PROVE  Knowing' /\ Grows(rows, rows')
    <2>1. PICK account \in Account :
             /\ Commit(r, Append(rows, account))
             /\ account.org \in (DOMAIN rows) \cup {Len(rows) + 1}
      BY <1>4, InsertsAccount
    <2>2. IsTable(Append(rows, account)) /\ Grows(rows, Append(rows, account))
      BY <1>0, <2>1, Appended
    <2> QED
      BY <1>3, <2>1, <2>2
  <1>5. ASSUME NEW r \in Requests, NEW u \in DOMAIN rows, NEW account \in Account,
               account.org = rows[u].org, Commit(r, [rows EXCEPT ![u] = account])
        PROVE  Knowing' /\ Grows(rows, rows')
    BY <1>0, <1>3, <1>5, Changed
  <1>6. ASSUME NEW r \in Requests, CommitProfile(r)
        PROVE  Knowing' /\ Grows(rows, rows')
    <2>1. PICK u : u = req[r].me
      OBVIOUS
    <2>2. PICK account : account = Renamed(r, rows[u])
      OBVIOUS
    <2>3. u \in DOMAIN rows /\ account \in Account /\ Commit(r, [rows EXCEPT ![u] = account])
      BY <1>6, <2>1, <2>2, ProfileChanges
    <2>4. account.org = rows[u].org
      BY <1>0, <2>2, <2>3, RenamedKeeps
    <2> QED
      BY <1>5, <2>3, <2>4
  <1>7. ASSUME NEW r \in Requests, CommitUpdate(r)
        PROVE  Knowing' /\ Grows(rows, rows')
    <2>1. PICK u : u = req[r].target
      OBVIOUS
    <2>2. PICK role \in Roles, active \in BOOLEAN, account \in Account :
             /\ u \in DOMAIN rows
             /\ account = Reassigned(r, rows[u], role, active)
             /\ Commit(r, [rows EXCEPT ![u] = account])
      BY <1>7, <2>1, UpdateChanges
    <2>3. Reassigned(r, rows[u], role, active).org = rows[u].org
      BY <1>0, <2>2, ReassignedKeeps
    <2> QED
      BY <1>5, <2>2, <2>3
  <1> QED
    BY <1>1, <1>2, <1>4, <1>6, <1>7, NextCases DEF Changes

\* However requests overlap, each is about accounts that exist and are of its own
\* organization, and one that changes another was an owner's or admin's.
THEOREM Knows == Spec => []Knowing
  <1>1. Init => Knowing
    <2> SUFFICES ASSUME Init PROVE Knowing
      OBVIOUS
    <2>1. rows = <<>> /\ IsTable(<<>>)
      BY DEF Init, IsTable
    <2>2. req = [r \in Requests |-> Idle] /\ Idle \in Request
      BY IdleSound DEF Init, Sound
    <2>3. \A r \in Requests : Sound(req[r], rows)
      BY <2>2, IdleSound
    <2> QED
      BY <2>1, <2>2, <2>3 DEF Init, Knowing
  <1> QED
    BY <1>1, KnowingStep, PTL DEF Spec

\* Every variable of the accounts keeps to its type.
THEOREM TypeCorrect == Spec => []TypeOK
  BY Knows, KnowingTyped, PTL

(***************************************************************************)
(* Who changes an account.                                                 *)
(***************************************************************************)

\* However requests overlap, an account is changed by itself or by an owner or
\* admin of its organization, and made either only by an owner.
THEOREM AuthorizedChanges == Spec => ChangesAuthorized
  <1> DEFINE May(u) ==
                /\ u \in DOMAIN rows' /\ rows'[u].org = rows[u].org
                /\ rows'[u] # rows[u] =>
                      \E r \in Requests :
                          /\ req'[r] # req[r] /\ MayChange(r, u)
                          /\ rows'[u].role \in Admins \ {rows[u].role} =>
                                req[r].mine.role = "owner"
  <1>1. ASSUME Knowing, [Next]_vars, NEW u \in DOMAIN rows
        PROVE  May(u)
    <2>1. u \in DOMAIN rows' /\ rows'[u].org = rows[u].org
      BY <1>1, KnowingStep DEF Grows
    <2> SUFFICES ASSUME rows'[u] # rows[u]
                 PROVE  \E r \in Requests :
                            /\ req'[r] # req[r] /\ MayChange(r, u)
                            /\ rows'[u].role \in Admins \ {rows[u].role} =>
                                  req[r].mine.role = "owner"
      BY <2>1
    <2>2. PICK r \in Requests : Waits(r) \/ Inserts(r) \/ Changes(r)
      BY <1>1, NextCases DEF vars
    <2>3. ~Waits(r)
      BY <1>1, WaitsSound DEF Await
    <2>4. ~Inserts(r)
      <3>1. ASSUME Inserts(r) PROVE FALSE
        <4>1. PICK account \in Account :
                 /\ rows' = Append(rows, account)
                 /\ account.org \in (DOMAIN rows) \cup {Len(rows) + 1}
          BY <1>1, <3>1, InsertsAccount DEF Commit
        <4> QED
          BY <1>1, <4>1, Appended DEF Knowing
      <3> QED
        BY <3>1
    <2>5. Sound(req[r], rows) /\ rows[u] \in Account /\ req \in [Requests -> Request]
      BY <1>1, TableIndices DEF Knowing, IsTable
    <2>6. ASSUME NEW table, Commit(r, table), req[r].step # "idle"
          PROVE  req'[r] # req[r] /\ rows' = table
      BY <2>5, <2>6, IdleSound DEF Commit
    <2>7. CASE CommitProfile(r)
      <3>1. req[r].step # "idle"
        BY <2>7 DEF CommitProfile
      <3>2. req'[r] # req[r] /\ rows' = [rows EXCEPT ![req[r].me] = Renamed(r, rows[req[r].me])]
        BY <1>1, <2>6, <2>7, <3>1, ProfileChanges
      <3>3. req[r].me = u
        BY <3>2
      <3>4. rows'[u].role = rows[u].role
        BY <2>5, <3>2, <3>3, RenamedKeeps
      <3> QED
        BY <3>2, <3>3, <3>4 DEF MayChange
    <2>8. CASE CommitUpdate(r)
      <3>1. PICK role \in Roles, active \in BOOLEAN :
               /\ MaySet(r, role, active) /\ req[r].step = "target"
               /\ Commit(r, [rows EXCEPT ![req[r].target]
                                 = Reassigned(r, rows[req[r].target], role, active)])
        BY <1>1, <2>8, UpdateChanges
      <3>2. /\ req'[r] # req[r]
            /\ rows' = [rows EXCEPT ![req[r].target]
                            = Reassigned(r, rows[req[r].target], role, active)]
        BY <2>6, <3>1
      <3>3. req[r].target = u
        BY <3>2
      <3>4. req[r].mine.role \in Admins /\ req[r].mine.org = rows[u].org
        BY <2>5, <3>1, <3>3 DEF Sound
      <3>5. rows'[u].role = Written(req[r].was.role, role, rows[u].role)
        BY <2>5, <3>2, <3>3, ReassignedKeeps
      <3>6. rows'[u].role # rows[u].role => role # req[r].was.role /\ rows'[u].role = role
        BY <3>5 DEF Written
      <3>7. rows'[u].role \in Admins \ {rows[u].role} => req[r].mine.role = "owner"
        <4>1. ASSUME rows'[u].role \in Admins \ {rows[u].role}
              PROVE  req[r].mine.role = "owner"
          <5>1. rows'[u].role \in Admins /\ rows'[u].role # rows[u].role
            BY <4>1
          <5>2. role # req[r].was.role /\ role \in Admins
            BY <3>6, <5>1
          <5>3. role # req[r].was.role => (role \in Admins => req[r].mine.role = "owner")
            BY <3>1 DEF MaySet
          <5> QED
            BY <5>2, <5>3
        <4> QED
          BY <4>1
      <3> QED
        BY <3>2, <3>4, <3>7 DEF MayChange
    <2> QED
      BY <2>2, <2>3, <2>4, <2>7, <2>8 DEF Changes
  <1>2. Knowing /\ [Next]_vars => [\A u \in DOMAIN rows : May(u)]_vars
    BY <1>1
  <1> QED
    BY <1>2, Knows, PTL DEF Spec, ChangesAuthorized

(***************************************************************************)
(* Requests that do not overlap.                                           *)
(***************************************************************************)

MembersOf(table, org) == {u \in DOMAIN table : table[u].org = org}

\* What a request has read is still so.
Fresh(next, table) ==
    /\ next.step \in Acting => next.mine = table[next.me] /\ (cloud => next.mine.active)
    /\ next.step = "target" => next.was = table[next.target]
    /\ next.step \in {"counted", "invite"} =>
          Cardinality(MembersOf(table, next.mine.org)) < MaxUsers
    /\ next.step \in {"register", "invite", "googleNew"} =>
          \A u \in DOMAIN table : table[u].email # next.email
    /\ next.step = "profile" =>
          \A u \in (DOMAIN table) \ {next.me} : table[u].email # next.email
    /\ next.step \in {"google", "googleNew"} =>
          next.email = GoogleEmail /\ \A u \in DOMAIN table : ~table[u].google

Distinct(table) ==
    \A u, v \in DOMAIN table :
        table[u].email = table[v].email \/ (table[u].google /\ table[v].google) => u = v

Limited(table) ==
    \A u \in DOMAIN table : Cardinality(MembersOf(table, table[u].org)) <= MaxUsers

Administered(table) ==
    \A u \in DOMAIN table :
        \E v \in DOMAIN table :
            table[v].org = table[u].org /\ table[v].active /\ table[v].role \in Admins

Others(r) == \A q \in Requests \ {r} : req[q] = Idle

Serial ==
    client = "serial" =>
        /\ \A r \in Requests : req[r] = Idle \/ Others(r)
        /\ \A r \in Requests : Fresh(req[r], rows)
        /\ Distinct(rows) /\ Limited(rows) /\ (cloud => Administered(rows))

LEMMA IdleFresh ==
    ASSUME NEW table
    PROVE  Fresh(Idle, table)
  BY DEF Fresh, Idle, Acting

\* A request takes a step only when it is alone.
LEMMA StepsAlone ==
    ASSUME client = "serial", Serial, NEW r \in Requests, Waits(r) \/ Inserts(r) \/ Changes(r)
    PROVE  Others(r)
  <1>1. CASE CheckRegister(r) \/ FindGoogle(r) \/ Authenticate(r)
    BY <1>1 DEF CheckRegister, FindGoogle, Authenticate, Begins, Others
  <1>2. CASE Fail(r)
    BY <1>2 DEF Fail, Serial
  <1>3. CASE ~(CheckRegister(r) \/ FindGoogle(r) \/ Authenticate(r) \/ Fail(r))
    <2>1. req[r].step # "idle"
      BY <1>3 DEF Waits, Inserts, Changes, CheckGoogle, CheckProfile, ReadTarget, CountUsers,
                  CheckInvite, CommitRegister, CommitGoogle, CommitInvite, CommitProfile, CommitUpdate
    <2> QED
      BY <2>1, IdleSound DEF Serial
  <1> QED
    BY <1>1, <1>2, <1>3

LEMMA MembersFinite ==
    ASSUME NEW table, IsTable(table), NEW org
    PROVE  /\ IsFiniteSet(MembersOf(table, org))
           /\ Cardinality(MembersOf(table, org)) \in Nat
  <1>1. Len(table) \in Nat /\ DOMAIN table = 1 .. Len(table)
    BY TableIndices DEF IsTable
  <1>2. MembersOf(table, org) \subseteq 1 .. Len(table) /\ IsFiniteSet(1 .. Len(table))
    BY <1>1, FS_Interval, 1 \in Int DEF MembersOf
  <1> QED
    BY <1>2, FS_Subset, FS_CardinalityType

\* What a request reads is so when it has read it.
LEMMA WaitsFresh ==
    ASSUME Knowing, client = "serial", Serial, NEW r \in Requests, Waits(r)
    PROVE  Fresh(req'[r], rows)
  <1> USE DEF Acting
  <1>0. /\ req \in [Requests -> Request] /\ Fresh(req[r], rows) /\ req[r] \in Request
        /\ Sound(req[r], rows)
    BY DEF Knowing, Serial
  <1>1. ASSUME NEW next, Await(r, next)
        PROVE  req'[r] = next
    BY <1>0, <1>1 DEF Await
  <1>2. CASE Fail(r)
    BY <1>1, <1>2, IdleFresh DEF Fail
  <1>3. CASE CheckRegister(r)
    <2>1. PICK e \in Emails : Free(e) /\ Await(r, [Idle EXCEPT !.step = "register", !.email = e])
      BY <1>3 DEF CheckRegister
    <2>2. Fresh([Idle EXCEPT !.step = "register", !.email = e], rows)
      BY <2>1 DEF Fresh, Free, Idle
    <2> QED
      BY <1>1, <2>1, <2>2
  <1>4. CASE FindGoogle(r)
    <2>1. Await(r, [Idle EXCEPT !.step = "google", !.email = GoogleEmail])
      BY <1>4 DEF FindGoogle
    <2>2. Fresh([Idle EXCEPT !.step = "google", !.email = GoogleEmail], rows)
      BY <1>4 DEF FindGoogle, Fresh, Idle
    <2> QED
      BY <1>1, <2>1, <2>2
  <1>5. CASE CheckGoogle(r)
    <2>1. Await(r, [req[r] EXCEPT !.step = "googleNew"])
      BY <1>5 DEF CheckGoogle
    <2>2. Fresh([req[r] EXCEPT !.step = "googleNew"], rows)
      BY <1>0, <1>5 DEF CheckGoogle, Fresh, Free, Request
    <2> QED
      BY <1>1, <2>1, <2>2
  <1>6. CASE Authenticate(r)
    <2>1. PICK u \in DOMAIN rows :
             /\ rows[u].active \/ ~cloud
             /\ Await(r, [Idle EXCEPT !.step = "authenticated", !.me = u, !.mine = rows[u]])
      BY <1>6 DEF Authenticate
    <2>2. Fresh([Idle EXCEPT !.step = "authenticated", !.me = u, !.mine = rows[u]], rows)
      BY <2>1 DEF Fresh, Idle
    <2> QED
      BY <1>1, <2>1, <2>2
  <1>7. CASE CheckProfile(r)
    <2>1. PICK e \in Emails :
             /\ \A u \in (DOMAIN rows) \ {req[r].me} : rows[u].email # e
             /\ Await(r, [req[r] EXCEPT !.step = "profile", !.email = e])
      BY <1>7 DEF CheckProfile
    <2>2. Fresh([req[r] EXCEPT !.step = "profile", !.email = e], rows)
      BY <1>0, <1>7, <2>1 DEF CheckProfile, Fresh, Request
    <2> QED
      BY <1>1, <2>1, <2>2
  <1>8. CASE ReadTarget(r)
    <2>1. PICK u \in DOMAIN rows :
             Await(r, [req[r] EXCEPT !.step = "target", !.target = u,
                                     !.was = IF u = req[r].me THEN req[r].mine ELSE rows[u]])
      BY <1>8 DEF ReadTarget
    <2>2. (IF u = req[r].me THEN req[r].mine ELSE rows[u]) = rows[u]
      BY <1>0, <1>8 DEF ReadTarget, Fresh
    <2>3. Fresh([req[r] EXCEPT !.step = "target", !.target = u, !.was = rows[u]], rows)
      BY <1>0, <1>8 DEF ReadTarget, Fresh, Request
    <2> QED
      BY <1>1, <2>1, <2>2, <2>3
  <1>9. CASE CountUsers(r)
    <2>1. Await(r, [req[r] EXCEPT !.step = "counted"])
      BY <1>9 DEF CountUsers
    <2>2. Fresh([req[r] EXCEPT !.step = "counted"], rows)
      BY <1>0, <1>9 DEF CountUsers, BelowLimit, Members, MembersOf, Fresh, Request
    <2> QED
      BY <1>1, <2>1, <2>2
  <1>10. CASE CheckInvite(r)
    <2>1. PICK e \in Emails : Free(e) /\ Await(r, [req[r] EXCEPT !.step = "invite", !.email = e])
      BY <1>10 DEF CheckInvite
    <2>2. Fresh([req[r] EXCEPT !.step = "invite", !.email = e], rows)
      BY <1>0, <1>10, <2>1 DEF CheckInvite, Fresh, Free, Request
    <2> QED
      BY <1>1, <2>1, <2>2
  <1> QED
    BY <1>2, <1>3, <1>4, <1>5, <1>6, <1>7, <1>8, <1>9, <1>10 DEF Waits

\* An account is added whose email and Google account are new, to an organization
\* with room or as the owner of one of its own.
LEMMA InsertKeeps ==
    ASSUME IsTable(rows), Distinct(rows), Limited(rows), NEW account \in Account,
           account.org \in (DOMAIN rows) \cup {Len(rows) + 1},
           \A u \in DOMAIN rows : rows[u].email # account.email,
           account.google => \A u \in DOMAIN rows : ~rows[u].google,
           account.org \in DOMAIN rows => Cardinality(MembersOf(rows, account.org)) < MaxUsers
    PROVE  Distinct(Append(rows, account)) /\ Limited(Append(rows, account))
  <1> DEFINE new == Append(rows, account)
             id == Len(rows) + 1
  <1>1. /\ DOMAIN new = (DOMAIN rows) \cup {id} /\ new[id] = account
        /\ \A u \in DOMAIN rows : new[u] = rows[u]
        /\ id \notin DOMAIN rows
    BY Appended
  <1>2. \A u \in DOMAIN rows : rows[u].org \in DOMAIN rows
    BY DEF IsTable
  <1> HIDE DEF new, id
  <1>3. Distinct(new)
    BY <1>1 DEF Distinct
  <1>4. ASSUME NEW org, org # account.org
        PROVE  MembersOf(new, org) = MembersOf(rows, org)
    BY <1>1, <1>4 DEF MembersOf
  <1>5. MembersOf(new, account.org) = MembersOf(rows, account.org) \cup {id}
        /\ id \notin MembersOf(rows, account.org)
    BY <1>1 DEF MembersOf
  <1>6. Cardinality(MembersOf(new, account.org)) = Cardinality(MembersOf(rows, account.org)) + 1
    BY <1>5, MembersFinite, FS_AddElement
  <1>7. Cardinality(MembersOf(new, account.org)) <= MaxUsers
    <2>1. CASE account.org \in DOMAIN rows
      BY <1>6, <2>1, MembersFinite, AccountsAssumption
    <2>2. CASE account.org \notin DOMAIN rows
      <3>1. MembersOf(rows, account.org) = {}
        BY <1>2, <2>2 DEF MembersOf
      <3> QED
        BY <1>6, <3>1, FS_EmptySet, AccountsAssumption
    <2> QED
      BY <2>1, <2>2
  <1>8. Limited(new)
    <2> SUFFICES ASSUME NEW u \in DOMAIN new
                 PROVE  Cardinality(MembersOf(new, new[u].org)) <= MaxUsers
      BY DEF Limited
    <2>1. CASE new[u].org = account.org
      BY <1>7, <2>1
    <2>2. CASE new[u].org # account.org
      <3>1. u \in DOMAIN rows /\ new[u] = rows[u]
        BY <1>1, <2>2
      <3>2. MembersOf(new, new[u].org) = MembersOf(rows, rows[u].org)
        BY <1>4, <2>2, <3>1
      <3> QED
        BY <3>1, <3>2 DEF Limited
    <2> QED
      BY <2>1, <2>2
  <1> QED
    BY <1>3, <1>8 DEF new

LEMMA InsertAdministered ==
    ASSUME IsTable(rows), Administered(rows), NEW account \in Account,
           \/ account.org \in DOMAIN rows /\ MembersOf(rows, account.org) # {}
           \/ account.org = Len(rows) + 1 /\ account.role = "owner" /\ account.active
    PROVE  Administered(Append(rows, account))
  <1> DEFINE new == Append(rows, account)
             id == Len(rows) + 1
  <1>1. /\ DOMAIN new = (DOMAIN rows) \cup {id} /\ new[id] = account
        /\ \A u \in DOMAIN rows : new[u] = rows[u]
    BY Appended
  <1>3. MembersOf(rows, account.org) # {} \/ (account.role \in Admins /\ account.active)
    BY DEF Admins
  <1> HIDE DEF new, id
  <1>4. ASSUME NEW u \in DOMAIN rows
        PROVE  \E v \in DOMAIN new :
                  new[v].org = rows[u].org /\ new[v].active /\ new[v].role \in Admins
    <2>1. PICK v \in DOMAIN rows :
             rows[v].org = rows[u].org /\ rows[v].active /\ rows[v].role \in Admins
      BY DEF Administered
    <2> QED
      BY <1>1, <2>1
  <1>5. \E v \in DOMAIN new : new[v].org = account.org /\ new[v].active /\ new[v].role \in Admins
    <2>1. CASE MembersOf(rows, account.org) # {}
      <3>1. PICK u \in DOMAIN rows : rows[u].org = account.org
        BY <2>1 DEF MembersOf
      <3> QED
        BY <1>4, <3>1
    <2>2. CASE account.role \in Admins /\ account.active
      BY <1>1, <2>2
    <2> QED
      BY <1>3, <2>1, <2>2
  <1>6. Administered(new)
    BY <1>1, <1>4, <1>5 DEF Administered
  <1> QED
    BY <1>6 DEF new

\* A change of one account leaves the organizations and the Google accounts, and
\* the others as they are.
LEMMA ChangeKeeps ==
    ASSUME IsTable(rows), Limited(rows), Distinct(rows),
           NEW u \in DOMAIN rows, NEW account \in Account,
           account.org = rows[u].org, account.google = rows[u].google,
           \A v \in (DOMAIN rows) \ {u} : rows[v].email # account.email
    PROVE  /\ Limited([rows EXCEPT ![u] = account])
           /\ Distinct([rows EXCEPT ![u] = account])
  <1> DEFINE new == [rows EXCEPT ![u] = account]
  <1>1. /\ DOMAIN new = DOMAIN rows /\ new[u] = account
        /\ \A v \in (DOMAIN rows) \ {u} : new[v] = rows[v]
    OBVIOUS
  <1> HIDE DEF new
  <1>2. \A v \in DOMAIN rows : new[v].org = rows[v].org
    BY <1>1
  <1>3. \A org : MembersOf(new, org) = MembersOf(rows, org)
    BY <1>1, <1>2 DEF MembersOf
  <1>4. Limited(new)
    BY <1>1, <1>2, <1>3 DEF Limited
  <1>5. Distinct(new)
    <2> SUFFICES ASSUME NEW v \in DOMAIN rows, NEW w \in DOMAIN rows, v # w
                 PROVE  new[v].email # new[w].email /\ ~(new[v].google /\ new[w].google)
      BY <1>1 DEF Distinct
    <2>1. CASE v # u /\ w # u
      BY <1>1, <2>1 DEF Distinct
    <2>2. CASE v = u
      BY <1>1, <2>2 DEF Distinct
    <2>3. CASE w = u
      BY <1>1, <2>3 DEF Distinct
    <2> QED
      BY <2>1, <2>2, <2>3
  <1> QED
    BY <1>4, <1>5 DEF new

LEMMA ChangeAdministered ==
    ASSUME IsTable(rows), Administered(rows),
           NEW u \in DOMAIN rows, NEW account \in Account, account.org = rows[u].org,
           \/ account.role = rows[u].role /\ (rows[u].active => account.active)
           \/ \E a \in (DOMAIN rows) \ {u} :
                 rows[a].org = rows[u].org /\ rows[a].active /\ rows[a].role \in Admins
    PROVE  Administered([rows EXCEPT ![u] = account])
  <1> DEFINE new == [rows EXCEPT ![u] = account]
  <1>1. /\ DOMAIN new = DOMAIN rows /\ new[u] = account
        /\ \A v \in (DOMAIN rows) \ {u} : new[v] = rows[v]
    OBVIOUS
  <1> HIDE DEF new
  <1>2. \A v \in DOMAIN rows : new[v].org = rows[v].org
    BY <1>1
  <1>3. ASSUME NEW w \in DOMAIN rows
        PROVE  \E v \in DOMAIN rows :
                  new[v].org = rows[w].org /\ new[v].active /\ new[v].role \in Admins
    <2>1. PICK v \in DOMAIN rows :
             rows[v].org = rows[w].org /\ rows[v].active /\ rows[v].role \in Admins
      BY DEF Administered
    <2>2. CASE v # u
      BY <1>1, <2>1, <2>2
    <2>3. CASE v = u
      BY <1>1, <2>1, <2>3
    <2> QED
      BY <2>2, <2>3
  <1>4. Administered(new)
    BY <1>1, <1>2, <1>3 DEF Administered
  <1> QED
    BY <1>4 DEF new

\* A commit, of a request that is alone, ends it, and leaves nothing to be stale.
LEMMA SerialCommit ==
    ASSUME Knowing, Serial, NEW r \in Requests, NEW table, Commit(r, table),
           client = "serial" =>
              /\ Others(r) /\ Distinct(table) /\ Limited(table)
              /\ cloud => Administered(table)
    PROVE  Serial'
  <1>1. /\ rows' = table /\ req' = [req EXCEPT ![r] = Idle] /\ UNCHANGED <<client, cloud>>
        /\ req \in [Requests -> Request]
    BY DEF Commit, Knowing
  <1>2. ASSUME client = "serial"
        PROVE  \A q \in Requests : req'[q] = Idle
    BY <1>1, <1>2 DEF Others
  <1>3. ASSUME client = "serial", NEW q \in Requests
        PROVE  Fresh(req[q], rows)'
    <2>1. req'[q].step = "idle"
      BY <1>2, <1>3, IdleSound
    <2> QED
      BY <2>1 DEF Fresh, Acting
  <1>4. ASSUME client = "serial"
        PROVE  Distinct(table) /\ Limited(table) /\ (cloud' => Administered(table))
    BY <1>1, <1>4
  <1> QED
    <2>1. Distinct(rows)' = Distinct(table) /\ Limited(rows)' = Limited(table)
          /\ Administered(rows)' = Administered(table)
      BY <1>1 DEF Distinct, Limited, Administered, MembersOf
    <2> QED
      BY <1>1, <1>2, <1>3, <1>4, <2>1 DEF Serial

LEMMA SerialStep ==
    ASSUME Knowing, Serial, [Next]_vars
    PROVE  Serial'
  <1>0. /\ IsTable(rows) /\ req \in [Requests -> Request]
        /\ \A u \in DOMAIN rows : rows[u] \in Account
    BY TableIndices DEF Knowing, IsTable
  <1>1. CASE UNCHANGED vars
    BY <1>1 DEF vars, Serial, Fresh, Others, Distinct, Limited, Administered, MembersOf
  <1>2. ASSUME NEW r \in Requests, Waits(r)
        PROVE  Serial'
    <2>1. PICK next : req' = [req EXCEPT ![r] = next] /\ UNCHANGED <<rows, client, cloud>>
      BY <1>2, WaitsSound DEF Await
    <2> SUFFICES ASSUME client = "serial"
                 PROVE  /\ \A q \in Requests : req'[q] = Idle \/ Others(q)'
                        /\ \A q \in Requests : Fresh(req'[q], rows)
      BY <2>1 DEF Serial, Fresh, Others, Distinct, Limited, Administered, MembersOf
    <2>2. \A q \in Requests \ {r} : req'[q] = Idle /\ req[q] = Idle
      BY <1>0, <1>2, <2>1, StepsAlone DEF Others
    <2>3. Fresh(req'[r], rows)
      BY <1>2, WaitsFresh
    <2>4. \A q \in Requests : Fresh(req'[q], rows)
      BY <2>2, <2>3, IdleFresh
    <2> QED
      BY <2>2, <2>4 DEF Others
  <1>3. ASSUME NEW r \in Requests, Inserts(r)
        PROVE  Serial'
    <2>1. PICK account \in Account :
             /\ Commit(r, Append(rows, account))
             /\ account.email = req[r].email /\ account.active
             /\ \/ /\ CommitInvite(r) /\ ~account.google
                   /\ account.org = req[r].mine.org /\ account.org \in DOMAIN rows
                \/ /\ CommitRegister(r) \/ CommitGoogle(r)
                   /\ account.org = Len(rows) + 1 /\ account.role = "owner"
                   /\ account.google => CommitGoogle(r)
      BY <1>3, InsertsAccount
    <2>2. ASSUME client = "serial"
          PROVE  /\ Others(r)
                 /\ Distinct(Append(rows, account)) /\ Limited(Append(rows, account))
                 /\ cloud => Administered(Append(rows, account))
      <3>1. Others(r) /\ Fresh(req[r], rows) /\ Sound(req[r], rows) /\ Distinct(rows)
            /\ Limited(rows) /\ (cloud => Administered(rows))
        BY <1>3, <2>2, StepsAlone DEF Serial, Knowing
      <3>2. \A u \in DOMAIN rows : rows[u].email # account.email
        BY <2>1, <3>1 DEF CommitInvite, CommitRegister, CommitGoogle, Fresh
      <3>3. account.google => \A u \in DOMAIN rows : ~rows[u].google
        BY <2>1, <3>1 DEF CommitGoogle, Fresh
      <3>4. Len(rows) + 1 \notin DOMAIN rows
        BY <1>0, <2>1, Appended
      <3>5. account.org \in DOMAIN rows => Cardinality(MembersOf(rows, account.org)) < MaxUsers
        BY <2>1, <3>1, <3>4 DEF CommitInvite, Fresh
      <3>6. Distinct(Append(rows, account)) /\ Limited(Append(rows, account))
        BY <1>0, <2>1, <3>1, <3>2, <3>3, <3>5, InsertKeeps
      <3>7. \/ account.org \in DOMAIN rows /\ MembersOf(rows, account.org) # {}
            \/ account.org = Len(rows) + 1 /\ account.role = "owner" /\ account.active
        BY <2>1, <3>1 DEF CommitInvite, Sound, Acting, MembersOf
      <3> QED
        BY <1>0, <3>1, <3>6, <3>7, InsertAdministered
    <2> QED
      BY <2>1, <2>2, SerialCommit
  <1>4. ASSUME NEW r \in Requests, CommitProfile(r)
        PROVE  Serial'
    <2>1. PICK u : u = req[r].me
      OBVIOUS
    <2>2. PICK account : account = Renamed(r, rows[u])
      OBVIOUS
    <2>3. u \in DOMAIN rows /\ account \in Account /\ Commit(r, [rows EXCEPT ![u] = account])
      BY <1>4, <2>1, <2>2, ProfileChanges
    <2>4. /\ account.org = rows[u].org /\ account.google = rows[u].google
          /\ account.role = rows[u].role /\ account.active = rows[u].active
          /\ account.email = Written(req[r].mine.email, req[r].email, rows[u].email)
      BY <1>0, <2>2, <2>3, RenamedKeeps
    <2>5. ASSUME client = "serial"
          PROVE  /\ Others(r)
                 /\ Distinct([rows EXCEPT ![u] = account])
                 /\ Limited([rows EXCEPT ![u] = account])
                 /\ cloud => Administered([rows EXCEPT ![u] = account])
      <3>1. Others(r) /\ Fresh(req[r], rows) /\ Distinct(rows)
            /\ Limited(rows) /\ (cloud => Administered(rows))
        BY <1>4, <2>5, StepsAlone DEF Serial, Changes
      <3>2. req[r].mine = rows[u] /\ \A v \in (DOMAIN rows) \ {u} : rows[v].email # req[r].email
        BY <1>4, <2>1, <3>1 DEF CommitProfile, Fresh, Acting
      <3>3. account.email = req[r].email
        BY <2>4, <3>2 DEF Written
      <3> QED
        BY <1>0, <2>3, <2>4, <3>1, <3>2, <3>3, ChangeKeeps, ChangeAdministered
    <2> QED
      BY <2>3, <2>5, SerialCommit
  <1>5. ASSUME NEW r \in Requests, CommitUpdate(r)
        PROVE  Serial'
    <2>1. PICK u : u = req[r].target
      OBVIOUS
    <2>2. PICK role \in Roles, active \in BOOLEAN, account \in Account :
             /\ u \in DOMAIN rows /\ MaySet(r, role, active)
             /\ account = Reassigned(r, rows[u], role, active)
             /\ Commit(r, [rows EXCEPT ![u] = account])
      BY <1>5, <2>1, UpdateChanges
    <2>3. /\ Reassigned(r, rows[u], role, active).org = rows[u].org
          /\ Reassigned(r, rows[u], role, active).google = rows[u].google
          /\ Reassigned(r, rows[u], role, active).email = rows[u].email
          /\ Reassigned(r, rows[u], role, active).role
                = Written(req[r].was.role, role, rows[u].role)
          /\ Reassigned(r, rows[u], role, active).active
                = Written(req[r].was.active, active, rows[u].active)
      BY <1>0, <2>2, ReassignedKeeps
    <2>4. ASSUME client = "serial"
          PROVE  /\ Others(r)
                 /\ Distinct([rows EXCEPT ![u] = account])
                 /\ Limited([rows EXCEPT ![u] = account])
                 /\ cloud => Administered([rows EXCEPT ![u] = account])
      <3>1. Others(r) /\ Fresh(req[r], rows) /\ Distinct(rows) /\ Sound(req[r], rows)
            /\ Limited(rows) /\ (cloud => Administered(rows)) /\ req[r].step = "target"
        BY <1>5, <2>4, StepsAlone DEF Serial, Changes, Knowing, CommitUpdate
      <3>2. \A v \in (DOMAIN rows) \ {u} : rows[v].email # rows[u].email
        BY <2>2, <3>1 DEF Distinct
      <3>3. Distinct([rows EXCEPT ![u] = account]) /\ Limited([rows EXCEPT ![u] = account])
        BY <1>0, <2>2, <2>3, <3>1, <3>2, ChangeKeeps
      <3>4. CASE u = req[r].me
        <4>1. role = req[r].was.role
          BY <2>1, <2>2, <3>4 DEF MaySet
        <4>2. active = req[r].was.active
          BY <2>1, <2>2, <3>4 DEF MaySet
        <4>3. account.role = rows[u].role
          BY <2>2, <2>3, <4>1 DEF Written
        <4>4. account.active = rows[u].active
          BY <2>2, <2>3, <4>2 DEF Written
        <4> QED
          BY <1>0, <2>2, <2>3, <3>1, <3>3, <4>3, <4>4, ChangeAdministered
      <3>5. CASE u # req[r].me
        <4>1. /\ req[r].me \in DOMAIN rows /\ rows[req[r].me].org = rows[u].org
              /\ rows[req[r].me].role \in Admins /\ (cloud => rows[req[r].me].active)
          BY <2>1, <3>1 DEF Sound, Fresh, Acting
        <4> QED
          BY <1>0, <2>2, <2>3, <3>1, <3>3, <3>5, <4>1, ChangeAdministered
      <3> QED
        BY <3>4, <3>5
    <2> QED
      BY <2>2, <2>4, SerialCommit
  <1> QED
    BY <1>1, <1>2, <1>3, <1>4, <1>5, NextCases DEF Changes

\* When requests do not overlap, one is in progress at most, and what it read is
\* still so when it writes.
THEOREM SerialAlways == Spec => []Serial
  <1>1. Init => Serial
    <2> SUFFICES ASSUME Init PROVE Serial
      OBVIOUS
    <2>1. rows = <<>> /\ \A r \in Requests : req[r] = Idle
      BY DEF Init
    <2> QED
      BY <2>1, IdleFresh DEF Serial, Distinct, Limited, Administered
  <1> QED
    BY <1>1, SerialStep, Knows, PTL DEF Spec

\* When requests do not overlap, a sign-in finds one account at most.
THEOREM AccountsAreDistinct == Spec => []AccountsDistinct
  <1>1. Serial => AccountsDistinct
    BY DEF Serial, Distinct, AccountsDistinct
  <1> QED
    BY <1>1, SerialAlways, PTL

\* When requests do not overlap and carry credentials, every organization keeps
\* an active owner or admin.
THEOREM AdministratorStays == Spec => []AdministratorRemains
  <1>1. Serial => AdministratorRemains
    BY DEF Serial, Administered, AdministratorRemains, Members
  <1> QED
    BY <1>1, SerialAlways, PTL

\* When requests do not overlap, organizations stay within the users of their tier.
THEOREM LimitIsKept == Spec => []LimitKept
  <1>1. Serial => LimitKept
    BY DEF Serial, Limited, LimitKept, Members, MembersOf
  <1> QED
    BY <1>1, SerialAlways, PTL
=============================================================================
