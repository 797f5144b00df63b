------------------------------- MODULE SignIn -------------------------------
(***************************************************************************)
(* What a sign-in keeps outside the database (backend/api/auth.py): the    *)
(* failures of one email and their lockout, the tokens that reset a        *)
(* password and the states a Google sign-in returns with. All of it lives  *)
(* in dictionaries of the worker process that made it, which other workers *)
(* do not see and a restart empties. Whether the password given is right   *)
(* is a choice: sign-ins only read it, and a change or a reset writes it   *)
(* without regard to what it was.                                          *)
(*                                                                         *)
(* The code compares times with the clock. Here entries have ages, which   *)
(* Tick moves, so that time never runs out.                                *)
(***************************************************************************)
EXTENDS Naturals, FiniteSets

CONSTANTS
    Workers,
    Requests,       \* bound: requests in flight at once
    ResetTokens,    \* bound: the reset tokens there may be at once
    States,         \* bound: the OAuth states there may be at once
    MaxFailed,      \* _MAX_FAILED_ATTEMPTS
    Lockout,        \* _LOCKOUT_SECONDS
    Life,           \* of a reset token or a state
    None

Tokens == ResetTokens \cup States

ASSUME SignInAssumption ==
    /\ IsFiniteSet(Requests) /\ Requests # {}
    /\ ResetTokens \cap States = {}
    /\ {MaxFailed, Lockout, Life} \subseteq Nat \ {0}
    /\ None \notin Tokens \cup Workers

VARIABLES
    attempts,   \* _login_attempts of each worker: the failures and the first's age
    issued,     \* _reset_tokens and _oauth_states of each worker, with their ages
    req,        \* the requests in flight
    failures,   \* history: each worker's failures since a success, up to each age
    used,       \* history: how many requests each token has let through
    shared      \* history: the tokens two requests had found before one took it

vars == <<attempts, issued, req, failures, used, shared>>

\* Bound: an age past the life is one past it. Absent is no age.
Expired == Life + 1
Absent == Life + 2

NoEntry == [count |-> 0, age |-> 0]

\* The ages of the failures in a time as long as a lockout.
Recent == 0 .. Lockout - 1

Unfailed == [age \in Recent |-> 0]

\* Where a request is, in which worker, and the token it has found.
Request == [step : {"idle", "login", "reset"}, at : Workers \cup {None},
            token : ResetTokens \cup {None}]

Idle == [step |-> "idle", at |-> None, token |-> None]

TypeOK ==
    /\ attempts \in [Workers -> [count : Nat, age : 0 .. Lockout + 1]]
    /\ issued \in [Workers -> [Tokens -> 0 .. Absent]]
    /\ req \in [Requests -> Request]
    /\ failures \in [Workers -> [Recent -> Nat]]
    /\ used \in [Tokens -> Nat]
    /\ shared \subseteq ResetTokens

Init ==
    /\ attempts = [w \in Workers |-> NoEntry]
    /\ issued = [w \in Workers |-> [t \in Tokens |-> Absent]]
    /\ req = [r \in Requests |-> Idle]
    /\ failures = [w \in Workers |-> Unfailed]
    /\ used = [t \in Tokens |-> 0]
    /\ shared = {}

Await(r, next) == req' = [req EXCEPT ![r] = next]

\* A refusal, an error, a lost connection.
Fail(r) ==
    /\ req[r] # Idle
    /\ Await(r, Idle)
    /\ UNCHANGED <<attempts, issued, failures, used, shared>>

(***************************************************************************)
(* login. The lockout is looked at before the query for the user, failures *)
(* are counted after it.                                                   *)
(***************************************************************************)
Locked(entry) == entry.count >= MaxFailed /\ entry.age < Lockout

\* Variant: a lockout that has passed still counts its failures.
CheckedOnly(entry) == entry

\* _check_lockout, of an email that is not locked: a lockout that has passed is
\* forgotten.
Checked(entry) == IF entry.count >= MaxFailed THEN NoEntry ELSE entry

CheckLockout(r, w) ==
    /\ req[r] = Idle
    /\ ~Locked(attempts[w])
    /\ attempts' = [attempts EXCEPT ![w] = Checked(@)]
    /\ Await(r, [Idle EXCEPT !.step = "login", !.at = w])
    /\ UNCHANGED <<issued, failures, used, shared>>

\* Variant: every failure starts the window anew.
FailedFromNow(entry) ==
    [count |-> IF entry.age > Lockout THEN 1 ELSE entry.count + 1, age |-> 0]

\* _record_failed_login
Failed(entry) ==
    IF entry.count = 0 \/ entry.age > Lockout THEN [count |-> 1, age |-> 0]
    ELSE [entry EXCEPT !.count = @ + 1]

\* The audit row of the failure is rolled back with the request.
RejectLogin(r) ==
    LET w == req[r].at IN
    /\ req[r].step = "login"
    /\ attempts' = [attempts EXCEPT ![w] = Failed(@)]
    /\ failures' = [failures EXCEPT ![w] = [age \in Recent |-> @[age] + 1]]
    /\ Await(r, Idle)
    /\ UNCHANGED <<issued, used, shared>>

\* _clear_failed_logins
AcceptLogin(r) ==
    LET w == req[r].at IN
    /\ req[r].step = "login"
    /\ attempts' = [attempts EXCEPT ![w] = NoEntry]
    /\ failures' = [failures EXCEPT ![w] = Unfailed]
    /\ Await(r, Idle)
    /\ UNCHANGED <<issued, used, shared>>

(***************************************************************************)
(* Tokens                                                                  *)
(***************************************************************************)
\* The expired ones are removed before one is looked up or added.
Cleaned(tokens) == [t \in Tokens |-> IF tokens[t] = Expired THEN Absent ELSE tokens[t]]

\* Tokens are drawn at random: none is drawn twice while anything knows of it.
Fresh(t) ==
    /\ used[t] = 0
    /\ \A w \in Workers : issued[w][t] = Absent
    /\ \A r \in Requests : req[r].token # t

\* forgot_password, google_authorize
Issue(w) ==
    /\ \E t \in Tokens :
          /\ Fresh(t)
          /\ issued' = [issued EXCEPT ![w] = [Cleaned(@) EXCEPT ![t] = 0]]
    /\ UNCHANGED <<attempts, req, failures, used, shared>>

\* reset_password finds the token, then looks for its user.
FindToken(r, w) ==
    /\ req[r] = Idle
    /\ \E t \in ResetTokens :
          /\ Cleaned(issued[w])[t] # Absent
          /\ issued' = [issued EXCEPT ![w] = Cleaned(@)]
          /\ shared' = IF \E q \in Requests : req[q].token = t THEN shared \cup {t} ELSE shared
          /\ Await(r, [step |-> "reset", at |-> w, token |-> t])
    /\ UNCHANGED <<attempts, failures, used>>

\* Variant: what was used is left to expire.
WithoutExpired(tokens, t) == Cleaned(tokens)

Without(tokens, t) == [Cleaned(tokens) EXCEPT ![t] = Absent]

\* The password is set and the token removed, whether or not the commit succeeds.
TakeToken(r) ==
    LET w == req[r].at
        t == req[r].token
    IN  /\ req[r].step = "reset"
        /\ issued' = [issued EXCEPT ![w][t] = Absent]
        /\ used' = [used EXCEPT ![t] = @ + 1]
        /\ Await(r, Idle)
        /\ UNCHANGED <<attempts, failures, shared>>

\* google_callback looks the state up and removes it before its first await.
TakeState(w) ==
    /\ \E t \in States :
          /\ Cleaned(issued[w])[t] # Absent
          /\ issued' = [issued EXCEPT ![w] = Without(@, t)]
          /\ used' = [used EXCEPT ![t] = @ + 1]
    /\ UNCHANGED <<attempts, req, failures, shared>>

(***************************************************************************)
(* Workers and time                                                        *)
(***************************************************************************)
Restart(w) ==
    /\ attempts' = [attempts EXCEPT ![w] = NoEntry]
    /\ issued' = [issued EXCEPT ![w] = [t \in Tokens |-> Absent]]
    /\ req' = [r \in Requests |-> IF req[r].at = w THEN Idle ELSE req[r]]
    /\ failures' = [failures EXCEPT ![w] = Unfailed]
    /\ UNCHANGED <<used, shared>>

Older(entry) ==
    IF entry.count > 0 /\ entry.age <= Lockout THEN [entry EXCEPT !.age = @ + 1] ELSE entry

Tick ==
    /\ attempts' = [w \in Workers |-> Older(attempts[w])]
    /\ issued' = [w \in Workers |-> [t \in Tokens |->
                     IF issued[w][t] < Expired THEN issued[w][t] + 1 ELSE issued[w][t]]]
    /\ failures' = [w \in Workers |-> [age \in Recent |->
                       IF age = 0 THEN 0 ELSE failures[w][age - 1]]]
    /\ UNCHANGED <<req, used, shared>>

(***************************************************************************)
(* Specification                                                           *)
(***************************************************************************)
Next ==
    \/ \E r \in Requests :
          \/ \E w \in Workers : CheckLockout(r, w) \/ FindToken(r, w)
          \/ RejectLogin(r) \/ AcceptLogin(r) \/ TakeToken(r) \/ Fail(r)
    \/ \E w \in Workers : Issue(w) \/ TakeState(w) \/ Restart(w)
    \/ Tick

Spec == Init /\ [][Next]_vars

(***************************************************************************)
(* Properties                                                              *)
(***************************************************************************)

\* Those no older than the oldest that counts.
Failures(w) == failures[w][Lockout - 1]

\* A window counts MaxFailed failures, and then those of requests that had passed
\* its check before. A time as long as a lockout may see all of one window's and,
\* its first being as old as the lockout, all but one of the window before it.
Most == 2 * (MaxFailed + Cardinality(Requests) - 1) - 1

\* However sign-ins overlap and windows meet, a worker judges no more failures in
\* any time as long as a lockout, unless one succeeds among them or it restarts.
FailuresBounded == \A w \in Workers : Failures(w) <= Most

\* A worker locks the email out only after as many failures in that time as it
\* takes: neither older ones nor refused requests make or prolong a lockout.
LockedAfterFailures ==
    \A w \in Workers : Locked(attempts[w]) => Failures(w) >= MaxFailed

\* A state lets one callback through and a reset token one reset, before they
\* expire and however often they arrive, except that resets which had all found
\* the token before the first took it all go through.
TokensTakenOnce ==
    \A t \in Tokens :
        /\ used[t] <= IF t \in shared THEN Cardinality(Requests) ELSE 1
        /\ used[t] > 0 => \A w \in Workers : issued[w][t] = Absent
=============================================================================
