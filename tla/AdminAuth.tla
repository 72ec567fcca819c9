----------------------------- MODULE AdminAuth -----------------------------
(***************************************************************************)
(* The admin account: seeded when the process starts                       *)
(* (app/services/admin_seed.py), its forced password change and the login  *)
(* with its lockout (app/routers/admin_auth.py, login_lockout.py).         *)
(*                                                                         *)
(* The handlers have no await, so each is one step unless a stop cuts it   *)
(* between two commits.  A failed login is a row of the audit log; here    *)
(* failures counts those rows by their age, up to the window.  The         *)
(* session is a signed cookie that holds the username: it outlives         *)
(* restarts and password changes.  The hash of a password stands for the   *)
(* password.                                                               *)
(***************************************************************************)
EXTENDS Startup

CONSTANTS Usernames, Admin,       \* names typed at the login, the seeded one
          Passwords, Seed,        \* passwords the admin may choose, the seeded one
          NoAdmin, NoPassword,
          LOGIN_FAILURE_LIMIT,
          Window                  \* LOGIN_FAILURE_WINDOW_MINUTES, in ticks

ASSUME AdminAuthAssumption ==
    /\ Admin \in Usernames
    /\ Seed \notin Passwords /\ NoPassword \notin Passwords \cup {Seed}
    /\ NoAdmin \notin [password : Passwords \cup {Seed}, onboarded : BOOLEAN]
    /\ LOGIN_FAILURE_LIMIT \in Nat \ {0} /\ Window \in Nat

VARIABLES admin,           \* the row of admin_users, or NoAdmin
          password_file,   \* what initial_admin_password.txt holds, or NoPassword
          failures,        \* login.failure rows by username and age
          signed_in,       \* does the admin's browser hold a session?
          typed,           \* history: the password of the last change begun
          cut              \* history: a stop fell between the row and the file

authVars == <<admin, password_file, failures, signed_in, typed, cut>>
vars == <<startupVars, authVars>>

Ages == 0 .. Window

\* A new database, or one in use since an earlier release.
Init ==
    /\ StartupInit
    /\ IF recorded = {}
       THEN admin = NoAdmin /\ typed = NoPassword
       ELSE \E password \in Passwords :
               admin = [password |-> password, onboarded |-> TRUE] /\ typed = password
    /\ password_file = NoPassword
    /\ failures = [u \in Usernames |-> [age \in Ages |-> 0]]
    /\ signed_in = FALSE
    /\ cut = FALSE

-----------------------------------------------------------------------------
(* seed_default_admin_if_needed.                                           *)

\* create_admin_user commits on its own.
CreateAdmin ==
    /\ admin = NoAdmin
    /\ CommitSeed
    /\ admin' = [password |-> Seed, onboarded |-> FALSE]
    /\ UNCHANGED <<password_file, failures, signed_in, typed, cut>>

WritePasswordFile ==
    /\ process = Seeded
    /\ StartServing
    /\ password_file' = Seed
    /\ UNCHANGED <<admin, failures, signed_in, typed, cut>>

\* count_admin_users finds one.
SkipSeeding ==
    /\ process = Seeding
    /\ admin # NoAdmin
    /\ StartServing
    /\ UNCHANGED authVars

\* A stop, which may fall between create_admin_user and the file.
StopProcess ==
    /\ Stop
    /\ cut' = (cut \/ process = Seeded)
    /\ UNCHANGED <<admin, password_file, failures, signed_in, typed>>

-----------------------------------------------------------------------------
(* login, with its lockout.                                                *)

\* The failures of each age and younger.
FailuresUpTo(counts) ==
    LET sum[age \in Ages] == IF age = 0 THEN counts[age] ELSE sum[age - 1] + counts[age]
    IN  sum

\* count_recent_actions.
RecentFailures(u) == FailuresUpTo(failures[u])[Window]

\* Mutant: one too many.
IsLockedOutLate(u) == RecentFailures(u) > LOGIN_FAILURE_LIMIT

IsLockedOut(u) == RecentFailures(u) >= LOGIN_FAILURE_LIMIT

\* Mutant: what the lockout blocks counts as a failure.
FailedLoginCountsBlocked(u) ==
    /\ process = Serving
    /\ failures[u][0] < LOGIN_FAILURE_LIMIT
    /\ failures' = [failures EXCEPT ![u][0] = @ + 1]
    /\ UNCHANGED <<startupVars, admin, password_file, signed_in, typed, cut>>

\* A wrong password or an unknown name.  While locked out, an attempt writes another
\* record, login.blocked, which nothing counts.
FailedLogin(u) ==
    /\ process = Serving
    /\ ~IsLockedOut(u)
    /\ failures' = [failures EXCEPT ![u][0] = @ + 1]
    /\ UNCHANGED <<startupVars, admin, password_file, signed_in, typed, cut>>

\* The right password; last_login_at is stamped unless the password must be changed.
SuccessfulLogin ==
    /\ process = Serving
    /\ ~IsLockedOut(Admin)
    /\ admin.password \in {password_file, typed}
    /\ signed_in' = TRUE
    /\ UNCHANGED <<startupVars, admin, password_file, failures, typed, cut>>

-----------------------------------------------------------------------------
(* change-password, logout.                                                *)

\* Mutant: the file is deleted first.
PasswordChangedFileFirst(new, commits) ==
    /\ password_file' = NoPassword
    /\ admin' = [password |-> IF commits >= 2 THEN new ELSE admin.password,
                 onboarded |-> admin.onboarded \/ commits >= 3]

\* Mutant: the login is recorded before the password.
PasswordChangedLoginFirst(new, commits) ==
    /\ admin' = [password |-> IF commits >= 2 THEN new ELSE admin.password,
                 onboarded |-> TRUE]
    /\ password_file' = IF commits = 3 THEN NoPassword ELSE password_file

\* The first commits of change_password_submit: update_password, record_login, the file.
PasswordChanged(new, commits) ==
    /\ admin' = [password |-> new, onboarded |-> admin.onboarded \/ commits >= 2]
    /\ password_file' = IF commits = 3 THEN NoPassword ELSE password_file

ChangePassword(new) ==
    /\ process = Serving
    /\ signed_in
    /\ typed' = new
    /\ PasswordChanged(new, 3)
    /\ UNCHANGED <<startupVars, failures, signed_in, cut>>

\* A stop between two of the commits.
StopChanging(new) ==
    /\ process = Serving
    /\ signed_in
    /\ typed' = new
    /\ \E commits \in 1 .. 2 : PasswordChanged(new, commits)
    /\ Stop
    /\ UNCHANGED <<failures, signed_in, cut>>

\* logout, or the eight hours of the cookie are over.
Logout ==
    /\ process = Serving
    /\ signed_in
    /\ signed_in' = FALSE
    /\ UNCHANGED <<startupVars, admin, password_file, failures, typed, cut>>

\* Failures grow older and leave the window.
TimePasses ==
    /\ failures' = [u \in Usernames |-> [age \in Ages |->
                       IF age = 0 THEN 0 ELSE failures[u][age - 1]]]
    /\ UNCHANGED <<startupVars, admin, password_file, signed_in, typed, cut>>

StartStep ==
    \/ MigrationStep /\ UNCHANGED authVars
    \/ CreateAdmin
    \/ WritePasswordFile
    \/ SkipSeeding

Next ==
    \/ StartStep
    \/ StopProcess
    \/ \E u \in Usernames : FailedLogin(u)
    \/ SuccessfulLogin
    \/ \E new \in Passwords \cup {Seed} : ChangePassword(new) \/ StopChanging(new)
    \/ Logout
    \/ TimePasses

Spec == Init /\ [][Next]_vars

\* The restart policy starts the container again, a start that is not stopped goes on,
\* and time passes.
FairSpec == Spec /\ WF_vars(StartStep) /\ WF_vars(TimePasses)

-----------------------------------------------------------------------------
(* Properties.                                                             *)

\* The state keeps its shape: there is an admin before anything is served, and no window
\* holds more wrong guesses at one username than the limit (login_lockout.py).
TypeOK ==
    /\ StartupTypeOK
    /\ admin \in [password : Passwords \cup {Seed}, onboarded : BOOLEAN] \cup {NoAdmin}
    /\ process = Serving => admin # NoAdmin
    /\ password_file \in {Seed, NoPassword}
    /\ failures \in [Usernames -> [Ages -> Nat]]
    /\ \A u \in Usernames : RecentFailures(u) <= LOGIN_FAILURE_LIMIT
    /\ signed_in \in BOOLEAN /\ cut \in BOOLEAN
    /\ typed \in Passwords \cup {Seed, NoPassword}

\* login_lockout.py:8, "the lockout is self-expiring": it ends although attempts go on.
LockoutExpires == \A u \in Usernames : IsLockedOut(u) ~> ~IsLockedOut(u)

\* An admin who gets past the forced change has a password they typed, wherever a stop
\* cuts the change (onboarding is last_login_at, stamped after the password is written).
OnboardedByChange == admin # NoAdmin /\ admin.onboarded => admin.password = typed

\* Whoever runs the application has a way in: the admin's password is in the file or is
\* the one typed last, unless a stop fell between the new admin and the file.
WayIn == process = Serving /\ ~cut => admin.password \in {password_file, typed}
=============================================================================
