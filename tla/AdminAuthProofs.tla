-------------------------- MODULE AdminAuthProofs --------------------------
(***************************************************************************)
(* Proofs about Startup and AdminAuth: what schema_migrations records has  *)
(* been run, and what is served is migrated, for any migrations and any    *)
(* number of stops; AdminAuth implements Startup, so that both hold with   *)
(* the admin's handlers; no window holds more failures than the limit; the *)
(* admin keeps a way in; and nobody gets past the forced change with the   *)
(* seeded password.                                                        *)
(***************************************************************************)
EXTENDS AdminAuth, WellFoundedInduction, NaturalsInduction, TLAPS

-----------------------------------------------------------------------------
(* Startup, whatever the admin does.                                       *)

Scripts == [pc : {"script"}, migration : Migrations, statement : Nat \ {0}]

LEMMA ProcessStates ==
    /\ Down.pc = "down" /\ BetweenScripts.pc = "between" /\ Seeding.pc = "seeding"
    /\ Seeded.pc = "seeded" /\ Serving.pc = "serving"
    /\ \A r \in Scripts : r.pc = "script" /\ r.migration \in Migrations /\ r.statement \in Nat \ {0}
BY DEF Down, BetweenScripts, Seeding, Seeded, Serving, Scripts

\* The parts of StartupTypeOK with the bounds of a script apart.
LEMMA ScriptBounds ==
    ASSUME StartupTypeOK, process.pc = "script"
    PROVE  /\ process.migration \in Migrations
           /\ process.statement \in Nat \ {0}
           /\ process.statement <= Statements[process.migration]
BY DEF StartupTypeOK, Down, BetweenScripts, Seeding, Seeded, Serving

LEMMA StartupTypeInit == StartupInit => StartupTypeOK
<1>. SUFFICES ASSUME StartupInit PROVE StartupTypeOK
  OBVIOUS
<1>. USE StartupAssumption
<1>1. PICK earlier \in 0 .. release :
         /\ recorded = 1 .. earlier
         /\ done = [m \in Migrations |-> IF m <= earlier THEN Statements[m] ELSE 0]
  BY DEF StartupInit
<1>2. recorded \subseteq Migrations /\ pending \subseteq Migrations
  BY <1>1 DEF StartupInit, Migrations
<1>3. done \in [Migrations -> Nat] /\ \A m \in Migrations : done[m] <= Statements[m]
  BY <1>1
<1>. QED  BY <1>2, <1>3, ProcessStates DEF StartupInit, StartupTypeOK

LEMMA StartupTypeNext == StartupTypeOK /\ [StartupNext]_startupVars => StartupTypeOK'
<1>. SUFFICES ASSUME StartupTypeOK, [StartupNext]_startupVars PROVE StartupTypeOK'
  OBVIOUS
<1>. USE StartupAssumption, ProcessStates
<1>1. CASE StartProcess
  BY <1>1 DEF StartProcess, StartupTypeOK
<1>2. ASSUME NEW m \in Migrations, BeginScript(m) PROVE StartupTypeOK'
  <2>1. InScript(m, 1) \in Scripts /\ InScript(m, 1).migration = m /\ InScript(m, 1).statement = 1
    BY DEF InScript, Scripts
  <2>2. 1 <= Statements[m]
    OBVIOUS
  <2>. QED  BY <1>2, <2>1, <2>2 DEF BeginScript, StartupTypeOK, Scripts
<1>3. ASSUME NEW m \in Migrations, RunStatement(m) PROVE StartupTypeOK'
  <2>1. process.statement \in Nat \ {0} /\ process.statement <= Statements[m]
    BY <1>3, ScriptBounds DEF RunStatement
  <2>2. /\ done' \in [Migrations -> Nat]
        /\ \A n \in Migrations : done'[n] <= Statements[n]
    BY <1>3, <2>1 DEF RunStatement, StartupTypeOK
  <2>3. CASE process.statement = Statements[m]
    BY <1>3, <2>2, <2>3 DEF RunStatement, StartupTypeOK
  <2>4. CASE process.statement # Statements[m]
    <3>1. process.statement + 1 \in Nat \ {0} /\ process.statement + 1 <= Statements[m]
      BY <2>1, <2>4
    <3>2. process' = InScript(m, process.statement + 1)
      BY <1>3, <2>4 DEF RunStatement
    <3>3. process' \in Scripts /\ process'.migration = m
          /\ process'.statement = process.statement + 1
      BY <3>1, <3>2 DEF InScript, Scripts
    <3>4. pending' \subseteq Migrations
      BY <1>3, <2>4 DEF RunStatement, StartupTypeOK
    <3>. QED  BY <1>3, <2>2, <3>1, <3>3, <3>4 DEF RunStatement, StartupTypeOK, Scripts
  <2>. QED  BY <2>3, <2>4
<1>4. ASSUME NEW m \in Migrations, StatementFails(m) PROVE StartupTypeOK'
  BY <1>4 DEF StatementFails, StartupTypeOK
<1>5. CASE MigrationsEnd
  BY <1>5 DEF MigrationsEnd, StartupTypeOK
<1>6. CASE CommitSeed
  BY <1>6 DEF CommitSeed, StartupTypeOK
<1>7. CASE StartServing
  BY <1>7 DEF StartServing, StartupTypeOK
<1>8. CASE Stop
  BY <1>8 DEF Stop, StartupTypeOK, Migrations
<1>9. CASE UNCHANGED startupVars
  BY <1>9 DEF startupVars, StartupTypeOK
<1>. QED
  BY <1>1, <1>2, <1>3, <1>4, <1>5, <1>6, <1>7, <1>8, <1>9 DEF StartupNext, MigrationStep

\* The shape of the state, for any migrations.
THEOREM StartupTypeCorrect == StartupSpec => []StartupTypeOK
BY StartupTypeInit, StartupTypeNext, PTL DEF StartupSpec

-----------------------------------------------------------------------------

\* RecordedMeansDone for the open record too, and that the schema is complete from the
\* end of the migrations on.
StartupInv ==
    /\ \A m \in recorded \cup pending : FullyDone(m)
    /\ process \in {Seeding, Seeded, Serving} => 1 .. release \subseteq recorded

LEMMA StartupInvInit == StartupInit => StartupInv
<1>. SUFFICES ASSUME StartupInit PROVE StartupInv
  OBVIOUS
<1>1. PICK earlier \in 0 .. release :
         /\ recorded = 1 .. earlier
         /\ done = [m \in Migrations |-> IF m <= earlier THEN Statements[m] ELSE 0]
  BY DEF StartupInit
<1>2. \A m \in recorded : FullyDone(m)
  BY <1>1, StartupAssumption DEF FullyDone, Migrations, StartupInit
<1>. QED  BY <1>2, ProcessStates DEF StartupInit, StartupInv

LEMMA StartupInvNext ==
    StartupTypeOK /\ StartupInv /\ [StartupNext]_startupVars => StartupInv'
<1>. SUFFICES ASSUME StartupTypeOK, StartupInv, [StartupNext]_startupVars PROVE StartupInv'
  OBVIOUS
<1>. USE StartupAssumption, ProcessStates DEF StartupInv
<1>1. CASE StartProcess
  BY <1>1 DEF StartProcess, FullyDone
<1>2. ASSUME NEW m \in Migrations, BeginScript(m) PROVE StartupInv'
  BY <1>2 DEF BeginScript, InScript, FullyDone
<1>3. ASSUME NEW m \in Migrations, RunStatement(m) PROVE StartupInv'
  <2>1. /\ process.pc = "script" /\ process.migration = m
        /\ process.statement \in Nat /\ process.statement <= Statements[m]
        /\ done \in [Migrations -> Nat] /\ Statements[m] \in Nat
    BY <1>3, ScriptBounds DEF RunStatement, StartupTypeOK
  <2>2. ~FullyDone(m)
    BY <1>3, <2>1 DEF RunStatement, FullyDone
  <2>3. \A n \in Migrations \ {m} : done'[n] = done[n]
    BY <1>3, <2>1 DEF RunStatement
  <2>4. /\ recorded' = recorded
        /\ pending' # pending => pending' = {m} /\ done'[m] = Statements[m]
        /\ process'.pc \in {"script", "between"}
    BY <1>3, <2>1 DEF RunStatement, InScript
  <2>5. recorded \subseteq Migrations /\ pending \subseteq Migrations
    BY DEF StartupTypeOK
  <2>6. \A n \in recorded' \cup pending' : FullyDone(n)'
    BY <2>2, <2>3, <2>4, <2>5 DEF FullyDone
  <2>. QED  BY <2>4, <2>6
<1>4. ASSUME NEW m \in Migrations, StatementFails(m) PROVE StartupInv'
  BY <1>4 DEF StatementFails, FullyDone
<1>5. CASE MigrationsEnd
  BY <1>5 DEF MigrationsEnd, Unapplied, FullyDone
<1>6. CASE CommitSeed
  BY <1>6 DEF CommitSeed, FullyDone
<1>7. CASE StartServing
  BY <1>7 DEF StartServing, FullyDone
<1>8. CASE Stop
  BY <1>8 DEF Stop, FullyDone
<1>9. CASE UNCHANGED startupVars
  BY <1>9 DEF startupVars, FullyDone
<1>. QED
  BY <1>1, <1>2, <1>3, <1>4, <1>5, <1>6, <1>7, <1>8, <1>9 DEF StartupNext, MigrationStep

\* A record is never ahead of the script it is about, wherever a stop falls.
THEOREM RecordsTrue == StartupSpec => []RecordedMeansDone
<1>1. StartupSpec => []StartupInv
  BY StartupTypeCorrect, StartupInvInit, StartupInvNext, PTL DEF StartupSpec
<1>2. StartupInv => RecordedMeansDone
  BY DEF StartupInv, RecordedMeansDone
<1>. QED  BY <1>1, <1>2, PTL

\* Nothing is served before the schema of the release is complete.
THEOREM ServedIsMigrated == StartupSpec => []ServesMigrated
<1>1. StartupSpec => []StartupInv
  BY StartupTypeCorrect, StartupInvInit, StartupInvNext, PTL DEF StartupSpec
<1>2. StartupInv => ServesMigrated
  BY DEF StartupInv, ServesMigrated
<1>. QED  BY <1>1, <1>2, PTL

-----------------------------------------------------------------------------
(* AdminAuth implements Startup.                                           *)

LEMMA StepsOfStartup == [Next]_vars => [StartupNext]_startupVars
<1>. SUFFICES ASSUME [Next]_vars PROVE [StartupNext]_startupVars
  OBVIOUS
<1>1. CASE StartStep
  BY <1>1 DEF StartStep, CreateAdmin, WritePasswordFile, SkipSeeding, StartupNext
<1>2. CASE StopProcess
  BY <1>2 DEF StopProcess, StartupNext
<1>3. ASSUME NEW u \in Usernames, FailedLogin(u) PROVE UNCHANGED startupVars
  BY <1>3 DEF FailedLogin
<1>4. CASE SuccessfulLogin
  BY <1>4 DEF SuccessfulLogin
<1>5. ASSUME NEW new \in Passwords \cup {Seed}, ChangePassword(new) PROVE UNCHANGED startupVars
  BY <1>5 DEF ChangePassword
<1>6. ASSUME NEW new \in Passwords \cup {Seed}, StopChanging(new) PROVE StartupNext
  BY <1>6 DEF StopChanging, StartupNext
<1>7. CASE Logout
  BY <1>7 DEF Logout
<1>8. CASE TimePasses
  BY <1>8 DEF TimePasses
<1>9. CASE UNCHANGED vars
  BY <1>9 DEF vars
<1>. QED
  BY <1>1, <1>2, <1>3, <1>4, <1>5, <1>6, <1>7, <1>8, <1>9 DEF Next

\* The admin's handlers and the seeding do to the start-up only what Startup allows.
THEOREM ImplementsStartup == Spec => StartupSpec
BY StepsOfStartup, PTL DEF Spec, StartupSpec, Init

\* Hence what is on record has been run, and what is served is migrated.
THEOREM RecordsTrueWithAdmin == Spec => [](RecordedMeansDone /\ ServesMigrated)
BY ImplementsStartup, RecordsTrue, ServedIsMigrated, PTL

-----------------------------------------------------------------------------

AdminType ==
    /\ admin \in [password : Passwords \cup {Seed}, onboarded : BOOLEAN] \cup {NoAdmin}
    /\ password_file \in {Seed, NoPassword}
    /\ typed \in Passwords \cup {Seed, NoPassword}

\* WayIn while nothing is served, too.  Between the new admin and the file the password
\* is the seeded one, which the file is about to hold.
KnownPassword ==
    /\ AdminType
    /\ process \in {Seeded, Serving} => admin # NoAdmin
    /\ process = Seeded => admin.password = Seed
    /\ process # Seeded /\ ~cut /\ admin # NoAdmin => admin.password \in {password_file, typed}

LEMMA KnownPasswordInit == Init => KnownPassword
<1>. SUFFICES ASSUME Init PROVE KnownPassword
  OBVIOUS
<1>1. process = Down /\ Down \notin {Seeded, Serving}
  BY ProcessStates DEF Init, StartupInit
<1>2. AdminType /\ (admin # NoAdmin => admin.password = typed)
  <2>1. CASE recorded = {}
    BY <2>1 DEF Init, AdminType
  <2>2. CASE recorded # {}
    <3>1. PICK password \in Passwords :
             admin = [password |-> password, onboarded |-> TRUE] /\ typed = password
      BY <2>2 DEF Init
    <3>2. admin \in [password : Passwords \cup {Seed}, onboarded : BOOLEAN]
      BY <3>1
    <3>. QED  BY <3>1, <3>2 DEF Init, AdminType
  <2>. QED  BY <2>1, <2>2
<1>. QED  BY <1>1, <1>2 DEF KnownPassword

\* What a password change leaves, after any of its commits.
LEMMA Changed ==
    ASSUME AdminType, admin # NoAdmin,
           NEW new \in Passwords \cup {Seed}, NEW commits \in 1 .. 3,
           PasswordChanged(new, commits), typed' = new
    PROVE  AdminType' /\ admin'.password = new /\ admin' # NoAdmin
<1>1. admin' \in [password : Passwords \cup {Seed}, onboarded : BOOLEAN]
  <2>1. (admin.onboarded \/ commits >= 2) \in BOOLEAN
    OBVIOUS
  <2>. QED  BY DEF AdminType, PasswordChanged
<1>2. admin'.password = new
  BY DEF PasswordChanged
<1>. QED  BY <1>1, <1>2, AdminAuthAssumption DEF AdminType, PasswordChanged

LEMMA KnownPasswordNext == KnownPassword /\ [Next]_vars => KnownPassword'
<1>. SUFFICES ASSUME KnownPassword, [Next]_vars PROVE KnownPassword'
  OBVIOUS
<1>. USE ProcessStates, AdminAuthAssumption
<1>1. CASE MigrationStep /\ UNCHANGED authVars
  <2>1. process' \notin {Seeded, Serving} /\ process # Seeded
    BY <1>1 DEF MigrationStep, StartProcess, BeginScript, RunStatement, StatementFails,
                MigrationsEnd, InScript
  <2>2. UNCHANGED <<admin, password_file, typed, cut>>
    BY <1>1 DEF authVars
  <2>. QED  BY <2>1, <2>2 DEF KnownPassword, AdminType
<1>2. CASE CreateAdmin
  <2>1. admin' = [password |-> Seed, onboarded |-> FALSE] /\ process' = Seeded
    BY <1>2 DEF CreateAdmin, CommitSeed
  <2>2. admin' \in [password : Passwords \cup {Seed}, onboarded : BOOLEAN]
    BY <2>1
  <2>3. admin' # NoAdmin /\ admin'.password = Seed
    BY <2>1, <2>2
  <2>4. AdminType'
    BY <1>2, <2>2 DEF CreateAdmin, KnownPassword, AdminType
  <2>. QED  BY <2>1, <2>3, <2>4 DEF KnownPassword
<1>3. CASE WritePasswordFile
  BY <1>3 DEF WritePasswordFile, StartServing, KnownPassword, AdminType
<1>4. CASE SkipSeeding
  BY <1>4 DEF SkipSeeding, StartServing, authVars, KnownPassword, AdminType
<1>5. CASE StopProcess
  BY <1>5 DEF StopProcess, Stop, KnownPassword, AdminType
<1>6. ASSUME NEW u \in Usernames, FailedLogin(u) PROVE KnownPassword'
  BY <1>6 DEF FailedLogin, startupVars, KnownPassword, AdminType
<1>7. ASSUME NEW new \in Passwords \cup {Seed}, ChangePassword(new) PROVE KnownPassword'
  <2>1. AdminType' /\ admin'.password = new /\ admin' # NoAdmin
    BY <1>7, Changed DEF ChangePassword, KnownPassword
  <2>2. process' = process /\ process = Serving /\ typed' = new
    BY <1>7 DEF ChangePassword, startupVars
  <2>. QED  BY <2>1, <2>2 DEF KnownPassword
<1>8. ASSUME NEW new \in Passwords \cup {Seed}, StopChanging(new) PROVE KnownPassword'
  <2>1. PICK commits \in 1 .. 2 : PasswordChanged(new, commits)
    BY <1>8 DEF StopChanging
  <2>2. AdminType' /\ admin'.password = new /\ admin' # NoAdmin
    BY <1>8, <2>1, Changed DEF StopChanging, KnownPassword
  <2>3. process' = Down /\ typed' = new
    BY <1>8 DEF StopChanging, Stop
  <2>. QED  BY <2>2, <2>3 DEF KnownPassword
<1>9. CASE SuccessfulLogin \/ Logout \/ TimePasses \/ UNCHANGED vars
  <2>1. UNCHANGED <<process, admin, password_file, typed, cut>>
    BY <1>9 DEF SuccessfulLogin, Logout, TimePasses, vars, startupVars, authVars
  <2>. QED  BY <2>1 DEF KnownPassword, AdminType
<1>. QED
  BY <1>1, <1>2, <1>3, <1>4, <1>5, <1>6, <1>7, <1>8, <1>9 DEF Next, StartStep

\* The admin can log in with what is in the file or with what they typed last, through
\* any number of stops, except one between the new admin and the file.
THEOREM AdminKeepsWayIn == Spec => []WayIn
<1>1. Spec => []KnownPassword
  BY KnownPasswordInit, KnownPasswordNext, PTL DEF Spec
<1>2. KnownPassword => WayIn
  BY ProcessStates DEF KnownPassword, WayIn
<1>. QED  BY <1>1, <1>2, PTL

-----------------------------------------------------------------------------

\* Who has got past the forced change typed the password, wherever a stop cut it.
THEOREM OnboardedTyped == Spec => []OnboardedByChange
<1>1. Init => OnboardedByChange
  BY DEF Init, OnboardedByChange
<1>2. OnboardedByChange /\ [Next]_vars => OnboardedByChange'
  <2>. SUFFICES ASSUME OnboardedByChange, [Next]_vars PROVE OnboardedByChange'
    OBVIOUS
  <2>1. CASE CreateAdmin
    BY <2>1 DEF CreateAdmin, OnboardedByChange
  <2>2. ASSUME NEW new \in Passwords \cup {Seed}, ChangePassword(new) \/ StopChanging(new)
        PROVE  OnboardedByChange'
    BY <2>2 DEF ChangePassword, StopChanging, PasswordChanged, OnboardedByChange
  <2>3. CASE UNCHANGED <<admin, typed>>
    BY <2>3 DEF OnboardedByChange
  <2>. QED
    BY <2>1, <2>2, <2>3
       DEF Next, StartStep, WritePasswordFile, SkipSeeding, StopProcess, FailedLogin,
           SuccessfulLogin, Logout, TimePasses, vars, authVars
<1>. QED  BY <1>1, <1>2, PTL DEF Spec

-----------------------------------------------------------------------------
(* The failures in a window.  A row of counts is summed age by age;        *)
(* induction over the ages is by the smallest age that would not do.       *)

Counts == [Ages -> Nat]

IsSum(g, counts, m) ==
    /\ g \in [0 .. m -> Nat]
    /\ g[0] = counts[0]
    /\ \A n \in 1 .. m : g[n] = g[n - 1] + counts[n]

\* Of numbers that are not all good, the smallest bad one has good ones before it only.
LEMMA SmallestBad ==
    ASSUME NEW Bad \in SUBSET Nat, Bad # {}
    PROVE  \E m \in Bad : \A n \in Bad : m <= n
<1>1. PICK m \in Bad : \A n \in Bad : ~(<<n, m>> \in OpToRel(<, Nat))
  BY WFMin, NatLessThanWellFounded
<1>2. OpToRel(<, Nat) = {pair \in Nat \X Nat : pair[1] < pair[2]}
  BY DEF OpToRel
<1>3. ASSUME NEW n \in Bad, n < m PROVE FALSE
  BY <1>1, <1>2, <1>3
<1>4. \A n \in Bad : m <= n
  BY <1>3
<1>. QED  BY <1>4

LEMMA SumExists ==
    ASSUME NEW counts \in Counts, NEW m \in Ages
    PROVE  \E g : IsSum(g, counts, m)
<1>. USE AdminAuthAssumption DEF Ages
<1>. DEFINE Bad == {k \in Ages : ~\E g : IsSum(g, counts, k)}
<1>1. ASSUME NEW k \in Bad, \A n \in Bad : k <= n PROVE FALSE
  <2>1. k \in Ages /\ k \in Nat
    OBVIOUS
  <2>2. k # 0
    <3>1. IsSum([n \in 0 .. 0 |-> counts[0]], counts, 0)
      BY DEF IsSum, Counts
    <3>. QED  BY <3>1
  <2>3. k - 1 \in Ages /\ k - 1 \notin Bad
    BY <1>1, <2>1, <2>2
  <2>4. PICK g : IsSum(g, counts, k - 1)
    BY <2>3
  <2>5. g \in [0 .. k - 1 -> Nat] /\ g[k - 1] + counts[k] \in Nat
    BY <2>1, <2>2, <2>4 DEF IsSum, Counts
  <2>. DEFINE longer == [n \in 0 .. k |-> IF n = k THEN g[k - 1] + counts[k] ELSE g[n]]
  <2>6. longer \in [0 .. k -> Nat]
    BY <2>1, <2>5
  <2>7. longer[0] = counts[0]
    BY <2>1, <2>2, <2>4 DEF IsSum
  <2>8. ASSUME NEW n \in 1 .. k PROVE longer[n] = longer[n - 1] + counts[n]
    BY <2>1, <2>2, <2>4 DEF IsSum
  <2>9. IsSum(longer, counts, k)
    BY <2>6, <2>7, <2>8 DEF IsSum
  <2>. QED  BY <2>9
<1>2. Bad \subseteq Nat
  OBVIOUS
<1>3. Bad = {}
  BY <1>1, <1>2, SmallestBad
<1>. QED  BY <1>3

LEMMA SumTable ==
    ASSUME NEW counts \in Counts
    PROVE  IsSum(FailuresUpTo(counts), counts, Window)
<1>. USE AdminAuthAssumption DEF Ages
<1>. DEFINE Step(g, n) == IF n = 0 THEN counts[n] ELSE g[n - 1] + counts[n]
            Table(g) == [n \in Ages |-> Step(g, n)]
            h == FailuresUpTo(counts)
<1>1. PICK g : IsSum(g, counts, Window)
  BY SumExists
<1>2. g = Table(g)
  <2>1. ASSUME NEW n \in Ages PROVE g[n] = Step(g, n)
    BY <1>1 DEF IsSum
  <2>2. g = [n \in Ages |-> g[n]]
    BY <1>1 DEF IsSum
  <2>. HIDE DEF Step
  <2>. QED  BY <2>1, <2>2
<1>3. h = CHOOSE f : f = Table(f)
  BY DEF FailuresUpTo
<1>4. h = Table(h)
  <2>. HIDE DEF Table, h
  <2>. QED  BY <1>2, <1>3
<1>5. \A n \in Ages : h[n] = Step(h, n) /\ g[n] = Step(g, n)
  <2>. HIDE DEF h, Step
  <2>. QED  BY <1>2, <1>4
<1>. DEFINE Bad == {n \in Ages : h[n] # g[n]}
<1>6. ASSUME NEW n \in Bad, \A k \in Bad : n <= k PROVE FALSE
  <2>1. n \in Nat /\ n \in Ages /\ h[n] # g[n]
    OBVIOUS
  <2>2. n # 0 => n - 1 \in Ages /\ n - 1 \notin Bad
    BY <1>6, <2>1
  <2>3. n = 0 \/ h[n - 1] = g[n - 1]
    BY <2>2
  <2>4. Step(h, n) = Step(g, n)
    <3>. HIDE DEF h
    <3>. QED  BY <2>3
  <2>. HIDE DEF h, Step
  <2>. QED  BY <1>5, <2>1, <2>4
<1>7. Bad = {}
  <2>. HIDE DEF h
  <2>1. Bad \subseteq Nat
    OBVIOUS
  <2>. QED  BY <1>6, <2>1, SmallestBad
<1>8. \A n \in Ages : h[n] = g[n]
  BY <1>7
<1>9. h = g
  <2>. HIDE DEF h, Step
  <2>1. h = [n \in Ages |-> Step(h, n)] /\ g = [n \in Ages |-> Step(g, n)]
    BY <1>2, <1>4
  <2>2. \A n \in Ages : Step(h, n) = Step(g, n)
    BY <1>5, <1>8
  <2>. QED  BY <2>1, <2>2
<1>. QED  BY <1>1, <1>9

\* One failure more is one more in the window.
LEMMA OneMoreFailure ==
    ASSUME NEW counts \in Counts, NEW more \in Counts,
           more = [counts EXCEPT ![0] = @ + 1]
    PROVE  FailuresUpTo(more)[Window] = FailuresUpTo(counts)[Window] + 1
<1>. USE AdminAuthAssumption DEF Ages
<1>. DEFINE f == FailuresUpTo(counts)
            g == FailuresUpTo(more)
            Bad == {n \in Ages : g[n] # f[n] + 1}
<1>1. IsSum(f, counts, Window) /\ IsSum(g, more, Window)
  BY SumTable
<1>. HIDE DEF f, g
<1>2. /\ f \in [Ages -> Nat] /\ g \in [Ages -> Nat]
      /\ f[0] = counts[0] /\ g[0] = more[0]
      /\ \A n \in 1 .. Window : f[n] = f[n - 1] + counts[n] /\ g[n] = g[n - 1] + more[n]
  BY <1>1 DEF IsSum
<1>3. more[0] = counts[0] + 1 /\ \A n \in 1 .. Window : more[n] = counts[n]
  BY DEF Counts
<1>4. ASSUME NEW n \in Bad, \A k \in Bad : n <= k PROVE FALSE
  <2>1. n \in Ages /\ g[n] # f[n] + 1
    OBVIOUS
  <2>2. n # 0
    BY <1>2, <1>3, <2>1
  <2>3. n \in 1 .. Window /\ n - 1 \in Ages /\ n - 1 \notin Bad
    BY <1>4, <2>1, <2>2
  <2>4. g[n - 1] = f[n - 1] + 1
    BY <2>3
  <2>5. f[n - 1] \in Nat /\ counts[n] \in Nat
    BY <1>2, <2>3 DEF Counts
  <2>. QED  BY <1>2, <1>3, <2>1, <2>3, <2>4, <2>5
<1>5. Bad \subseteq Nat
  OBVIOUS
<1>6. Bad = {}
  BY <1>4, <1>5, SmallestBad
<1>7. Window \in Ages
  OBVIOUS
<1>8. g[Window] = f[Window] + 1
  BY <1>6, <1>7
<1>. QED  BY <1>8 DEF f, g

\* Growing older, failures leave the window and none enters it.
LEMMA OlderFailures ==
    ASSUME NEW counts \in Counts, NEW older \in Counts,
           older = [age \in Ages |-> IF age = 0 THEN 0 ELSE counts[age - 1]]
    PROVE  FailuresUpTo(older)[Window] <= FailuresUpTo(counts)[Window]
<1>. USE AdminAuthAssumption DEF Ages
<1>. DEFINE f == FailuresUpTo(counts)
            g == FailuresUpTo(older)
            Bad == {n \in Ages : g[n] + counts[n] # f[n]}
<1>1. IsSum(f, counts, Window) /\ IsSum(g, older, Window)
  BY SumTable
<1>. HIDE DEF f, g
<1>2. /\ f \in [Ages -> Nat] /\ g \in [Ages -> Nat]
      /\ f[0] = counts[0] /\ g[0] = older[0]
      /\ \A n \in 1 .. Window : f[n] = f[n - 1] + counts[n] /\ g[n] = g[n - 1] + older[n]
  BY <1>1 DEF IsSum
<1>3. older[0] = 0 /\ \A n \in 1 .. Window : older[n] = counts[n - 1]
  OBVIOUS
<1>4. ASSUME NEW n \in Bad, \A k \in Bad : n <= k PROVE FALSE
  <2>1. n \in Ages /\ g[n] + counts[n] # f[n] /\ counts[n] \in Nat
    BY DEF Counts
  <2>2. n # 0
    BY <1>2, <1>3, <2>1
  <2>3. n \in 1 .. Window /\ n - 1 \in Ages /\ n - 1 \notin Bad
    BY <1>4, <2>1, <2>2
  <2>4. g[n - 1] + counts[n - 1] = f[n - 1]
    BY <2>3
  <2>5. g[n - 1] \in Nat /\ f[n - 1] \in Nat /\ counts[n - 1] \in Nat
    BY <1>2, <2>3 DEF Counts
  <2>6. g[n] = g[n - 1] + counts[n - 1] /\ f[n] = f[n - 1] + counts[n]
    BY <1>2, <1>3, <2>3
  <2>. QED  BY <2>1, <2>4, <2>5, <2>6
<1>5. Bad \subseteq Nat
  OBVIOUS
<1>6. Bad = {}
  BY <1>4, <1>5, SmallestBad
<1>7. Window \in Ages
  OBVIOUS
<1>8. g[Window] + counts[Window] = f[Window]
  BY <1>6, <1>7
<1>9. g[Window] \in Nat /\ counts[Window] \in Nat
  BY <1>2, <1>7 DEF Counts
<1>10. g[Window] <= f[Window]
  BY <1>8, <1>9
<1>. QED  BY <1>10 DEF f, g

WindowKept ==
    /\ failures \in [Usernames -> [Ages -> Nat]]
    /\ \A u \in Usernames : RecentFailures(u) <= LOGIN_FAILURE_LIMIT

LEMMA WindowInit == Init => WindowKept
<1>. SUFFICES ASSUME Init PROVE WindowKept
  OBVIOUS
<1>. USE AdminAuthAssumption DEF Ages
<1>1. failures = [u \in Usernames |-> [age \in Ages |-> 0]]
  BY DEF Init
<1>2. ASSUME NEW u \in Usernames PROVE RecentFailures(u) <= LOGIN_FAILURE_LIMIT
  <2>. DEFINE f == FailuresUpTo(failures[u])
              Bad == {n \in Ages : f[n] # 0}
  <2>1. failures[u] \in Counts /\ \A n \in Ages : failures[u][n] = 0
    BY <1>1 DEF Counts
  <2>2. IsSum(f, failures[u], Window)
    BY <2>1, SumTable
  <2>. HIDE DEF f
  <2>3. ASSUME NEW n \in Bad, \A k \in Bad : n <= k PROVE FALSE
    <3>1. n \in Ages /\ f[n] # 0
      OBVIOUS
    <3>2. n # 0
      BY <2>1, <2>2, <3>1 DEF IsSum
    <3>3. n \in 1 .. Window /\ n - 1 \in Ages /\ n - 1 \notin Bad
      BY <2>3, <3>1, <3>2
    <3>4. f[n] = f[n - 1] + failures[u][n] /\ f[n - 1] = 0 /\ failures[u][n] = 0
      BY <2>1, <2>2, <3>1, <3>3 DEF IsSum
    <3>. QED  BY <3>1, <3>4
  <2>4. Bad = {}
    <3>1. Bad \subseteq Nat
      OBVIOUS
    <3>. QED  BY <2>3, <3>1, SmallestBad
  <2>5. f[Window] = 0
    BY <2>4
  <2>. QED  BY <2>5 DEF f, RecentFailures
<1>. QED  BY <1>1, <1>2 DEF WindowKept

LEMMA WindowNext == WindowKept /\ [Next]_vars => WindowKept'
<1>. SUFFICES ASSUME WindowKept, [Next]_vars PROVE WindowKept'
  OBVIOUS
<1>. USE AdminAuthAssumption
<1>1. ASSUME NEW u \in Usernames, FailedLogin(u) PROVE WindowKept'
  <2>1. /\ failures' = [failures EXCEPT ![u][0] = @ + 1]
        /\ RecentFailures(u) < LOGIN_FAILURE_LIMIT
        /\ failures[u] \in Counts /\ 0 \in Ages
    <3>1. RecentFailures(u) \in Nat
      <4>1. failures[u] \in Counts
        BY DEF WindowKept, Counts
      <4>2. IsSum(FailuresUpTo(failures[u]), failures[u], Window)
        BY <4>1, SumTable
      <4>. QED  BY <4>2 DEF IsSum, RecentFailures
    <3>. QED  BY <1>1, <3>1 DEF FailedLogin, IsLockedOut, WindowKept, Counts, Ages
  <2>2. failures'[u] = [failures[u] EXCEPT ![0] = @ + 1] /\ failures'[u] \in Counts
    BY <2>1 DEF WindowKept, Counts
  <2>3. RecentFailures(u)' = RecentFailures(u) + 1
    BY <2>1, <2>2, OneMoreFailure DEF RecentFailures
  <2>4. RecentFailures(u)' <= LOGIN_FAILURE_LIMIT
    <3>1. RecentFailures(u) \in Nat
      <4>1. IsSum(FailuresUpTo(failures[u]), failures[u], Window)
        BY <2>1, SumTable
      <4>. QED  BY <4>1 DEF IsSum, RecentFailures
    <3>. QED  BY <2>1, <2>3, <3>1
  <2>5. \A v \in Usernames \ {u} : failures'[v] = failures[v]
    BY <2>1 DEF WindowKept
  <2>6. \A v \in Usernames \ {u} : RecentFailures(v)' = RecentFailures(v)
    BY <2>5 DEF RecentFailures
  <2>7. failures' \in [Usernames -> [Ages -> Nat]]
    BY <2>1, <2>2 DEF WindowKept, Counts
  <2>. QED  BY <2>4, <2>6, <2>7 DEF WindowKept
<1>2. CASE TimePasses
  <2>1. failures' = [u \in Usernames |-> [age \in Ages |->
                       IF age = 0 THEN 0 ELSE failures[u][age - 1]]]
    BY <1>2 DEF TimePasses
  <2>2. ASSUME NEW u \in Usernames
        PROVE  /\ failures'[u] \in [Ages -> Nat]
               /\ RecentFailures(u)' <= LOGIN_FAILURE_LIMIT
    <3>1. failures[u] \in Counts
      BY DEF WindowKept, Counts
    <3>2. failures'[u] = [age \in Ages |-> IF age = 0 THEN 0 ELSE failures[u][age - 1]]
      BY <2>1
    <3>3. failures'[u] \in Counts
      BY <3>1, <3>2 DEF Counts, Ages
    <3>4. RecentFailures(u)' <= RecentFailures(u)
      BY <3>1, <3>2, <3>3, OlderFailures DEF RecentFailures
    <3>5. RecentFailures(u) \in Nat /\ RecentFailures(u)' \in Nat
      <4>1. /\ IsSum(FailuresUpTo(failures[u]), failures[u], Window)
            /\ IsSum(FailuresUpTo(failures'[u]), failures'[u], Window)
        BY <3>1, <3>3, SumTable
      <4>. QED  BY <4>1 DEF IsSum, RecentFailures
    <3>6. RecentFailures(u) <= LOGIN_FAILURE_LIMIT
      BY DEF WindowKept
    <3>. QED  BY <3>3, <3>4, <3>5, <3>6 DEF Counts
  <2>3. failures' \in [Usernames -> [Ages -> Nat]]
    BY <2>1, <2>2
  <2>. QED  BY <2>2, <2>3 DEF WindowKept
<1>3. CASE UNCHANGED failures
  BY <1>3 DEF WindowKept, RecentFailures
<1>. QED
  BY <1>1, <1>2, <1>3
     DEF Next, StartStep, CreateAdmin, WritePasswordFile, SkipSeeding, StopProcess,
         SuccessfulLogin, ChangePassword, StopChanging, Logout, vars, authVars

\* The two flags have no invariant to share.
Flags == signed_in \in BOOLEAN /\ cut \in BOOLEAN

LEMMA FlagsNext == Flags /\ [Next]_vars => Flags'
<1>. SUFFICES ASSUME Flags, [Next]_vars PROVE Flags'
  OBVIOUS
<1>1. CASE StopProcess
  BY <1>1 DEF StopProcess, Flags
<1>2. CASE SuccessfulLogin \/ Logout
  BY <1>2 DEF SuccessfulLogin, Logout, Flags
<1>3. CASE UNCHANGED <<signed_in, cut>>
  BY <1>3 DEF Flags
<1>. QED
  BY <1>1, <1>2, <1>3
     DEF Next, StartStep, CreateAdmin, WritePasswordFile, SkipSeeding, FailedLogin,
         ChangePassword, StopChanging, TimePasses, vars, authVars

\* The state keeps its shape, there is an admin before anything is served, and however
\* the guesses fall, no window holds more of them at one name than the limit.
THEOREM TypeCorrect == Spec => []TypeOK
<1>1. Spec => []KnownPassword
  BY KnownPasswordInit, KnownPasswordNext, PTL DEF Spec
<1>2. Spec => []WindowKept
  BY WindowInit, WindowNext, PTL DEF Spec
<1>3. Spec => []Flags
  <2>1. Init => Flags
    BY DEF Init, Flags
  <2>. QED  BY <2>1, FlagsNext, PTL DEF Spec
<1>4. Spec => []StartupTypeOK
  BY ImplementsStartup, StartupTypeCorrect, PTL
<1>5. KnownPassword /\ WindowKept /\ Flags /\ StartupTypeOK => TypeOK
  BY DEF KnownPassword, AdminType, WindowKept, Flags, TypeOK
<1>. QED  BY <1>1, <1>2, <1>3, <1>4, <1>5, PTL
=============================================================================
