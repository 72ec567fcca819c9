\* Three migrations, three stops; the admin and a name nobody has.
SPECIFICATION FairSpec
CONSTANTS
    LastMigration = 3
    Statements <- MCStatements
    MaxCrashes = 3
    Usernames = {admin_name, unknown}
    Admin = admin_name
    Passwords = {p1, p2}
    Seed = Seed
    NoAdmin = NoAdmin
    NoPassword = NoPassword
    LOGIN_FAILURE_LIMIT = 2
    Window = 2
INVARIANTS
    TypeOK
    RecordedMeansDone
    ServesMigrated
    OnboardedByChange
    WayIn
PROPERTIES
    StartsUnlessTorn
    LockoutExpires
