\* Two approvers, a submission that may take over a denied id, one fault, one edit by hand.
SPECIFICATION Spec
CONSTANTS
    NoTrack = NoTrack
    Unavailable = Unavailable
    NoPlaylist = NoPlaylist
    backbone = backbone
    song = song
    hit = hit
    main = main
    Tracks = {backbone, song}
    Approvers = {a1, a2}
    Playlists = {main}
    AheadChoices = {1}
    Backbone <- MCBackbone
    LatePosts = TRUE
    MaxSubmissions = 2
    MaxFaults = 1
    MaxEdits = 1
INVARIANTS
    TypeOK
    OnePendingPerTrack
    AddedHasEntry
    EntryMeansInserted
    InsertionsRecorded
    AuditNeverAhead
    NoTrackTwice
PROPERTIES
    AddedIsFinal
    QueueSpec
