\* The loop beside admins who deny and change the settings; one failure or restart, one mark that raises, a POST applied late.
SPECIFICATION FairTimeoutSpec
CONSTANTS
    NoTrack = NoTrack
    Unavailable = Unavailable
    NoPlaylist = NoPlaylist
    backbone = backbone
    song = song
    hit = hit
    main = main
    admin = admin
    worker = worker
    Tracks = {backbone, song}
    Approvers = {worker}
    System = worker
    Playlists = {main}
    AheadChoices = {1}
    Backbone <- MCBackbone
    LatePosts = TRUE
    MaxSubmissions = 2
    MaxFaults = 1
    MaxEdits = 0
    TimeoutChoices = {0, 3}
    MaxTime = 1
    MaxUnmarked = 1
INVARIANTS
    TimeoutTypeOK
    RemindedAgainUnmarked
PROPERTIES
    Spec
    OverdueDecided
