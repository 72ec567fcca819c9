\* The admin denies a listed request and its id comes back while the loop awaits another approval.
SPECIFICATION TimeoutSpec
CONSTANTS
    NoTrack = NoTrack
    Unavailable = Unavailable
    NoPlaylist = NoPlaylist
    backbone = backbone
    song = song
    hit = hit
    main = main
    admin = admin
    worker = worker
    Tracks = {backbone, song}
    Approvers = {admin, worker}
    System = worker
    Playlists = {main}
    AheadChoices = {1}
    Backbone <- MCBackbone
    LatePosts = FALSE
    MaxSubmissions = 3
    MaxFaults = 0
    MaxEdits = 0
    TimeoutChoices = {1}
    MaxTime = 2
    MaxUnmarked = 0
PROPERTIES
    NoEarlyAutoApproval
