\* The program restarts between the mail of a reminder and its mark.
SPECIFICATION TimeoutSpec
CONSTANTS
    NoTrack = NoTrack
    Unavailable = Unavailable
    NoPlaylist = NoPlaylist
    backbone = backbone
    song = song
    hit = hit
    main = main
    admin = admin
    worker = worker
    Tracks = {backbone, song}
    Approvers = {worker}
    System = worker
    Playlists = {main}
    AheadChoices = {1}
    Backbone <- MCBackbone
    LatePosts = FALSE
    MaxSubmissions = 1
    MaxFaults = 1
    MaxEdits = 0
    TimeoutChoices = {0, 3}
    MaxTime = 1
    MaxUnmarked = 0
INVARIANTS
    RemindedOnce
