\* A denial while the approval of the same request is under way.
SPECIFICATION Spec
CONSTANTS
    NoTrack = NoTrack
    Unavailable = Unavailable
    NoPlaylist = NoPlaylist
    backbone = backbone
    song = song
    hit = hit
    main = main
    Tracks = {backbone, song}
    Approvers = {a1}
    Playlists = {main}
    AheadChoices = {1}
    Backbone <- MCBackbone
    LatePosts = FALSE
    MaxSubmissions = 1
    MaxFaults = 0
    MaxEdits = 0
INVARIANTS
    DeniedStaysOut
