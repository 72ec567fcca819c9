\* A denial while the approval is under way, and a submission that takes over the rowid.
SPECIFICATION Spec
CONSTANTS
    NoTrack = NoTrack
    Unavailable = Unavailable
    NoPlaylist = NoPlaylist
    backbone = backbone
    song = song
    hit = hit
    main = main
    Tracks = {backbone, song, hit}
    Approvers = {a1}
    Playlists = {main}
    AheadChoices = {1}
    Backbone <- MCBackbone
    LatePosts = FALSE
    MaxSubmissions = 2
    MaxFaults = 0
    MaxEdits = 0
INVARIANTS
    AddedMeansInserted
