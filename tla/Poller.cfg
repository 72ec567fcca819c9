\* Two approvals at a time beside the worker, and one upset: a call that fails, a
\* restart, a change of the settings, or an edit of a playlist by hand.
SPECIFICATION FairSpec
CONSTANTS
    NoTrack = NoTrack
    Unavailable = Unavailable
    NoPlaylist = NoPlaylist
    main = main
    other = other
    backbone = backbone
    song = song
    Tracks = {backbone, song}
    Playlists = {main, other}
    ConfigChoices <- MCConfigChoices
    Backbone <- MCBackbone
    Requested = {song}
    EditKinds = {"add", "remove", "unavailable"}
    Approvers = {admin, worker}
    LeastAhead = 1
    MaxInsertions = 2
    MaxUpsets = 1
INVARIANTS
    TypeOK
    RemovedMeansGone
PROPERTIES
    DeletesOnlyOnRecord
    CleanupHappens
    RepeatFollowsConfig
