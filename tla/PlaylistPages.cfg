\* Playlists of up to four items, pages of two, two edits at any moment.
SPECIFICATION Spec
CONSTANTS
    NoTrack = NoTrack
    Unavailable = Unavailable
    Tracks = {song, anthem}
    WalkPageSize = 2
    PLAYLIST_PAGE_SIZE = 2
    MaxLength = 4
    MaxEdits = 2
INVARIANTS
    TypeOK
    WalkMissesNothing
    WalkExact
    MenuComplete
    NextLeadsOn
