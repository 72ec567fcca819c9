\* Two submissions of one device that are checked before either has its row.
SPECIFICATION Spec
CONSTANTS
    song = song
    anthem = anthem
    phone = phone
    tablet = tablet
    wifi = wifi
    mobile = mobile
    h1 = h1
    h2 = h2
    Tracks = {song, anthem}
    Explicit = {anthem}
    Devices = {phone, tablet}
    Addresses = {wifi, mobile}
    Handlers = {h1, h2}
    DeviceLimit = 2
    IpLimit = 3
    Window = 1
    MaxSubmissions = 3
    MaxTime = 0
INVARIANTS
    DeviceLimitKept
