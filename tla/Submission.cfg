\* Two submissions at a time, of two devices behind one or two addresses.
SPECIFICATION Spec
CONSTANTS
    song = song
    anthem = anthem
    phone = phone
    tablet = tablet
    wifi = wifi
    mobile = mobile
    h1 = h1
    h2 = h2
    Tracks = {song, anthem}
    Explicit = {anthem}
    Devices = {phone, tablet}
    Addresses = {wifi, mobile}
    Handlers = {h1, h2}
    DeviceLimit = 1
    IpLimit = 2
    Window = 1
    MaxSubmissions = 3
    MaxTime = 2
SYMMETRY Symmetry
INVARIANTS
    TypeOK
    DeviceOverrunIsOverlap
    AddressOverrunIsOverlap
