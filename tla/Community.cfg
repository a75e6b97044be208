\* A sign-in over the border of a month beside two uploads.
CONSTANTS
    Users = {u1}
    Signers = {c1, c2}
    MonthLength = 3
    MaxDay = 3
    MaxFaults = 1
    Uploads = {s1, s2}
    Pictures = {pic1, pic2}
    Names = {n1, n2}
    MaxErrors = 1
SYMMETRY Symmetry
SPECIFICATION CommunitySpec
CHECK_DEADLOCK FALSE
INVARIANT UrlsServeTheirPicture
PROPERTY StreaksAreTrue
