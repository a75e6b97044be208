\* Two overlapping builders of one member per batch, one query, three shops.
CONSTANTS
    Types = {t1, t2}
    Shops = {s1, s2, s3}
    Polar = {s3}
    Builders = {b1, b2}
    Readers = {r1}
    Limit = 2
    Batch = 1
    MaxEdits = 1
    MaxFaults = 2
SYMMETRY Symmetry
SPECIFICATION GeoSpec
CHECK_DEADLOCK FALSE
INVARIANTS
    IndexIsWhole
    OnlyTemporariesExpire
PROPERTIES
    LossIsNotEmptiness
    AnswersFollowTheTable
