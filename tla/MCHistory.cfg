\* Four entries, some of the same moment, in pages of one or two.
SPECIFICATION HistorySpec
CONSTANTS
    e1 = e1
    e2 = e2
    e3 = e3
    e4 = e4
    Entries = {e1, e2, e3, e4}
    Times = {1, 2, 3, 4}
    PageSizes = {1, 2}
SYMMETRY MCSymmetry
INVARIANTS
    HistoryTypeOK
    WalkMissesNothing
    RepeatsOnlyAfterInsert
    TotalCoversWhatIsShown
