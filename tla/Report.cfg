SPECIFICATION FairSpec
CONSTANTS
    Ids = {e1, e2, e3}
    Unfinished = {g}
    None = None
INVARIANTS
    ReportTellsTheVerdict
    ReportRestsOnOriginals
    AReportIsPossible
PROPERTIES
    AReportIsWritten
