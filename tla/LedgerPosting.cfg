SPECIFICATION Spec
CONSTANTS
    Workers = {w1, w2}
    Invoices = {inv1, inv2}
    Vouchers = {v1, v2}
    Desk <- TwoDesks
    w1 = w1
    inv1 = inv1
    inv2 = inv2
    v1 = v1
    v2 = v2
    Kind <- BothKinds
    Sheets <- ThreeSheets
    NoteSheets <- OneSheet
    ImportSheets <- Imported
    Amounts = {5}
    Rupee = 4
    MaxSuffix = 1
INVARIANT TypeOK
INVARIANT JournalsBalance
INVARIANT JournalMirrorsInvoice
INVARIANT ControlAccountAgrees
PROPERTY JournalsAppendOnly
PROPERTY ClosedPeriodFrozen
PROPERTY SettlementWithinBalance
