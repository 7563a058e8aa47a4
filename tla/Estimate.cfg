\* One browser, two saves in a row.
CONSTANTS
    s1 = s1
    s2 = s2
    h1 = h1
    a1 = a1
    d1 = d1
    d2 = d2
    x1 = x1
    x2 = x2
    AssetIds = {s1, s2, h1, a1}
    DcIds = {d1, d2}
    ServiceIds = {x1, x2}
    None = none
    Texts <- SomeTexts
    FirstTables <- SomeTables
    Catalogs <- SomeCatalogs
    AssetEdits <- SomeAssetEdits
    DcEdits <- SomeDcEdits
    NoEdit = noEdit
    MaxSaves = 2
SPECIFICATION Spec
INVARIANTS TypeOK CostIsPaidOrIdle PagesAgree RefreshKeepsTheFigures
PROPERTIES SaveChangesOneColumn ElsewhereNothingChanges
CHECK_DEADLOCK FALSE
