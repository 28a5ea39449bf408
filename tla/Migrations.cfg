SPECIFICATION FairSpec
CONSTANTS
    App = {a1}
    Hit = {h1}
    Target = {0, 1, 5, 6, 9}
    MaxCommands = 3
    MaxRequests = 1
INVARIANTS TypeOK SchemaOfVersion RowsFitColumn
PROPERTIES CheckedRowsCast HeadServes CommandsEnd AppsMoveOn
