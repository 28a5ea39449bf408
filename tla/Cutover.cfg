SPECIFICATION Spec
CONSTANTS
    App = {a1}
    Hit = {h1}
    Target = {0, 9}
    MaxCommands = 2
    MaxRequests = 1
INVARIANTS CutoverApplies
