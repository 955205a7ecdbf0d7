SPECIFICATION Spec
CONSTANTS
    Names <- OrderedNames
    Modules <- MCModules
    Imports <- MCImports
    Specifiers <- MCSpecifiers
    MaxDepth = 16
    None = None
INVARIANTS
    ValuesStandAlone
    ExpansionsOverride
    CyclesAreReported
    OperatorsBindAsUsual
