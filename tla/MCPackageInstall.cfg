SPECIFICATION Spec
CONSTANTS
    a = a
    b = b
    own = own
    shared = shared
    named = named
    plain = plain
    Blank = Blank
    None = None
    Specs <- MCSpecs
    Locations = {l1, l2, l3}
    Existing = {l1, l2}
    Default = l1
    Modules = {own, shared}
    Provides <- MCProvides
    ModuleMaps = {named, plain}
    Named = {named}
    Maps <- MCMaps
    MaxInstalls = 3
    MaxRestarts = 1
    MaxFailures = 2
INVARIANTS InstalledStaysBuilt LinksProvide WarnedOfNew
PROPERTY IdsStable
CHECK_DEADLOCK FALSE
