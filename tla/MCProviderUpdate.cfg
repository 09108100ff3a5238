SPECIFICATION Spec
CONSTANTS
    a = a
    b = b
    e = e
    compatible = compatible
    Tags = {a, b, e}
    CompatibleTag = compatible
    NoTag = none
    Directs <- MembersConfigured
    StoredTags = {none, compatible}
    Contents <- Downloads
    GroupDefaults = {none, b}
    MaxObjects = 7
    MaxUpdates = 2
INVARIANTS TypeOK  StartedIsManaged ClosedAtEnd OutboundIndexValid
CHECK_DEADLOCK FALSE
