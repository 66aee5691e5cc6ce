SPECIFICATION StartedSpec
CONSTANTS
    Entity = {e1, e2, e3}
    NoEntity = NoEntity
    NoFile = NoFile
INVARIANT RemovalUpdatesLinks
