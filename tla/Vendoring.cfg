SPECIFICATION Spec
CONSTANTS
    A = A
    B = B
    b1 = b1
    b2 = b2
    Docs = {A, B}
    Prefix <- MCPrefix
    EmbedPath = "/c.json"
    Charts <- MCCharts
    Entries <- MCEntries
    Digests <- MCDigests
    Image <- MCImage
    AttachedAtPush <- MCAttached
    Tagged = {"both", "split"}
    Outages <- MCOutages
    Signed <- MCSigned
    Pins <- MCPins
    Starts <- MCStarts
    Builds = {b1, b2}
    Handed <- MCHanded
    MaxEvents = 2
SYMMETRY MCSymmetry
INVARIANTS
    BoundIsPublished
PROPERTIES
    VerifiedStays
    OneSyncSettles
CHECK_DEADLOCK FALSE
