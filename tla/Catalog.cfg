CONSTANTS
    Models = {gguf}
    Sources = {hub, disc}
    Local = {disc}
    Downloads = {1, 2}
    Attempts = 2
    None = None
    gguf = gguf
    hub = hub
    disc = disc
SPECIFICATION CatalogSpec
INVARIANTS
    ReadyIsWhole
PROPERTIES
    DownloadsEnd
