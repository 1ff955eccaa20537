SPECIFICATION Spec
CONSTANTS
    Visits <- MCVisits
    PluginIds <- MCPluginIds
    File <- MCFile
    PkgOf <- MCPkgOf
    Sources <- MCSources
    Hash <- MCHash
    Added <- MCAdded
    AddedIn <- MCAddedIn
    Declaring <- MCDeclaring
    Symbols <- MCSymbols
    ImportsOf <- MCImportsOf
    RepoName = "main"
    Configuration <- MCConfiguration
    IndexedByRules = TRUE
INVARIANTS
    TypeOK
    OwnResults
    SameDeps
    ErrorsFail
