SPECIFICATION Spec
CONSTANTS
    Visits <- MCVisits
    PluginIds <- MCPluginIds
    File <- MCFile
    PkgOf <- MCPkgOf
    Sources <- MCSources
    Hash <- MCSharedHash
    Added <- MCAdded
    AddedIn <- MCAddedIn
    Declaring <- MCDeclaring
    Symbols <- MCSymbols
    ImportsOf <- MCImportsOf
    RepoName = "main"
    Configuration <- MCConfiguration
    IndexedByRules = TRUE
INVARIANTS
    OwnResults
