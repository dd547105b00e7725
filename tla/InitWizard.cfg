SPECIFICATION WizardSpec
CONSTANTS
    Single <- MCSingle
    Pairs <- MCPairs
    Unset = Unset
    SourceValues <- MCValues
    Defaults <- MCDefaults
    WizardProviders <- MCWizardProviders
    ProviderNames <- MCProviderNames
    Ollama = ollama
    NoKey = NoKey
    Torn = Torn
    MaxRuns = 2
    ollama = ollama
    anthropic = anthropic
    groq = groq
INVARIANTS LoadFollowsSources WrittenConfigLoads SelectedHaveKeys
PROPERTIES KeysAreKept
CHECK_DEADLOCK FALSE
