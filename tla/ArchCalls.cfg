SPECIFICATION Spec
CONSTANTS
    Calls <- MCCalls
    Plain <- MCPlain
    Agreeing <- MCAgreeing
INVARIANTS
    TypeOK
    CachedIsFresh
    InputsAreThisCalls
    AgreeingBuild
    OptionsKeepTheFunction
