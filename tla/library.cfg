SPECIFICATION SuiteSpec
CONSTANTS
    None = None
    NoTemplate = NoTemplate
    MaxEdits = 2
    MoreEdits = 3
    MaxTemplateEdits = 2
    MaxFailures = 2
INVARIANTS BuildsAreCurrent HostResolves RegistrationsAreRight BoilerplatesAreFaithful
\* a parser, a match or an extraction stops, and so may the user
CHECK_DEADLOCK FALSE
