CONSTANTS
    Programs = {"v1", "v2", "app", "local", "tmp", "tmpapp"}
    Link = "link"
    Bundles = {"app", "tmpapp"}
    Temporary = {"tmp", "tmpapp"}
    Versions = {"v1", "v2"}
    NoPath = "none"
SPECIFICATION Spec
INVARIANTS TypeOK EntrySurvives
PROPERTIES SetBoxWouldStart ToggleAnswered
