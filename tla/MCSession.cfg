\* One fuzzing session, new or resumed, with and without limits; the archives before
\* it are bounded by OverwrittenIsPlain.
SPECIFICATION Spec
CONSTANTS
    Procs = {fuzzer}
    NoProc = NoProc
    MaxCrashes = 2
    Fuzzer = fuzzer
INVARIANTS
    TypeOK
    ReportedIsArchived
    SilentMeansNone
    EndsForCause
    CrashesKept
    ArchiveResumable
    QuietArchive
PROPERTY SessionEnds
CONSTRAINT OverwrittenIsPlain
