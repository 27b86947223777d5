\* Two verbs and a method that Run does not support, two paths, at most two header entries.
SPECIFICATION Spec
CONSTANTS
    Methods = {"GET", "POST", "TRACE"}
    Verbs = {"GET", "POST"}
    Paths = {"/", "/index"}
    MaxEntries = 2
INVARIANT SettingsLastAsMarked
PROPERTY MethodIsRestored
