\* Two calls at a time, three changes and two sessions of a tick.
SPECIFICATION Spec
CONSTANTS
    Handler = {h1, h2}
    Key = {k1}
    AuthModes = {"optional", "disabled"}
    MaxAge = 1
    MaxTime = 2
    MaxLogins = 1
    MaxChanges = 2
INVARIANT OnlyEntitledGetIn
PROPERTY NothingComesBack
