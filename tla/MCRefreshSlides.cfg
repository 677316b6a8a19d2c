\* A login and a refresh after the session's lifetime.
SPECIFICATION Spec
CONSTANTS
    Calls = {c1, c2, c3}
    None = None
PROPERTIES
    RefreshSlides
CHECK_DEADLOCK FALSE
