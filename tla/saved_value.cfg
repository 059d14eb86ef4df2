\* Programs change keys that the file has already, and load it again.
CONSTANTS
    Editors = {"settings"}
    MaxBusy = 2
    MaxSaves = 2
    MaxEdits = 1
SPECIFICATION Spec
PROPERTY SavedValueIsLoaded
CHECK_DEADLOCK FALSE
