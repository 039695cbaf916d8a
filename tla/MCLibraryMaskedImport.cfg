SPECIFICATION Spec
CONSTANTS
    i1 = i1
    i2 = i2
    i3 = i3
    i4 = i4
    Ids = {i1, i2, i3, i4}
    Names = {"a", "b"}
    FormNames = {"a"}
    MaxRows = 3
    MaxHeld = 2
    Secrets = {"pass"}
    Files <- SomeFiles
SYMMETRY Symmetry
PROPERTY MaskedImportsKeepSecrets
CHECK_DEADLOCK FALSE
