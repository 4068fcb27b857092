SPECIFICATION Spec
CONSTANTS
    f1 = f1
    Flows = {f1}
    MaxVersion = 2
PROPERTIES
    LastSessionReloaded
