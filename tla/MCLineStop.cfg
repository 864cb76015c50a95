SPECIFICATION Spec
CONSTANTS
    Slots = {1, 2}
    Gens = {1, 2, 3, 4}
    MaxEvents = 2
PROPERTIES
    StopSticks
