SPECIFICATION LiveSpec
CONSTANTS
    Incidents = {i1, i2}
    Assigned = {i1}
    Runs = {r1}
    Edits = {d1}
    GREEN_MAX_MINUTES = 0
    YELLOW_MAX_MINUTES = 1
    ORANGE_MAX_MINUTES = 2
    MaxMinute = 3
    NULL = NULL
INVARIANTS TypeOK AlertNeverEarly RemindedOncePerLevel
PROPERTIES LevelsRise Escalates
CHECK_DEADLOCK FALSE
