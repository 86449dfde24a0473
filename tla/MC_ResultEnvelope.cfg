CONSTANTS
    Absent = Absent
    Invalid = Invalid
    Issue <- MCIssue
    Number = Number
SPECIFICATION Spec
INVARIANTS
    ParseMatchesSchema
