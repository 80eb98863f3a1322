CONSTANTS
    Lead = {l1, l2}
    Contact = {c1, c2}
    Email = {e1}
    Request = {r1, r2}
    NoLead = NoLead
    NoContact = NoContact
    NoEmail = NoEmail
SPECIFICATION Spec
SYMMETRY Symmetry
INVARIANTS DuplicatesBounded ConversionsBounded OriginTraceable
PROPERTY OnlyACrashSilences
