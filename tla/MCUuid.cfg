CONSTANTS
    Inputs <- MCInputs

SPECIFICATION Spec

INVARIANT StrIsCanonical
INVARIANT FieldsFollowRfcLayout
INVARIANT BytesLeReadsFields
INVARIANT Uuid4StampsOnlyVersionAndVariant

\* A UUID is immutable once constructed.
CHECK_DEADLOCK FALSE
