-------------------------- MODULE MCLookupUploader --------------------------
EXTENDS LookupUploader

CONSTANTS m1, m2, b1, end
TwoMatches == {m1, m2}
OneBeat == {b1}
=============================================================================
