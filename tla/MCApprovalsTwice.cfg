CONSTANTS
    Cards = {k1}
    Clicks = {c1, c2, c3}
    ann = ann
    bob = bob
    Users = {ann, bob}
    RequesterOf <- MCRequesterOf
SYMMETRY MCClickSymmetry
SPECIFICATION ApprovalsSpec
CHECK_DEADLOCK FALSE
INVARIANT ExecutesAtMostOnce
