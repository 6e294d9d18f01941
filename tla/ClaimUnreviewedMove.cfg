SPECIFICATION ReviewSpec
CONSTANTS
    NoNode = NoNode
    NoReview = NoReview
    GuardShare = 20
    Parents = {main}
    Numbers = {1, 2}
    Bodies = {b1}
    MaxNodesSeen = 2
    MaxRevisions = 2
CHECK_DEADLOCK FALSE
INVARIANT UnreviewedMoveIsHeld
