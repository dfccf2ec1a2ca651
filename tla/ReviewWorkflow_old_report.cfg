\* The final report of a review, told before the review has ended: violated.
SPECIFICATION ReviewSpec
CONSTANTS
  MaxReviewAttempts = 1
  MaxReviewFaults = 0
INVARIANTS ReportAfterTheEnd
CHECK_DEADLOCK FALSE
