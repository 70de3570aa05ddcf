SPECIFICATION Spec
CONSTANTS
  RoutedSlots <- FirstThree
  Slugs <- SomeSlugs
  MaxAsked = 3
INVARIANTS RoutersAgree AnsweredByWhoMay OneModelTheBest ReadsItsOwnReview
CHECK_DEADLOCK FALSE
